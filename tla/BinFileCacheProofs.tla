--------------------------- MODULE BinFileCacheProofs --------------------------
(***************************************************************************)
(* Theorems about BinFileCache.                                            *)
(***************************************************************************)
EXTENDS BinFileCache, FoldLemmas, SequenceTheorems

--------------------------------------------------------------------------------
(* The loops.                                                              *)

(* What every turn of CheckCacheSize keeps holds after it.                 *)
LEMMA CheckCacheSizeTurns ==
  ASSUME NEW V, NEW s \in V, s.queue \in Seq(Uuid), \A t \in V : EvictBack(t) \in V
  PROVE  CheckCacheSize(s) \in V
<1> DEFINE n == Len(s.queue)
           G == [p \in (1 .. n) \X V |-> EvictBack(p[2])]
           body(iter) == [S \in SUBSET (1 .. n) |->
                            IF S = {} THEN s ELSE EvictBack(iter[S \ {Max(S)}])]
           g == CHOOSE iter : iter = body(iter)
<1>1. n \in Nat /\ DOMAIN s.queue = 1 .. n
  BY LenProperties
<1>2. CheckCacheSize(s) = g[1 .. n]
  BY <1>1 DEF CheckCacheSize, FoldLeft, MapThenFoldSet
<1>3. IsTurn(G, n, V)
  BY DEF IsTurn
<1>a. \A k \in 1 .. n, t \in V : G[<<k, t>>] = EvictBack(t)
  OBVIOUS
<1>4. \A S \in SUBSET (1 .. n) : Highest(n)[S] = Max(S)
  BY DEF Highest, Max
<1>5. \A S \in SUBSET (1 .. n) : S # {} => Max(S) \in 1 .. n /\ S \ {Max(S)} \in SUBSET (1 .. n)
  BY <1>1, <1>4, HighestPicks DEF Picks
<1> HIDE DEF n, G
<1>6. PICK f : IsIndexFold(f, n, V, G, s)
  BY <1>1, <1>3, FoldTurns
<1>7. f = body(f)
  <2>1. f \in [SUBSET (1 .. n) -> V]
    BY <1>6 DEF IsIndexFold, IsFold
  <2>2. f[{}] = s
    BY <1>6 DEF IsIndexFold, IsFold
  <2>3. ASSUME NEW S \in SUBSET (1 .. n), S # {}
        PROVE  f[S] = EvictBack(f[S \ {Max(S)}])
    <3>1. f[S] = G[<<Max(S), f[S \ {Max(S)}]>>]
      BY <1>4, <1>6, <2>3 DEF IsIndexFold, IsFold
    <3>2. Max(S) \in 1 .. n /\ f[S \ {Max(S)}] \in V
      BY <1>5, <2>1, <2>3
    <3> QED
      BY <1>a, <3>1, <3>2
  <2> QED
    BY <2>1, <2>2, <2>3
<1>8. g = body(g)
  <2> HIDE DEF body
  <2> QED
    BY <1>7
<1>9. RecursByIndex(g, n, V, G, s)
  <2>1. \A S \in SUBSET (1 .. n) : g[S] = IF S = {} THEN s ELSE EvictBack(g[S \ {Max(S)}])
    <3> HIDE DEF g
    <3> QED
      BY <1>8
  <2> HIDE DEF g
  <2>2. g[{}] = s
    BY <2>1
  <2>3. ASSUME NEW S \in SUBSET (1 .. n), S # {}, g[S \ {Highest(n)[S]}] \in V
        PROVE  g[S] = G[<<Highest(n)[S], g[S \ {Highest(n)[S]}]>>]
    <3>1. Highest(n)[S] = Max(S) /\ Max(S) \in 1 .. n
      BY <1>4, <1>5, <2>3
    <3>2. g[S] = EvictBack(g[S \ {Max(S)}])
      BY <2>1, <2>3
    <3> QED
      BY <1>a, <2>3, <3>1, <3>2
  <2> QED
    BY <2>2, <2>3 DEF RecursByIndex, Recurs
<1> HIDE DEF g
<1>10. PICK h : IsTurned(h, n, V, G, s) /\ g[1 .. n] = h[n]
  BY <1>1, <1>3, <1>9, FoldIsTurned
<1> QED
  BY <1>1, <1>2, <1>10 DEF IsTurned

(* One turn of list::remove. *)
Kept(kept, w, u) == IF w = u THEN kept ELSE Append(kept, w)

(* What the loops of TryAbortTransaction and of list::remove do, turn by   *)
(* turn.  The values of the turns have to be in some set V.                *)
LEMMA WithoutTurns ==
  ASSUME NEW n \in Nat, NEW q, DOMAIN q = 1 .. n, NEW u, NEW V, << >> \in V,
         \A k \in 1 .. n, t \in V : Kept(t, q[k], u) \in V
  PROVE  \E h : /\ h \in [0 .. n -> V]
                /\ h[0] = << >>
                /\ \A k \in 1 .. n : h[k] = Kept(h[k - 1], q[k], u)
                /\ Without(q, u) = h[n]
<1> DEFINE G == [p \in (1 .. n) \X V |-> Kept(p[2], q[p[1]], u)]
           body(iter) == [S \in SUBSET (1 .. n) |->
                            IF S = {} THEN << >>
                            ELSE Kept(iter[S \ {Max(S)}], q[Max(S)], u)]
           g == CHOOSE iter : iter = body(iter)
<1>1. Without(q, u) = g[1 .. n]
  BY DEF Without, Kept, FoldLeft, MapThenFoldSet
<1>2. IsTurn(G, n, V)
  BY DEF IsTurn
<1>3. \A k \in 1 .. n, t \in V : G[<<k, t>>] = Kept(t, q[k], u)
  OBVIOUS
<1>4. \A S \in SUBSET (1 .. n) : Highest(n)[S] = Max(S)
  BY DEF Highest, Max
<1>5. \A S \in SUBSET (1 .. n) : S # {} => Max(S) \in 1 .. n /\ S \ {Max(S)} \in SUBSET (1 .. n)
  BY <1>4, HighestPicks DEF Picks
<1> HIDE DEF G
<1>6. PICK f : IsIndexFold(f, n, V, G, << >>)
  BY <1>2, FoldTurns
<1>7. f = body(f)
  <2>1. f \in [SUBSET (1 .. n) -> V]
    BY <1>6 DEF IsIndexFold, IsFold
  <2>2. f[{}] = << >>
    BY <1>6 DEF IsIndexFold, IsFold
  <2>3. ASSUME NEW S \in SUBSET (1 .. n), S # {}
        PROVE  f[S] = Kept(f[S \ {Max(S)}], q[Max(S)], u)
    <3>1. f[S] = G[<<Max(S), f[S \ {Max(S)}]>>]
      BY <1>4, <1>6, <2>3 DEF IsIndexFold, IsFold
    <3>2. Max(S) \in 1 .. n /\ f[S \ {Max(S)}] \in V
      BY <1>5, <2>1, <2>3
    <3> QED
      BY <1>3, <3>1, <3>2
  <2> QED
    BY <2>1, <2>2, <2>3
<1>8. g = body(g)
  <2> HIDE DEF body
  <2> QED
    BY <1>7
<1>9. RecursByIndex(g, n, V, G, << >>)
  <2>1. \A S \in SUBSET (1 .. n) :
          g[S] = IF S = {} THEN << >> ELSE Kept(g[S \ {Max(S)}], q[Max(S)], u)
    <3> HIDE DEF g
    <3> QED
      BY <1>8
  <2> HIDE DEF g
  <2>2. g[{}] = << >>
    BY <2>1
  <2>3. ASSUME NEW S \in SUBSET (1 .. n), S # {}, g[S \ {Highest(n)[S]}] \in V
        PROVE  g[S] = G[<<Highest(n)[S], g[S \ {Highest(n)[S]}]>>]
    <3>1. Highest(n)[S] = Max(S) /\ Max(S) \in 1 .. n
      BY <1>4, <1>5, <2>3
    <3>2. g[S] = Kept(g[S \ {Max(S)}], q[Max(S)], u)
      BY <2>1, <2>3
    <3> QED
      BY <1>3, <2>3, <3>1, <3>2
  <2> QED
    BY <2>2, <2>3 DEF RecursByIndex, Recurs
<1> HIDE DEF g
<1>10. PICK h : IsTurned(h, n, V, G, << >>) /\ g[1 .. n] = h[n]
  BY <1>2, <1>9, FoldIsTurned
<1>11. \A k \in 1 .. n : h[k] = Kept(h[k - 1], q[k], u)
  <2> SUFFICES ASSUME NEW k \in 1 .. n PROVE h[k] = Kept(h[k - 1], q[k], u)
    OBVIOUS
  <2>1. h[k] = G[<<k, h[k - 1]>>] /\ h[k - 1] \in V
    BY <1>10 DEF IsTurned
  <2> QED
    BY <1>3, <2>1
<1> QED
  BY <1>1, <1>10, <1>11 DEF IsTurned

PutBackRun(h, n, V, s, q) ==
  /\ h \in [0 .. n -> V]
  /\ h[0] = s
  /\ \A k \in 1 .. n : h[k] = PutBack(h[k - 1], q[k])

AllBack(s, q) == FoldLeft(PutBack, s, q)

LEMMA PutBackTurns ==
  ASSUME NEW n \in Nat, NEW q, DOMAIN q = 1 .. n, NEW s, NEW V, s \in V,
         \A k \in 1 .. n, t \in V : PutBack(t, q[k]) \in V
  PROVE  \E h : PutBackRun(h, n, V, s, q) /\ AllBack(s, q) = h[n]
<1> DEFINE G == [p \in (1 .. n) \X V |-> PutBack(p[2], q[p[1]])]
           body(iter) == [S \in SUBSET (1 .. n) |->
                            IF S = {} THEN s
                            ELSE PutBack(iter[S \ {Max(S)}], q[Max(S)])]
           g == CHOOSE iter : iter = body(iter)
<1>1. AllBack(s, q) = g[1 .. n]
  BY DEF AllBack, FoldLeft, MapThenFoldSet
<1>2. IsTurn(G, n, V)
  BY DEF IsTurn
<1>3. \A k \in 1 .. n, t \in V : G[<<k, t>>] = PutBack(t, q[k])
  OBVIOUS
<1>4. \A S \in SUBSET (1 .. n) : Highest(n)[S] = Max(S)
  BY DEF Highest, Max
<1>5. \A S \in SUBSET (1 .. n) : S # {} => Max(S) \in 1 .. n /\ S \ {Max(S)} \in SUBSET (1 .. n)
  BY <1>4, HighestPicks DEF Picks
<1> HIDE DEF G
<1>6. PICK f : IsIndexFold(f, n, V, G, s)
  BY <1>2, FoldTurns
<1>7. f = body(f)
  <2>1. f \in [SUBSET (1 .. n) -> V]
    BY <1>6 DEF IsIndexFold, IsFold
  <2>2. f[{}] = s
    BY <1>6 DEF IsIndexFold, IsFold
  <2>3. ASSUME NEW S \in SUBSET (1 .. n), S # {}
        PROVE  f[S] = PutBack(f[S \ {Max(S)}], q[Max(S)])
    <3>1. f[S] = G[<<Max(S), f[S \ {Max(S)}]>>]
      BY <1>4, <1>6, <2>3 DEF IsIndexFold, IsFold
    <3>2. Max(S) \in 1 .. n /\ f[S \ {Max(S)}] \in V
      BY <1>5, <2>1, <2>3
    <3> QED
      BY <1>3, <3>1, <3>2
  <2> QED
    BY <2>1, <2>2, <2>3
<1>8. g = body(g)
  <2> HIDE DEF body
  <2> QED
    BY <1>7
<1>9. RecursByIndex(g, n, V, G, s)
  <2>1. \A S \in SUBSET (1 .. n) :
          g[S] = IF S = {} THEN s ELSE PutBack(g[S \ {Max(S)}], q[Max(S)])
    <3> HIDE DEF g
    <3> QED
      BY <1>8
  <2> HIDE DEF g
  <2>2. g[{}] = s
    BY <2>1
  <2>3. ASSUME NEW S \in SUBSET (1 .. n), S # {}, g[S \ {Highest(n)[S]}] \in V
        PROVE  g[S] = G[<<Highest(n)[S], g[S \ {Highest(n)[S]}]>>]
    <3>1. Highest(n)[S] = Max(S) /\ Max(S) \in 1 .. n
      BY <1>4, <1>5, <2>3
    <3>2. g[S] = PutBack(g[S \ {Max(S)}], q[Max(S)])
      BY <2>1, <2>3
    <3> QED
      BY <1>3, <2>3, <3>1, <3>2
  <2> QED
    BY <2>2, <2>3 DEF RecursByIndex, Recurs
<1> HIDE DEF g
<1>10. PICK h : IsTurned(h, n, V, G, s) /\ g[1 .. n] = h[n]
  BY <1>2, <1>9, FoldIsTurned
<1>11. \A k \in 1 .. n : h[k] = PutBack(h[k - 1], q[k])
  <2> SUFFICES ASSUME NEW k \in 1 .. n PROVE h[k] = PutBack(h[k - 1], q[k])
    OBVIOUS
  <2>1. h[k] = G[<<k, h[k - 1]>>] /\ h[k - 1] \in V
    BY <1>10 DEF IsTurned
  <2> QED
    BY <1>3, <2>1
<1> QED
  BY <1>1, <1>10, <1>11 DEF IsTurned, PutBackRun

RollBackRun(h, n, V, s, q) ==
  /\ h \in [0 .. n -> V]
  /\ h[0] = s
  /\ \A k \in 1 .. n : h[k] = RollBack(h[k - 1], q[k])

AllRolledBack(s, q) == FoldLeft(RollBack, s, q)

LEMMA RollBackTurns ==
  ASSUME NEW n \in Nat, NEW q, DOMAIN q = 1 .. n, NEW s, NEW V, s \in V,
         \A k \in 1 .. n, t \in V : RollBack(t, q[k]) \in V
  PROVE  \E h : RollBackRun(h, n, V, s, q) /\ AllRolledBack(s, q) = h[n]
<1> DEFINE G == [p \in (1 .. n) \X V |-> RollBack(p[2], q[p[1]])]
           body(iter) == [S \in SUBSET (1 .. n) |->
                            IF S = {} THEN s
                            ELSE RollBack(iter[S \ {Max(S)}], q[Max(S)])]
           g == CHOOSE iter : iter = body(iter)
<1>1. AllRolledBack(s, q) = g[1 .. n]
  BY DEF AllRolledBack, FoldLeft, MapThenFoldSet
<1>2. IsTurn(G, n, V)
  BY DEF IsTurn
<1>3. \A k \in 1 .. n, t \in V : G[<<k, t>>] = RollBack(t, q[k])
  OBVIOUS
<1>4. \A S \in SUBSET (1 .. n) : Highest(n)[S] = Max(S)
  BY DEF Highest, Max
<1>5. \A S \in SUBSET (1 .. n) : S # {} => Max(S) \in 1 .. n /\ S \ {Max(S)} \in SUBSET (1 .. n)
  BY <1>4, HighestPicks DEF Picks
<1> HIDE DEF G
<1>6. PICK f : IsIndexFold(f, n, V, G, s)
  BY <1>2, FoldTurns
<1>7. f = body(f)
  <2>1. f \in [SUBSET (1 .. n) -> V]
    BY <1>6 DEF IsIndexFold, IsFold
  <2>2. f[{}] = s
    BY <1>6 DEF IsIndexFold, IsFold
  <2>3. ASSUME NEW S \in SUBSET (1 .. n), S # {}
        PROVE  f[S] = RollBack(f[S \ {Max(S)}], q[Max(S)])
    <3>1. f[S] = G[<<Max(S), f[S \ {Max(S)}]>>]
      BY <1>4, <1>6, <2>3 DEF IsIndexFold, IsFold
    <3>2. Max(S) \in 1 .. n /\ f[S \ {Max(S)}] \in V
      BY <1>5, <2>1, <2>3
    <3> QED
      BY <1>3, <3>1, <3>2
  <2> QED
    BY <2>1, <2>2, <2>3
<1>8. g = body(g)
  <2> HIDE DEF body
  <2> QED
    BY <1>7
<1>9. RecursByIndex(g, n, V, G, s)
  <2>1. \A S \in SUBSET (1 .. n) :
          g[S] = IF S = {} THEN s ELSE RollBack(g[S \ {Max(S)}], q[Max(S)])
    <3> HIDE DEF g
    <3> QED
      BY <1>8
  <2> HIDE DEF g
  <2>2. g[{}] = s
    BY <2>1
  <2>3. ASSUME NEW S \in SUBSET (1 .. n), S # {}, g[S \ {Highest(n)[S]}] \in V
        PROVE  g[S] = G[<<Highest(n)[S], g[S \ {Highest(n)[S]}]>>]
    <3>1. Highest(n)[S] = Max(S) /\ Max(S) \in 1 .. n
      BY <1>4, <1>5, <2>3
    <3>2. g[S] = RollBack(g[S \ {Max(S)}], q[Max(S)])
      BY <2>1, <2>3
    <3> QED
      BY <1>3, <2>3, <3>1, <3>2
  <2> QED
    BY <2>2, <2>3 DEF RecursByIndex, Recurs
<1> HIDE DEF g
<1>10. PICK h : IsTurned(h, n, V, G, s) /\ g[1 .. n] = h[n]
  BY <1>2, <1>9, FoldIsTurned
<1>11. \A k \in 1 .. n : h[k] = RollBack(h[k - 1], q[k])
  <2> SUFFICES ASSUME NEW k \in 1 .. n PROVE h[k] = RollBack(h[k - 1], q[k])
    OBVIOUS
  <2>1. h[k] = G[<<k, h[k - 1]>>] /\ h[k - 1] \in V
    BY <1>10 DEF IsTurned
  <2> QED
    BY <1>3, <2>1
<1> QED
  BY <1>1, <1>10, <1>11 DEF IsTurned, RollBackRun

UncreateRun(h, n, V, s, q) ==
  /\ h \in [0 .. n -> V]
  /\ h[0] = s
  /\ \A k \in 1 .. n : h[k] = Uncreate(h[k - 1], q[k])

AllUncreated(s, q) == FoldLeft(Uncreate, s, q)

LEMMA UncreateTurns ==
  ASSUME NEW n \in Nat, NEW q, DOMAIN q = 1 .. n, NEW s, NEW V, s \in V,
         \A k \in 1 .. n, t \in V : Uncreate(t, q[k]) \in V
  PROVE  \E h : UncreateRun(h, n, V, s, q) /\ AllUncreated(s, q) = h[n]
<1> DEFINE G == [p \in (1 .. n) \X V |-> Uncreate(p[2], q[p[1]])]
           body(iter) == [S \in SUBSET (1 .. n) |->
                            IF S = {} THEN s
                            ELSE Uncreate(iter[S \ {Max(S)}], q[Max(S)])]
           g == CHOOSE iter : iter = body(iter)
<1>1. AllUncreated(s, q) = g[1 .. n]
  BY DEF AllUncreated, FoldLeft, MapThenFoldSet
<1>2. IsTurn(G, n, V)
  BY DEF IsTurn
<1>3. \A k \in 1 .. n, t \in V : G[<<k, t>>] = Uncreate(t, q[k])
  OBVIOUS
<1>4. \A S \in SUBSET (1 .. n) : Highest(n)[S] = Max(S)
  BY DEF Highest, Max
<1>5. \A S \in SUBSET (1 .. n) : S # {} => Max(S) \in 1 .. n /\ S \ {Max(S)} \in SUBSET (1 .. n)
  BY <1>4, HighestPicks DEF Picks
<1> HIDE DEF G
<1>6. PICK f : IsIndexFold(f, n, V, G, s)
  BY <1>2, FoldTurns
<1>7. f = body(f)
  <2>1. f \in [SUBSET (1 .. n) -> V]
    BY <1>6 DEF IsIndexFold, IsFold
  <2>2. f[{}] = s
    BY <1>6 DEF IsIndexFold, IsFold
  <2>3. ASSUME NEW S \in SUBSET (1 .. n), S # {}
        PROVE  f[S] = Uncreate(f[S \ {Max(S)}], q[Max(S)])
    <3>1. f[S] = G[<<Max(S), f[S \ {Max(S)}]>>]
      BY <1>4, <1>6, <2>3 DEF IsIndexFold, IsFold
    <3>2. Max(S) \in 1 .. n /\ f[S \ {Max(S)}] \in V
      BY <1>5, <2>1, <2>3
    <3> QED
      BY <1>3, <3>1, <3>2
  <2> QED
    BY <2>1, <2>2, <2>3
<1>8. g = body(g)
  <2> HIDE DEF body
  <2> QED
    BY <1>7
<1>9. RecursByIndex(g, n, V, G, s)
  <2>1. \A S \in SUBSET (1 .. n) :
          g[S] = IF S = {} THEN s ELSE Uncreate(g[S \ {Max(S)}], q[Max(S)])
    <3> HIDE DEF g
    <3> QED
      BY <1>8
  <2> HIDE DEF g
  <2>2. g[{}] = s
    BY <2>1
  <2>3. ASSUME NEW S \in SUBSET (1 .. n), S # {}, g[S \ {Highest(n)[S]}] \in V
        PROVE  g[S] = G[<<Highest(n)[S], g[S \ {Highest(n)[S]}]>>]
    <3>1. Highest(n)[S] = Max(S) /\ Max(S) \in 1 .. n
      BY <1>4, <1>5, <2>3
    <3>2. g[S] = Uncreate(g[S \ {Max(S)}], q[Max(S)])
      BY <2>1, <2>3
    <3> QED
      BY <1>3, <2>3, <3>1, <3>2
  <2> QED
    BY <2>2, <2>3 DEF RecursByIndex, Recurs
<1> HIDE DEF g
<1>10. PICK h : IsTurned(h, n, V, G, s) /\ g[1 .. n] = h[n]
  BY <1>2, <1>9, FoldIsTurned
<1>11. \A k \in 1 .. n : h[k] = Uncreate(h[k - 1], q[k])
  <2> SUFFICES ASSUME NEW k \in 1 .. n PROVE h[k] = Uncreate(h[k - 1], q[k])
    OBVIOUS
  <2>1. h[k] = G[<<k, h[k - 1]>>] /\ h[k - 1] \in V
    BY <1>10 DEF IsTurned
  <2> QED
    BY <1>3, <2>1
<1> QED
  BY <1>1, <1>10, <1>11 DEF IsTurned, UncreateRun

(* std::list::remove: what is left is what is not u.                       *)
LEMMA WithoutResult ==
  ASSUME NEW q \in Seq(Uuid), NEW u
  PROVE  /\ Without(q, u) \in Seq(Uuid)
         /\ ToSet(Without(q, u)) = ToSet(q) \ {u}
         /\ IsInjective(q) => IsInjective(Without(q, u))
<1> DEFINE n == Len(q)
           Left(k) == {q[j] : j \in 1 .. k} \ {u}
           W == [k \in 0 .. n |-> {r \in Seq(Uuid) : /\ ToSet(r) = Left(k)
                                                     /\ IsInjective(q) => IsInjective(r)}]
<1>1. n \in Nat /\ DOMAIN q = 1 .. n /\ \A k \in 1 .. n : q[k] \in Uuid
  BY LenProperties, ElementOfSeq
<1>2. \A k \in 1 .. n, t \in Seq(Uuid) :
        Kept(t, q[k], u) \in Seq(Uuid)
  BY <1>1, AppendProperties DEF Kept
<1>3. << >> \in Seq(Uuid)
  BY EmptySeq
<1> HIDE DEF n
<1>4. PICK h : /\ h \in [0 .. n -> Seq(Uuid)]
               /\ h[0] = << >>
               /\ \A k \in 1 .. n : h[k] = Kept(h[k - 1], q[k], u)
               /\ Without(q, u) = h[n]
  <2> DEFINE V == Seq(Uuid)
  <2>1. << >> \in V /\ \A k \in 1 .. n, t \in V : Kept(t, q[k], u) \in V
    BY <1>2, <1>3
  <2>2. n \in Nat /\ DOMAIN q = 1 .. n
    BY <1>1
  <2> HIDE DEF V, W, Left
  <2>3. \E h : /\ h \in [0 .. n -> V]
               /\ h[0] = << >>
               /\ \A k \in 1 .. n : h[k] = Kept(h[k - 1], q[k], u)
               /\ Without(q, u) = h[n]
    BY ONLY <2>1, <2>2, WithoutTurns, SMTT(30)
  <2> QED
    BY <2>3 DEF V
<1>5. h[0] \in W[0]
  <2>1. ToSet(<< >>) = {} /\ IsInjective(<< >>)
    BY EmptySeq DEF ToSet, IsInjective
  <2>2. Left(0) = {}
    OBVIOUS
  <2> QED
    BY <1>1, <1>3, <1>4, <2>1, <2>2
<1>6. ASSUME NEW k \in 1 .. n, h[k - 1] \in W[k - 1]
      PROVE  h[k] \in W[k]
  <2> DEFINE r == h[k - 1]
  <2>1. k - 1 \in 0 .. n /\ k \in 0 .. n
    BY <1>1
  <2>2. r \in Seq(Uuid) /\ ToSet(r) = Left(k - 1) /\ (IsInjective(q) => IsInjective(r))
    BY <1>6, <2>1
  <2>3. {q[j] : j \in 1 .. k} = {q[j] : j \in 1 .. (k - 1)} \cup {q[k]}
    <3>1. 1 .. k = (1 .. (k - 1)) \cup {k}
      BY <1>1
    <3> QED
      BY <3>1
  <2> HIDE DEF r
  <2>4. CASE q[k] = u
    <3>1. h[k] = r /\ Left(k) = Left(k - 1)
      BY <1>4, <2>3, <2>4 DEF r, Kept
    <3> HIDE DEF Left
    <3> QED
      BY <2>1, <2>2, <3>1
  <2>5. CASE q[k] # u
    <3>1. h[k] = Append(r, q[k]) /\ Left(k) = Left(k - 1) \cup {q[k]}
      BY <1>4, <2>3, <2>5 DEF r, Kept
    <3>2. /\ Append(r, q[k]) \in Seq(Uuid)
          /\ Len(Append(r, q[k])) = Len(r) + 1
          /\ \A i \in 1 .. Len(r) : Append(r, q[k])[i] = r[i]
          /\ Append(r, q[k])[Len(r) + 1] = q[k]
          /\ Len(r) \in Nat
      BY <1>1, <2>2, AppendProperties, LenProperties
    <3> DEFINE a == Append(r, q[k])
               m == Len(r)
    <3>3. DOMAIN a = 1 .. (m + 1) /\ DOMAIN r = 1 .. m /\ m \in Nat
      BY <2>2, <3>2, LenProperties
    <3>a. /\ \A i \in 1 .. m : a[i] = r[i]
          /\ a[m + 1] = q[k]
      BY <3>2
    <3> HIDE DEF a, m
    <3>4. ToSet(a) = ToSet(r) \cup {q[k]}
      BY <3>3, <3>a DEF ToSet
    <3>5. ASSUME IsInjective(q) PROVE IsInjective(a)
      <4>1. \A i \in 1 .. m : r[i] # q[k]
        <5> SUFFICES ASSUME NEW i \in 1 .. m, r[i] = q[k] PROVE FALSE
          OBVIOUS
        <5>1. r[i] \in Left(k - 1)
          BY <2>2, <3>3 DEF ToSet
        <5>2. PICK j \in 1 .. (k - 1) : r[i] = q[j]
          BY <5>1
        <5>3. j \in 1 .. n /\ j # k
          BY <1>1
        <5> QED
          BY <1>1, <3>5, <5>2, <5>3 DEF IsInjective
      <4>2. \A i, j \in 1 .. m : r[i] = r[j] => i = j
        BY <2>2, <3>3, <3>5 DEF IsInjective
      <4> QED
        BY <3>3, <3>a, <4>1, <4>2 DEF IsInjective
    <3>6. a \in Seq(Uuid)
      BY <3>2 DEF a
    <3>7. h[k] = a
      BY <3>1 DEF a
    <3> HIDE DEF Left
    <3> QED
      BY <2>1, <2>2, <3>1, <3>4, <3>5, <3>6, <3>7
  <2> QED
    BY <2>4, <2>5
<1> HIDE DEF W
<1>7. \A k \in 0 .. n : h[k] \in W[k]
  BY <1>1, <1>5, <1>6, TurnsKeep
<1>8. n \in 0 .. n
  BY <1>1
<1>9. h[n] \in {r \in Seq(Uuid) : ToSet(r) = Left(n) /\ (IsInjective(q) => IsInjective(r))}
  BY <1>7, <1>8 DEF W
<1>10. Left(n) = ToSet(q) \ {u}
  BY <1>1 DEF ToSet
<1> QED
  BY <1>4, <1>9, <1>10

--------------------------------------------------------------------------------
(* Sequences.                                                              *)

LEMMA FrontLast ==
  ASSUME NEW S, NEW q \in Seq(S), Len(q) > 0
  PROVE  /\ Last(q) \in S /\ Last(q) \in ToSet(q)
         /\ Front(q) \in Seq(S)
         /\ DOMAIN Front(q) = 1 .. (Len(q) - 1)
         /\ Len(Front(q)) = Len(q) - 1
         /\ \A i \in DOMAIN Front(q) : i \in DOMAIN q /\ Front(q)[i] = q[i]
         /\ ToSet(q) = ToSet(Front(q)) \cup {Last(q)}
         /\ IsInjective(q) => IsInjective(Front(q)) /\ Last(q) \notin ToSet(Front(q))
<1>1. Len(q) \in Nat /\ DOMAIN q = 1 .. Len(q) /\ \A i \in 1 .. Len(q) : q[i] \in S
  BY LenProperties, ElementOfSeq
<1> DEFINE n == Len(q)
           f == Front(q)
<1>2. f \in Seq(S) /\ Len(f) = n - 1 /\ \A i \in 1 .. (n - 1) : f[i] = q[i]
  BY <1>1 DEF Front
<1>3. DOMAIN f = 1 .. (n - 1)
  BY <1>2, LenProperties
<1>4. Last(q) = q[n]
  BY DEF Last
<1>5. n \in Nat /\ n > 0 /\ DOMAIN q = 1 .. n
  BY <1>1
<1> HIDE DEF n, f
<1>6. 1 .. n = (1 .. (n - 1)) \cup {n} /\ n \notin 1 .. (n - 1)
  BY <1>5
<1>7. ToSet(q) = ToSet(f) \cup {q[n]}
  BY <1>2, <1>3, <1>5, <1>6 DEF ToSet
<1>8. ASSUME IsInjective(q)
      PROVE  IsInjective(f) /\ q[n] \notin ToSet(f)
  BY <1>2, <1>3, <1>5, <1>6, <1>8 DEF IsInjective, ToSet
<1>9. q[n] \in S
  BY <1>1, <1>5 DEF n
<1> QED
  BY <1>2, <1>3, <1>4, <1>5, <1>6, <1>7, <1>8, <1>9 DEF n, f

LEMMA InFrontOf ==
  ASSUME NEW S, NEW q \in Seq(S), NEW u \in S
  PROVE  /\ <<u>> \o q \in Seq(S)
         /\ ToSet(<<u>> \o q) = ToSet(q) \cup {u}
         /\ IsInjective(q) /\ u \notin ToSet(q) => IsInjective(<<u>> \o q)
<1>1. Len(q) \in Nat /\ DOMAIN q = 1 .. Len(q) /\ <<u>> \in Seq(S)
  BY LenProperties
<1> DEFINE n == Len(q)
           r == <<u>> \o q
<1>2. /\ r \in Seq(S) /\ Len(r) = n + 1 /\ r[1] = u
      /\ \A i \in 1 .. n : r[i + 1] = q[i]
  BY <1>1
<1>3. DOMAIN r = 1 .. (n + 1)
  BY <1>2, LenProperties
<1>4. n \in Nat /\ DOMAIN q = 1 .. n
  BY <1>1
<1> HIDE DEF n, r
<1>5. \A i \in 1 .. (n + 1) : i = 1 \/ (i - 1 \in 1 .. n /\ r[i] = q[i - 1])
  <2> SUFFICES ASSUME NEW i \in 1 .. (n + 1), i # 1
               PROVE  i - 1 \in 1 .. n /\ r[i] = q[i - 1]
    OBVIOUS
  <2>1. i - 1 \in 1 .. n /\ (i - 1) + 1 = i
    BY <1>4
  <2> QED
    BY <1>2, <2>1
<1>6. \A i \in 1 .. n : i + 1 \in 1 .. (n + 1)
  BY <1>4
<1>7. ToSet(r) = ToSet(q) \cup {u}
  <2>1. ASSUME NEW x \in ToSet(r) PROVE x \in ToSet(q) \cup {u}
    <3>1. PICK i \in 1 .. (n + 1) : x = r[i]
      BY <1>3 DEF ToSet
    <3>2. i = 1 \/ (i - 1 \in 1 .. n /\ x = q[i - 1])
      BY <1>5, <3>1
    <3> QED
      BY <1>2, <1>4, <3>1, <3>2 DEF ToSet
  <2>2. ASSUME NEW x \in ToSet(q) PROVE x \in ToSet(r)
    <3>1. PICK i \in 1 .. n : x = q[i]
      BY <1>4 DEF ToSet
    <3>2. i + 1 \in DOMAIN r /\ r[i + 1] = x
      BY <1>2, <1>3, <1>6, <3>1
    <3> QED
      BY <3>2 DEF ToSet
  <2>3. u \in ToSet(r)
    <3>1. 1 \in 1 .. (n + 1)
      BY <1>4
    <3> QED
      BY <1>2, <1>3, <3>1 DEF ToSet
  <2> QED
    BY <2>1, <2>2, <2>3
<1>8. ASSUME IsInjective(q), u \notin ToSet(q)
      PROVE  IsInjective(r)
  <2> SUFFICES ASSUME NEW i \in 1 .. (n + 1), NEW j \in 1 .. (n + 1), r[i] = r[j]
               PROVE  i = j
    BY <1>3 DEF IsInjective
  <2>1. \A k \in 1 .. n : q[k] # u
    BY <1>4, <1>8 DEF ToSet
  <2>2. CASE i = 1
    BY <1>2, <1>5, <2>1, <2>2
  <2>3. CASE j = 1
    BY <1>2, <1>5, <2>1, <2>3
  <2>4. CASE i # 1 /\ j # 1
    <3>1. i - 1 \in 1 .. n /\ j - 1 \in 1 .. n /\ q[i - 1] = q[j - 1]
      BY <1>5, <2>4
    <3>2. i - 1 = j - 1
      BY <1>4, <1>8, <3>1 DEF IsInjective
    <3> QED
      BY <1>4, <3>2
  <2> QED
    BY <2>2, <2>3, <2>4
<1> QED
  BY <1>2, <1>7, <1>8 DEF r

--------------------------------------------------------------------------------
(* What the operations on the cache keep.                                  *)

(* Types, whatever has happened: an object that is in memory is marked so, *)
(* and one that is said to be in the scratch file has a slot there.        *)
Placed(s) ==
  /\ s \in BinState
  /\ s.cursor \in 1 .. Len(s.scratch) + 1
  /\ \A u \in Uuid : s.location[u] = "Scratch" => s.position[u] \in DOMAIN s.scratch
  /\ \A u \in Uuid : s.object[u] # Null => s.location[u] = "Cache"

(* The queue has objects in memory, each once, and none with caching off;  *)
(* it has all of them if clients do not switch caching off.                *)
Lined(s) ==
  /\ IsInjective(s.queue)
  /\ \A u \in ToSet(s.queue) : s.location[u] = "Cache"
  /\ ~s.caching => s.queue = << >>
  /\ ~Toggles => s.caching /\ \A u \in Uuid : s.location[u] = "Cache" => u \in ToSet(s.queue)

(* Objects not marked dirty, but perhaps x, are as in the input file.      *)
CleanBut(s, x) ==
  \A u \in Uuid \ {x} : s.object[u] = Null \/ s.dirty[u] \/ s.object[u] = s.input[u]

Neat(s, x) == Placed(s) /\ (s.fault = "none" => Lined(s) /\ CleanBut(s, x))

(* From s to t objects have moved, but none has come or gone.              *)
Moved(s, t) ==
  /\ t.caching = s.caching /\ t.limit = s.limit /\ t.input = s.input
  /\ t.fault = "none" =>
       /\ s.fault = "none"
       /\ \A u \in Uuid : t.location[u] = "none" <=> s.location[u] = "none"

LEMMA MovedTwice ==
  ASSUME NEW s, NEW t, NEW r, Moved(s, t), Moved(t, r)
  PROVE  Moved(s, r)
BY DEF Moved

LEMMA FailIsNeat ==
  ASSUME NEW s, NEW x, Neat(s, x), NEW how \in {"assert", "crash", "freed"}
  PROVE  Neat(Fail(s, how), x) /\ Moved(s, Fail(s, how)) /\ Fail(s, how).fault # "none"
<1>1. Fail(s, how) = [s EXCEPT !.fault = IF s.fault = "none" THEN how ELSE s.fault]
  BY DEF Fail
<1>2. s \in BinState
  BY DEF Neat, Placed
<1> DEFINE t == Fail(s, how)
<1>3. /\ t \in BinState /\ t.location = s.location /\ t.object = s.object
      /\ t.position = s.position /\ t.scratch = s.scratch /\ t.cursor = s.cursor
      /\ t.caching = s.caching /\ t.limit = s.limit /\ t.input = s.input
      /\ t.fault # "none"
  BY <1>1, <1>2 DEF BinState
<1> HIDE DEF t
<1>4. Placed(t)
  BY <1>3 DEF Neat, Placed
<1> QED
  BY <1>3, <1>4 DEF Neat, Moved, t

(* The fields after an eviction.                                           *)
LEMMA EvictBackFields ==
  ASSUME NEW s \in BinState, s.cursor \in 1 .. Len(s.scratch) + 1,
         s.fault = "none", Len(s.queue) > s.limit, s.object[Last(s.queue)] # Null,
         NEW t, t = EvictBack(s), NEW u, u = Last(s.queue)
  PROVE  /\ u \in Uuid
         /\ t \in BinState
         /\ t.object = [s.object EXCEPT ![u] = Null] /\ t.queue = Front(s.queue)
         /\ t.dirty = s.dirty /\ t.caching = s.caching /\ t.limit = s.limit
         /\ t.input = s.input /\ t.fault = "none"
         /\ \/ /\ s.dirty[u]
               /\ t.location = [s.location EXCEPT ![u] = "Scratch"]
               /\ t.position = [s.position EXCEPT ![u] = s.cursor]
               /\ t.cursor = s.cursor + 1
               /\ Len(t.scratch) >= Len(s.scratch) /\ s.cursor \in 1 .. Len(t.scratch)
            \/ /\ ~s.dirty[u]
               /\ t.location = [s.location EXCEPT ![u] = "Input"]
               /\ t.position = s.position /\ t.cursor = s.cursor /\ t.scratch = s.scratch
<1> DEFINE q == s.queue
           c == s.scratch
           w == IF s.cursor > Len(c) THEN Append(c, s.object[u])
                ELSE [c EXCEPT ![s.cursor] = s.object[u]]
<1>1. /\ s.queue \in Seq(Uuid) /\ s.limit \in Nat /\ s.scratch \in Seq(Content)
      /\ s.object \in [Uuid -> Content \cup {Null}]
      /\ s.location \in [Uuid -> {"none", "Input", "Cache", "Scratch"}]
      /\ s.position \in [Uuid -> Nat] /\ s.cursor \in Nat
  BY DEF BinState
<1>2. u \in Uuid /\ Front(s.queue) \in Seq(Uuid)
  BY <1>1, FrontLast, LenProperties
<1>3. s.object[u] \in Content
  BY <1>1, <1>2
<1>4. /\ w \in Seq(Content) /\ Len(w) >= Len(s.scratch) /\ s.cursor \in 1 .. Len(w)
  <2>1. Len(c) \in Nat
    BY <1>1, LenProperties
  <2>2. CASE s.cursor > Len(c)
    BY <1>1, <1>3, <2>1, <2>2, AppendProperties
  <2>3. CASE ~(s.cursor > Len(c))
    BY <1>1, <1>3, <2>1, <2>3, ExceptSeq
  <2> QED
    BY <2>2, <2>3
<1>7. ~(s.fault # "none" \/ Len(s.queue) <= s.limit) /\ s.object[u] # Null
  BY <1>1, LenProperties
<1> HIDE DEF w
<1>5. CASE s.dirty[u]
  <2> DEFINE p == ToScratch(s, u)
  <2>1. p = [s EXCEPT !.position[u] = s.cursor, !.location[u] = "Scratch",
                      !.scratch = w, !.cursor = s.cursor + 1]
    BY DEF ToScratch, w
  <2>2. s.cursor + 1 \in Nat
    BY <1>1
  <2>3. /\ p \in BinState
        /\ p.object = s.object /\ p.queue = s.queue /\ p.dirty = s.dirty
        /\ p.caching = s.caching /\ p.limit = s.limit /\ p.input = s.input
        /\ p.fault = s.fault /\ p.scratch = w /\ p.cursor = s.cursor + 1
        /\ p.location = [s.location EXCEPT ![u] = "Scratch"]
        /\ p.position = [s.position EXCEPT ![u] = s.cursor]
    <3> DEFINE lo == [s.location EXCEPT ![u] = "Scratch"]
               po == [s.position EXCEPT ![u] = s.cursor]
               cu == s.cursor + 1
    <3>1. p = [s EXCEPT !.position = po, !.location = lo, !.scratch = w, !.cursor = cu]
      BY <2>1 DEF BinState
    <3>2. /\ lo \in [Uuid -> {"none", "Input", "Cache", "Scratch"}]
          /\ po \in [Uuid -> Nat] /\ cu \in Nat /\ w \in Seq(Content)
      BY <1>1, <1>2, <1>4, <2>2
    <3> HIDE DEF lo, po, cu, p
    <3>3. /\ p \in BinState
          /\ p.object = s.object /\ p.queue = s.queue /\ p.dirty = s.dirty
          /\ p.caching = s.caching /\ p.limit = s.limit /\ p.input = s.input
          /\ p.fault = s.fault /\ p.scratch = w /\ p.cursor = cu
          /\ p.location = lo /\ p.position = po
      BY <3>1, <3>2 DEF BinState
    <3> QED
      BY <3>3 DEF lo, po, cu
  <2>4. t = [p EXCEPT !.object[u] = Null, !.queue = Front(p.queue)]
    BY <1>7, <1>5 DEF EvictBack
  <2> HIDE DEF p
  <2>a. Front(p.queue) \in Seq(Uuid) /\ [p.object EXCEPT ![u] = Null] \in [Uuid -> Content \cup {Null}]
    BY <1>1, <1>2, <2>3
  <2>b. DOMAIN p = {"location", "object", "dirty", "position", "queue", "caching", "limit", "input", "scratch", "cursor", "fault"}
    BY <2>3 DEF BinState
  <2>c. t.queue = Front(p.queue)
    BY <2>4, <2>b
  <2>d. t.object = [p.object EXCEPT ![u] = Null]
    BY <2>4, <2>b
  <2>e. /\ t.dirty = p.dirty /\ t.caching = p.caching /\ t.limit = p.limit
        /\ t.input = p.input /\ t.fault = p.fault /\ t.scratch = p.scratch
        /\ t.cursor = p.cursor /\ t.location = p.location /\ t.position = p.position
    BY <2>4, <2>b
  <2>f. t \in BinState
    <3> DEFINE ob == [p.object EXCEPT ![u] = Null]
               qu == Front(p.queue)
    <3>1. t = [p EXCEPT !.object = ob, !.queue = qu]
      BY <2>4, <2>b
    <3>2. ob \in [Uuid -> Content \cup {Null}] /\ qu \in Seq(Uuid)
      BY <2>a
    <3> HIDE DEF ob, qu
    <3> QED
      BY <2>3, <3>1, <3>2 DEF BinState
  <2>5. /\ t \in BinState
        /\ t.object = [p.object EXCEPT ![u] = Null] /\ t.queue = Front(p.queue)
        /\ t.dirty = p.dirty /\ t.caching = p.caching /\ t.limit = p.limit
        /\ t.input = p.input /\ t.fault = p.fault /\ t.scratch = p.scratch
        /\ t.cursor = p.cursor /\ t.location = p.location /\ t.position = p.position
    BY <2>c, <2>d, <2>e, <2>f
  <2> QED
    BY <1>2, <1>4, <1>5, <2>3, <2>5
<1>6. CASE ~s.dirty[u]
  <2> DEFINE p == [s EXCEPT !.location[u] = "Input"]
  <2>3. /\ p \in BinState
        /\ p.object = s.object /\ p.queue = s.queue /\ p.dirty = s.dirty
        /\ p.caching = s.caching /\ p.limit = s.limit /\ p.input = s.input
        /\ p.fault = s.fault /\ p.scratch = s.scratch /\ p.cursor = s.cursor
        /\ p.location = [s.location EXCEPT ![u] = "Input"]
        /\ p.position = s.position
    BY <1>2 DEF BinState
  <2>4. t = [p EXCEPT !.object[u] = Null, !.queue = Front(p.queue)]
    BY <1>7, <1>6 DEF EvictBack
  <2> HIDE DEF p
  <2>a. Front(p.queue) \in Seq(Uuid) /\ [p.object EXCEPT ![u] = Null] \in [Uuid -> Content \cup {Null}]
    BY <1>1, <1>2, <2>3
  <2>b. DOMAIN p = {"location", "object", "dirty", "position", "queue", "caching", "limit", "input", "scratch", "cursor", "fault"}
    BY <2>3 DEF BinState
  <2>c. t.queue = Front(p.queue)
    BY <2>4, <2>b
  <2>d. t.object = [p.object EXCEPT ![u] = Null]
    BY <2>4, <2>b
  <2>e. /\ t.dirty = p.dirty /\ t.caching = p.caching /\ t.limit = p.limit
        /\ t.input = p.input /\ t.fault = p.fault /\ t.scratch = p.scratch
        /\ t.cursor = p.cursor /\ t.location = p.location /\ t.position = p.position
    BY <2>4, <2>b
  <2>f. t \in BinState
    <3> DEFINE ob == [p.object EXCEPT ![u] = Null]
               qu == Front(p.queue)
    <3>1. t = [p EXCEPT !.object = ob, !.queue = qu]
      BY <2>4, <2>b
    <3>2. ob \in [Uuid -> Content \cup {Null}] /\ qu \in Seq(Uuid)
      BY <2>a
    <3> HIDE DEF ob, qu
    <3> QED
      BY <2>3, <3>1, <3>2 DEF BinState
  <2>5. /\ t \in BinState
        /\ t.object = [p.object EXCEPT ![u] = Null] /\ t.queue = Front(p.queue)
        /\ t.dirty = p.dirty /\ t.caching = p.caching /\ t.limit = p.limit
        /\ t.input = p.input /\ t.fault = p.fault /\ t.scratch = p.scratch
        /\ t.cursor = p.cursor /\ t.location = p.location /\ t.position = p.position
    BY <2>c, <2>d, <2>e, <2>f
  <2> QED
    BY <1>2, <1>6, <2>3, <2>5
<1> QED
  BY <1>5, <1>6

LEMMA EvictBackNeat ==
  ASSUME NEW s, NEW x, Neat(s, x)
  PROVE  Neat(EvictBack(s), x) /\ Moved(s, EvictBack(s))
<1> DEFINE t == EvictBack(s)
           u == Last(s.queue)
<1>1. /\ s \in BinState /\ s.cursor \in 1 .. Len(s.scratch) + 1
      /\ \A w \in Uuid : s.location[w] = "Scratch" => s.position[w] \in DOMAIN s.scratch
      /\ \A w \in Uuid : s.object[w] # Null => s.location[w] = "Cache"
  BY DEF Neat, Placed
<1>2. /\ s.queue \in Seq(Uuid) /\ s.limit \in Nat /\ s.scratch \in Seq(Content)
      /\ s.object \in [Uuid -> Content \cup {Null}]
      /\ s.location \in [Uuid -> {"none", "Input", "Cache", "Scratch"}]
      /\ s.position \in [Uuid -> Nat] /\ s.cursor \in Nat
  BY <1>1 DEF BinState
<1>3. CASE s.fault # "none" \/ Len(s.queue) <= s.limit
  <2>1. t = s
    BY <1>3 DEF EvictBack
  <2> QED
    BY <2>1 DEF Moved
<1>4. CASE ~(s.fault # "none" \/ Len(s.queue) <= s.limit) /\ s.object[u] = Null
  <2>1. t = Fail(s, "crash")
    BY <1>4 DEF EvictBack
  <2> QED
    BY <2>1, FailIsNeat
<1>5. CASE ~(s.fault # "none" \/ Len(s.queue) <= s.limit) /\ s.object[u] # Null
  <2>1. s.fault = "none" /\ Len(s.queue) > s.limit /\ Len(s.queue) > 0 /\ Len(s.queue) \in Nat
    BY <1>2, <1>5, LenProperties
  <2> HIDE DEF t, u
  <2>2. /\ u \in Uuid
        /\ t \in BinState
        /\ t.object = [s.object EXCEPT ![u] = Null] /\ t.queue = Front(s.queue)
        /\ t.dirty = s.dirty /\ t.caching = s.caching /\ t.limit = s.limit
        /\ t.input = s.input /\ t.fault = "none"
        /\ \/ /\ s.dirty[u]
              /\ t.location = [s.location EXCEPT ![u] = "Scratch"]
              /\ t.position = [s.position EXCEPT ![u] = s.cursor]
              /\ t.cursor = s.cursor + 1
              /\ Len(t.scratch) >= Len(s.scratch) /\ s.cursor \in 1 .. Len(t.scratch)
           \/ /\ ~s.dirty[u]
              /\ t.location = [s.location EXCEPT ![u] = "Input"]
              /\ t.position = s.position /\ t.cursor = s.cursor /\ t.scratch = s.scratch
    BY <1>1, <1>5, <2>1, EvictBackFields DEF t, u
  <2>3. Lined(s) /\ CleanBut(s, x)
    BY <2>1 DEF Neat
  <2>4. /\ u \in ToSet(s.queue) /\ ToSet(s.queue) = ToSet(t.queue) \cup {u}
        /\ IsInjective(t.queue) /\ u \notin ToSet(t.queue)
    BY <1>2, <2>1, <2>2, <2>3, FrontLast DEF u, Lined
  <2>5. s.caching
    <3>1. s.queue # << >>
      BY <2>1
    <3> QED
      BY <1>1, <2>3, <3>1 DEF Lined, BinState
  <2>6. s.location[u] = "Cache"
    BY <2>3, <2>4 DEF Lined
  <2>7. /\ t.location[u] \in {"Scratch", "Input"}
        /\ \A w \in Uuid : w # u => t.location[w] = s.location[w]
        /\ \A w \in Uuid : w # u => t.object[w] = s.object[w]
        /\ t.object[u] = Null
    BY <1>2, <2>2
  <2>8. Placed(t)
    <3>1. t.cursor \in 1 .. Len(t.scratch) + 1
      <4>1. Len(s.scratch) \in Nat /\ Len(t.scratch) \in Nat
        BY <1>2, <2>2, LenProperties DEF BinState
      <4> QED
        BY <1>1, <1>2, <2>2, <4>1
    <3>2. ASSUME NEW w \in Uuid, t.location[w] = "Scratch"
          PROVE  t.position[w] \in DOMAIN t.scratch
      <4>1. DOMAIN t.scratch = 1 .. Len(t.scratch) /\ Len(t.scratch) \in Nat
        BY <2>2, LenProperties DEF BinState
      <4>2. DOMAIN s.scratch = 1 .. Len(s.scratch) /\ Len(s.scratch) \in Nat
        BY <1>2, LenProperties
      <4>3. CASE w = u
        BY <1>2, <2>2, <3>2, <4>1, <4>3
      <4>4. CASE w # u
        <5>1. s.position[w] \in DOMAIN s.scratch /\ t.position[w] = s.position[w]
          BY <1>1, <1>2, <2>2, <2>7, <3>2, <4>4
        <5> QED
          BY <2>2, <4>1, <4>2, <5>1
      <4> QED
        BY <4>3, <4>4
    <3>3. \A w \in Uuid : t.object[w] # Null => t.location[w] = "Cache"
      BY <1>1, <2>7
    <3> QED
      BY <2>2, <3>1, <3>2, <3>3 DEF Placed
  <2>9. Lined(t)
    <3>1. \A w \in ToSet(t.queue) : t.location[w] = "Cache"
      <4>1. ToSet(t.queue) \subseteq Uuid
        BY <2>2, ElementOfSeq, LenProperties DEF ToSet, BinState
      <4> QED
        BY <2>3, <2>4, <2>7, <4>1 DEF Lined
    <3>2. ASSUME ~Toggles
          PROVE  t.caching /\ \A w \in Uuid : t.location[w] = "Cache" => w \in ToSet(t.queue)
      BY <2>2, <2>3, <2>4, <2>5, <2>7, <3>2 DEF Lined
    <3> QED
      BY <2>2, <2>4, <2>5, <3>1, <3>2 DEF Lined
  <2>10. CleanBut(t, x)
    BY <2>2, <2>3, <2>7 DEF CleanBut
  <2>11. Moved(s, t)
    BY <2>1, <2>2, <2>6, <2>7 DEF Moved
  <2> QED
    BY <2>8, <2>9, <2>10, <2>11 DEF Neat, t
<1> QED
  BY <1>3, <1>4, <1>5

LEMMA CheckCacheSizeNeat ==
  ASSUME NEW s, NEW x, Neat(s, x)
  PROVE  Neat(CheckCacheSize(s), x) /\ Moved(s, CheckCacheSize(s))
<1> DEFINE V == {t \in BinState : Neat(t, x) /\ Moved(s, t)}
<1>1. s \in V /\ s.queue \in Seq(Uuid)
  BY DEF Neat, Placed, Moved, BinState
<1>2. ASSUME NEW t \in V PROVE EvictBack(t) \in V
  <2>1. Neat(EvictBack(t), x) /\ Moved(t, EvictBack(t)) /\ Moved(s, t)
    BY EvictBackNeat
  <2>2. Moved(s, EvictBack(t))
    BY <2>1, MovedTwice
  <2>3. EvictBack(t) \in BinState
    BY <2>1 DEF Neat, Placed
  <2> QED
    BY <2>1, <2>2, <2>3
<1> HIDE DEF V
<1>3. CheckCacheSize(s) \in V
  BY <1>1, <1>2, CheckCacheSizeTurns
<1> QED
  BY <1>3 DEF V

(* The fields after the queue has changed.                                 *)
LEMMA QueueFields ==
  ASSUME NEW s \in BinState, NEW q \in Seq(Uuid), NEW t, t = [s EXCEPT !.queue = q]
  PROVE  /\ t \in BinState /\ t.queue = q
         /\ t.object = s.object /\ t.dirty = s.dirty /\ t.location = s.location
         /\ t.position = s.position /\ t.caching = s.caching /\ t.limit = s.limit
         /\ t.input = s.input /\ t.scratch = s.scratch /\ t.cursor = s.cursor
         /\ t.fault = s.fault
BY DEF BinState

Queued(s, u) == IF s.caching THEN <<u>> \o s.queue ELSE s.queue

LEMMA InFrontFields ==
  ASSUME NEW s \in BinState, NEW u \in Uuid, NEW t, t = InFront(s, u)
  PROVE  /\ t \in BinState /\ t.queue = Queued(s, u)
         /\ t.object = s.object /\ t.dirty = s.dirty /\ t.location = s.location
         /\ t.position = s.position /\ t.caching = s.caching /\ t.limit = s.limit
         /\ t.input = s.input /\ t.scratch = s.scratch /\ t.cursor = s.cursor
         /\ t.fault = s.fault
<1>1. s.queue \in Seq(Uuid)
  BY DEF BinState
<1>2. CASE s.caching
  <2> DEFINE q == <<u>> \o s.queue
  <2>1. q \in Seq(Uuid)
    BY <1>1, InFrontOf
  <2>2. t = [s EXCEPT !.queue = q] /\ Queued(s, u) = q
    BY <1>2 DEF InFront, Queued
  <2> HIDE DEF q
  <2> QED
    BY <2>1, <2>2, QueueFields
<1>3. CASE ~s.caching
  BY <1>3 DEF InFront, Queued
<1> QED
  BY <1>2, <1>3

LEMMA OutOfQueueFields ==
  ASSUME NEW s \in BinState, NEW u \in Uuid, NEW t, t = OutOfQueue(s, u)
  PROVE  /\ t \in BinState
         /\ t.queue = IF s.caching THEN Without(s.queue, u) ELSE s.queue
         /\ t.object = s.object /\ t.dirty = s.dirty /\ t.location = s.location
         /\ t.position = s.position /\ t.caching = s.caching /\ t.limit = s.limit
         /\ t.input = s.input /\ t.scratch = s.scratch /\ t.cursor = s.cursor
         /\ t.fault = s.fault
<1>1. s.queue \in Seq(Uuid)
  BY DEF BinState
<1>2. CASE s.caching
  <2> DEFINE q == Without(s.queue, u)
  <2>1. q \in Seq(Uuid)
    BY <1>1, WithoutResult
  <2>2. t = [s EXCEPT !.queue = q]
    BY <1>2 DEF OutOfQueue
  <2> HIDE DEF q
  <2>3. /\ t \in BinState /\ t.queue = q
        /\ t.object = s.object /\ t.dirty = s.dirty /\ t.location = s.location
        /\ t.position = s.position /\ t.caching = s.caching /\ t.limit = s.limit
        /\ t.input = s.input /\ t.scratch = s.scratch /\ t.cursor = s.cursor
        /\ t.fault = s.fault
    BY <2>1, <2>2, QueueFields
  <2> QED
    BY <1>2, <2>3 DEF q
<1>3. CASE ~s.caching
  BY <1>3 DEF OutOfQueue
<1> QED
  BY <1>2, <1>3

(* An object is put in its place.                                          *)
PlaceIn(s, u, c, d, l) ==
  [s EXCEPT !.object[u] = c, !.dirty[u] = d, !.location[u] = l]

SameFiles(s, t) ==
  /\ t.position = s.position /\ t.caching = s.caching /\ t.limit = s.limit
  /\ t.input = s.input /\ t.scratch = s.scratch /\ t.fault = s.fault

IsPlacedIn(s, t, u, c, d, l) ==
  /\ t \in BinState /\ SameFiles(s, t)
  /\ t.object = [s.object EXCEPT ![u] = c]
  /\ t.dirty = [s.dirty EXCEPT ![u] = d]
  /\ t.location = [s.location EXCEPT ![u] = l]

LEMMA PlaceFields ==
  ASSUME NEW s \in BinState, NEW u \in Uuid, NEW c \in Content \cup {Null},
         NEW d \in BOOLEAN, NEW l \in {"none", "Input", "Cache", "Scratch"},
         NEW t, t = PlaceIn(s, u, c, d, l)
  PROVE  IsPlacedIn(s, t, u, c, d, l) /\ t.queue = s.queue /\ t.cursor = s.cursor
<1> DEFINE ob == [s.object EXCEPT ![u] = c]
           di == [s.dirty EXCEPT ![u] = d]
           lo == [s.location EXCEPT ![u] = l]
<1>1. /\ s.object \in [Uuid -> Content \cup {Null}]
      /\ s.location \in [Uuid -> {"none", "Input", "Cache", "Scratch"}]
      /\ s.dirty \in [Uuid -> BOOLEAN]
  BY DEF BinState
<1>2. /\ ob \in [Uuid -> Content \cup {Null}]
      /\ lo \in [Uuid -> {"none", "Input", "Cache", "Scratch"}]
      /\ di \in [Uuid -> BOOLEAN]
  BY <1>1
<1>3. t = [s EXCEPT !.object = ob, !.dirty = di, !.location = lo]
  <2>1. DOMAIN s = {"location", "object", "dirty", "position", "queue", "caching",
                    "limit", "input", "scratch", "cursor", "fault"}
    BY DEF BinState
  <2> QED
    BY <2>1 DEF PlaceIn
<1> HIDE DEF ob, di, lo
<1>4. /\ t \in BinState
      /\ t.object = ob /\ t.dirty = di /\ t.location = lo
      /\ t.queue = s.queue
      /\ t.position = s.position /\ t.caching = s.caching /\ t.limit = s.limit
      /\ t.input = s.input /\ t.scratch = s.scratch /\ t.cursor = s.cursor
      /\ t.fault = s.fault
  BY <1>2, <1>3 DEF BinState
<1> QED
  BY <1>4 DEF ob, di, lo, IsPlacedIn, SameFiles

(* An object is brought into memory, and to the front of the queue; x is   *)
(* the object itself if it is not yet marked dirty though it should be.    *)
LEMMA BroughtIn ==
  ASSUME NEW s, Neat(s, Null), s.fault = "none", NEW u \in Uuid, s.location[u] # "Cache",
         NEW c \in Content \cup {Null}, NEW d \in BOOLEAN, NEW x,
         x = Null \/ x = u,
         x = u \/ c = Null \/ d \/ c = s.input[u],
         NEW t, t.cursor \in 1 .. Len(t.scratch) + 1, t.queue = Queued(s, u),
         IsPlacedIn(s, t, u, c, d, "Cache")
  PROVE  /\ Neat(t, x)
         /\ s.location[u] # "none" => Moved(s, t)
<1>0. /\ t \in BinState
      /\ t.object = [s.object EXCEPT ![u] = c]
      /\ t.dirty = [s.dirty EXCEPT ![u] = d]
      /\ t.location = [s.location EXCEPT ![u] = "Cache"]
      /\ t.position = s.position /\ t.caching = s.caching /\ t.limit = s.limit
      /\ t.input = s.input /\ t.scratch = s.scratch /\ t.fault = s.fault
  BY DEF IsPlacedIn, SameFiles
<1>1. /\ s \in BinState /\ Lined(s) /\ CleanBut(s, Null)
      /\ \A w \in Uuid : s.location[w] = "Scratch" => s.position[w] \in DOMAIN s.scratch
      /\ \A w \in Uuid : s.object[w] # Null => s.location[w] = "Cache"
  BY DEF Neat, Placed
<1>2. /\ s.object \in [Uuid -> Content \cup {Null}]
      /\ s.location \in [Uuid -> {"none", "Input", "Cache", "Scratch"}]
      /\ s.dirty \in [Uuid -> BOOLEAN] /\ s.queue \in Seq(Uuid)
  BY <1>1 DEF BinState
<1>3. Null \notin Uuid
  BY ConstantsAssumption
<1>4. /\ t.location[u] = "Cache" /\ t.object[u] = c /\ t.dirty[u] = d
      /\ \A w \in Uuid : w # u => /\ t.location[w] = s.location[w]
                                 /\ t.object[w] = s.object[w]
                                 /\ t.dirty[w] = s.dirty[w]
  BY <1>0, <1>2
<1>5. Placed(t)
  BY <1>0, <1>1, <1>4 DEF Placed
<1>6. u \notin ToSet(s.queue)
  BY <1>1 DEF Lined
<1>7. ToSet(s.queue) \subseteq Uuid
  BY <1>2, ElementOfSeq, LenProperties DEF ToSet
<1>8. Lined(t)
  <2>1. CASE s.caching
    <3>1. ToSet(t.queue) = ToSet(s.queue) \cup {u} /\ IsInjective(t.queue)
      <4>1. t.queue = <<u>> \o s.queue
        BY <2>1 DEF Queued
      <4> QED
        BY <1>1, <1>2, <1>6, <4>1, InFrontOf DEF Lined
    <3> QED
      BY <1>0, <1>1, <1>4, <1>7, <2>1, <3>1 DEF Lined
  <2>2. CASE ~s.caching
    <3>1. t.queue = s.queue
      BY <2>2 DEF Queued
    <3> QED
      BY <1>0, <1>1, <1>4, <1>6, <1>7, <2>2, <3>1 DEF Lined
  <2> QED
    BY <2>1, <2>2
<1>9. CleanBut(t, x)
  BY <1>0, <1>1, <1>3, <1>4 DEF CleanBut
<1>10. s.location[u] # "none" => Moved(s, t)
  BY <1>0, <1>4 DEF Moved
<1> QED
  BY <1>5, <1>8, <1>9, <1>10 DEF Neat

LEMMA TrimmedNeat ==
  ASSUME NEW s, NEW x, Neat(s, x)
  PROVE  Neat(Trimmed(s), x) /\ Moved(s, Trimmed(s))
<1>1. CASE s.caching
  BY <1>1, CheckCacheSizeNeat DEF Trimmed
<1>2. CASE ~s.caching
  BY <1>2 DEF Trimmed, Moved
<1> QED
  BY <1>1, <1>2

LEMMA FromFileNeat ==
  ASSUME NEW s, Neat(s, Null), s.fault = "none", NEW u \in Uuid,
         s.location[u] \notin {"Cache", "none"}, NEW c \in Content \cup {Null}, NEW x,
         (x = Null /\ c = s.input[u]) \/ x = u
  PROVE  Neat(FromFile(s, u, c), x) /\ Moved(s, FromFile(s, u, c))
<1> DEFINE d == FALSE
           p == PlaceIn(s, u, c, d, "Cache")
           t == InFront(p, u)
<1>1. s \in BinState /\ s.cursor \in 1 .. Len(s.scratch) + 1
  BY DEF Neat, Placed
<1>2. FromFile(s, u, c) = Trimmed(t)
  BY DEF FromFile, PlaceIn
<1>d. d \in BOOLEAN
  OBVIOUS
<1> HIDE DEF d, p
<1>3. IsPlacedIn(s, p, u, c, d, "Cache") /\ p.queue = s.queue /\ p.cursor = s.cursor
  BY <1>1, <1>d, PlaceFields DEF p
<1>p. p \in BinState /\ SameFiles(s, p)
  BY <1>3 DEF IsPlacedIn
<1>4. /\ t \in BinState /\ t.queue = Queued(p, u)
      /\ t.object = p.object /\ t.dirty = p.dirty /\ t.location = p.location
      /\ t.position = p.position /\ t.caching = p.caching /\ t.limit = p.limit
      /\ t.input = p.input /\ t.scratch = p.scratch /\ t.cursor = p.cursor
      /\ t.fault = p.fault
  BY <1>p, InFrontFields
<1> HIDE DEF t
<1>5. Queued(p, u) = Queued(s, u)
  BY <1>3, <1>p DEF Queued, SameFiles
<1>6. Neat(t, x) /\ Moved(s, t)
  <2>1. IsPlacedIn(s, t, u, c, d, "Cache")
    BY <1>3, <1>4 DEF IsPlacedIn, SameFiles
  <2>2. t.cursor \in 1 .. Len(t.scratch) + 1 /\ t.queue = Queued(s, u)
    BY <1>1, <1>3, <1>4, <1>5, <1>p DEF SameFiles
  <2>3. s.location[u] # "Cache" /\ s.location[u] # "none"
        /\ (x = Null \/ x = u) /\ (x = u \/ c = Null \/ d \/ c = s.input[u])
    OBVIOUS
  <2> QED
    BY <1>d, <2>1, <2>2, <2>3, BroughtIn
<1>7. Neat(Trimmed(t), x) /\ Moved(t, Trimmed(t))
  BY <1>6, TrimmedNeat
<1>8. Moved(s, Trimmed(t))
  BY <1>6, <1>7, MovedTwice
<1> QED
  BY <1>2, <1>7, <1>8

LEMMA CursorFields ==
  ASSUME NEW s \in BinState, NEW p \in Nat, NEW t, t = [s EXCEPT !.cursor = p]
  PROVE  /\ t \in BinState /\ t.cursor = p /\ t.queue = s.queue
         /\ t.object = s.object /\ t.dirty = s.dirty /\ t.location = s.location
         /\ t.position = s.position /\ t.caching = s.caching /\ t.limit = s.limit
         /\ t.input = s.input /\ t.scratch = s.scratch
         /\ t.fault = s.fault
BY DEF BinState

Dirtied(s, u) == [s EXCEPT !.dirty[u] = TRUE]

LEMMA DirtyFields ==
  ASSUME NEW s \in BinState, NEW u \in Uuid, NEW t, t = Dirtied(s, u)
  PROVE  /\ t \in BinState /\ t.dirty = [s.dirty EXCEPT ![u] = TRUE]
         /\ t.cursor = s.cursor /\ t.queue = s.queue
         /\ t.object = s.object /\ t.location = s.location
         /\ t.position = s.position /\ t.caching = s.caching /\ t.limit = s.limit
         /\ t.input = s.input /\ t.scratch = s.scratch
         /\ t.fault = s.fault
<1> DEFINE di == [s.dirty EXCEPT ![u] = TRUE]
<1>1. di \in [Uuid -> BOOLEAN]
  BY DEF BinState
<1>2. t = [s EXCEPT !.dirty = di]
  BY DEF BinState, Dirtied
<1> HIDE DEF di
<1>3. /\ t \in BinState /\ t.dirty = di
      /\ t.cursor = s.cursor /\ t.queue = s.queue
      /\ t.object = s.object /\ t.location = s.location
      /\ t.position = s.position /\ t.caching = s.caching /\ t.limit = s.limit
      /\ t.input = s.input /\ t.scratch = s.scratch
      /\ t.fault = s.fault
  BY <1>1, <1>2 DEF BinState
<1> QED
  BY <1>3 DEF di

LEMMA MarkDirtyNeat ==
  ASSUME NEW s, NEW u \in Uuid, Neat(s, u)
  PROVE  Neat(MarkDirty(s, u), Null) /\ Moved(s, MarkDirty(s, u))
<1> DEFINE t == MarkDirty(s, u)
<1>1. CASE s.object[u] = Null
  <2>1. t = Fail(s, "crash")
    BY <1>1 DEF MarkDirty
  <2>2. Neat(t, u) /\ Moved(s, t) /\ t.fault # "none"
    BY <2>1, FailIsNeat
  <2> HIDE DEF t
  <2>3. Neat(t, Null)
    BY <2>2 DEF Neat
  <2> QED
    BY <2>2, <2>3 DEF t
<1>2. CASE s.object[u] # Null
  <2>1. t = Dirtied(s, u) /\ s \in BinState
    BY <1>2 DEF MarkDirty, Dirtied, Neat, Placed
  <2> HIDE DEF t
  <2>2. /\ t \in BinState /\ t.dirty = [s.dirty EXCEPT ![u] = TRUE]
        /\ t.cursor = s.cursor /\ t.queue = s.queue
        /\ t.object = s.object /\ t.location = s.location
        /\ t.position = s.position /\ t.caching = s.caching /\ t.limit = s.limit
        /\ t.input = s.input /\ t.scratch = s.scratch
        /\ t.fault = s.fault
    BY <2>1, DirtyFields
  <2>3. Placed(t) /\ Moved(s, t) /\ (s.fault = "none" => Lined(t))
    BY <2>2 DEF Neat, Placed, Moved, Lined
  <2>4. s.fault = "none" => CleanBut(t, Null)
    <3>1. s.dirty \in [Uuid -> BOOLEAN]
      BY <2>1 DEF BinState
    <3> QED
      BY <2>2, <3>1 DEF Neat, CleanBut
  <2> QED
    BY <2>2, <2>3, <2>4 DEF Neat, t
<1> QED
  BY <1>1, <1>2

(* Fetching an object that is in memory moves it to the front.             *)
LEMMA RequeuedNeat ==
  ASSUME NEW s, NEW x, Neat(s, x), s.fault = "none", NEW u \in Uuid, s.location[u] = "Cache",
         NEW t, t = InFront(OutOfQueue(s, u), u)
  PROVE  /\ Neat(t, x) /\ Moved(s, t)
         /\ t.object = s.object /\ t.location = s.location /\ t.input = s.input
         /\ t.fault = "none"
<1> DEFINE p == OutOfQueue(s, u)
<1>1. s \in BinState /\ Lined(s) /\ CleanBut(s, x) /\ Placed(s)
  BY DEF Neat, Placed
<1>2. /\ p \in BinState
      /\ p.queue = IF s.caching THEN Without(s.queue, u) ELSE s.queue
      /\ p.object = s.object /\ p.dirty = s.dirty /\ p.location = s.location
      /\ p.position = s.position /\ p.caching = s.caching /\ p.limit = s.limit
      /\ p.input = s.input /\ p.scratch = s.scratch /\ p.cursor = s.cursor
      /\ p.fault = s.fault
  BY <1>1, OutOfQueueFields
<1>3. t = InFront(p, u)
  OBVIOUS
<1> HIDE DEF p
<1>4. /\ t \in BinState /\ t.queue = Queued(p, u)
      /\ t.object = p.object /\ t.dirty = p.dirty /\ t.location = p.location
      /\ t.position = p.position /\ t.caching = p.caching /\ t.limit = p.limit
      /\ t.input = p.input /\ t.scratch = p.scratch /\ t.cursor = p.cursor
      /\ t.fault = p.fault
  BY <1>2, <1>3, InFrontFields
<1>5. Placed(t) /\ CleanBut(t, x) /\ Moved(s, t)
  BY <1>1, <1>2, <1>4 DEF Placed, CleanBut, Moved
<1>6. IsInjective(t.queue) /\ ToSet(t.queue) \subseteq ToSet(s.queue) \cup {u}
      /\ (s.caching => ToSet(s.queue) \subseteq ToSet(t.queue))
  <2>1. s.queue \in Seq(Uuid) /\ IsInjective(s.queue)
    BY <1>1 DEF BinState, Lined
  <2>2. CASE s.caching
    <3> DEFINE q == Without(s.queue, u)
    <3>1. q \in Seq(Uuid) /\ ToSet(q) = ToSet(s.queue) \ {u} /\ IsInjective(q)
      BY <2>1, WithoutResult
    <3>2. t.queue = <<u>> \o q
      BY <1>2, <1>4, <2>2 DEF Queued
    <3> HIDE DEF q
    <3>3. ToSet(t.queue) = ToSet(q) \cup {u} /\ IsInjective(t.queue)
      BY <3>1, <3>2, InFrontOf
    <3> QED
      BY <3>1, <3>3
  <2>3. CASE ~s.caching
    <3>1. t.queue = s.queue
      BY <1>2, <1>4, <2>3 DEF Queued
    <3> QED
      BY <2>1, <2>3, <3>1
  <2> QED
    BY <2>2, <2>3
<1>7. ~t.caching => t.queue = << >>
  BY <1>1, <1>2, <1>4 DEF Queued, Lined
<1>8. Lined(t)
  BY <1>1, <1>2, <1>4, <1>6, <1>7 DEF Lined
<1> QED
  BY <1>2, <1>4, <1>5, <1>8 DEF Neat

LEMMA FetchObjectNeat ==
  ASSUME NEW s, Neat(s, Null), s.fault = "none", NEW u \in Uuid
  PROVE  Neat(FetchObject(s, u), Null) /\ Moved(s, FetchObject(s, u))
<1> DEFINE t == FetchObject(s, u)
<1>1. s \in BinState /\ Placed(s)
  BY DEF Neat, Placed
<1>2. /\ s.input \in [Uuid -> Content \cup {Null}]
      /\ s.location[u] \in {"none", "Input", "Cache", "Scratch"}
      /\ s.scratch \in Seq(Content) /\ s.position[u] \in Nat
  BY <1>1 DEF BinState
<1>3. CASE s.location[u] = "none"
  BY <1>3 DEF FetchObject, Moved
<1>4. CASE s.location[u] = "Cache"
  <2>1. t = InFront(OutOfQueue(s, u), u)
    BY <1>4 DEF FetchObject
  <2> QED
    BY <1>4, <2>1, RequeuedNeat
<1>5. CASE s.location[u] = "Input"
  <2>1. t = FromFile(s, u, s.input[u])
    BY <1>5 DEF FetchObject
  <2>2. s.input[u] \in Content \cup {Null} /\ s.location[u] \notin {"Cache", "none"}
    BY <1>2, <1>5
  <2> QED
    BY <2>1, <2>2, FromFileNeat
<1>6. CASE s.location[u] = "Scratch"
  <2> DEFINE p == s.position[u]
             r == [s EXCEPT !.cursor = p + 1]
             m == FromFile(r, u, s.scratch[p])
  <2>1. t = MarkDirty(m, u)
    BY <1>6 DEF FetchObject, FromScratch
  <2>2. p \in 1 .. Len(s.scratch) /\ s.scratch[p] \in Content /\ Len(s.scratch) \in Nat
    BY <1>1, <1>2, <1>6, LenProperties, ElementOfSeq DEF Placed
  <2>3. p + 1 \in Nat /\ p + 1 \in 1 .. Len(s.scratch) + 1
    BY <2>2
  <2> HIDE DEF p
  <2>4. /\ r \in BinState /\ r.cursor = p + 1 /\ r.queue = s.queue
        /\ r.object = s.object /\ r.dirty = s.dirty /\ r.location = s.location
        /\ r.position = s.position /\ r.caching = s.caching /\ r.limit = s.limit
        /\ r.input = s.input /\ r.scratch = s.scratch
        /\ r.fault = s.fault
    BY <1>1, <2>3, CursorFields
  <2> HIDE DEF r
  <2>5. Neat(r, Null) /\ Moved(s, r)
    BY <2>3, <2>4 DEF Neat, Placed, Lined, CleanBut, Moved
  <2>6. r.location[u] \notin {"Cache", "none"} /\ r.fault = "none"
    BY <1>6, <2>4
  <2>7. Neat(m, u) /\ Moved(r, m)
    BY <2>2, <2>5, <2>6, FromFileNeat
  <2> HIDE DEF m
  <2>8. Neat(t, Null) /\ Moved(m, t)
    BY <2>1, <2>7, MarkDirtyNeat
  <2> HIDE DEF t
  <2>9. Moved(s, m)
    BY <2>5, <2>7, MovedTwice
  <2>10. Moved(s, t)
    BY <2>8, <2>9, MovedTwice
  <2> QED
    BY <2>8, <2>10 DEF t
<1> QED
  BY <1>2, <1>3, <1>4, <1>5, <1>6

--------------------------------------------------------------------------------
(* What changes to objects keep.                                           *)

(* An object in memory gets new content.                                   *)
Rewritten(s, u, c) == [s EXCEPT !.object[u] = c, !.dirty[u] = TRUE]

LEMMA RewrittenFields ==
  ASSUME NEW s \in BinState, NEW u \in Uuid, NEW c \in Content \cup {Null},
         NEW t, t = Rewritten(s, u, c)
  PROVE  /\ t \in BinState /\ SameFiles(s, t)
         /\ t.object = [s.object EXCEPT ![u] = c]
         /\ t.dirty = [s.dirty EXCEPT ![u] = TRUE]
         /\ t.location = s.location /\ t.queue = s.queue /\ t.cursor = s.cursor
<1> DEFINE ob == [s.object EXCEPT ![u] = c]
           di == [s.dirty EXCEPT ![u] = TRUE]
<1>1. s.object \in [Uuid -> Content \cup {Null}] /\ s.dirty \in [Uuid -> BOOLEAN]
  BY DEF BinState
<1>2. ob \in [Uuid -> Content \cup {Null}] /\ di \in [Uuid -> BOOLEAN]
  BY <1>1
<1>3. t = [s EXCEPT !.object = ob, !.dirty = di]
  <2>1. DOMAIN s = {"location", "object", "dirty", "position", "queue", "caching",
                    "limit", "input", "scratch", "cursor", "fault"}
    BY DEF BinState
  <2> QED
    BY <2>1 DEF Rewritten
<1> HIDE DEF ob, di
<1>4. /\ t \in BinState
      /\ t.object = ob /\ t.dirty = di /\ t.location = s.location
      /\ t.queue = s.queue
      /\ t.position = s.position /\ t.caching = s.caching /\ t.limit = s.limit
      /\ t.input = s.input /\ t.scratch = s.scratch /\ t.cursor = s.cursor
      /\ t.fault = s.fault
  BY <1>2, <1>3 DEF BinState
<1> QED
  BY <1>4 DEF ob, di, SameFiles

LEMMA ModifyNeat ==
  ASSUME NEW s, Neat(s, Null), NEW u \in Uuid, NEW how \in {"assert", "crash", "freed"},
         NEW c, s.object[u] \in Content => c \in Content
  PROVE  /\ Neat(Modify(s, u, c, how), Null)
         /\ Moved(s, Modify(s, u, c, how))
         /\ Modify(s, u, c, how).fault = "none" => s.object[u] # Null
<1> DEFINE t == Modify(s, u, c, how)
<1>1. CASE s.fault # "none"
  <2>1. t = s
    BY <1>1 DEF Modify
  <2> QED
    BY <1>1, <2>1 DEF Moved
<1>2. CASE s.fault = "none" /\ s.object[u] = Null
  <2>1. t = Fail(s, how)
    BY <1>2 DEF Modify
  <2> QED
    BY <2>1, FailIsNeat
<1>3. CASE s.fault = "none" /\ s.object[u] # Null
  <2>1. t = Rewritten(s, u, c) /\ s \in BinState /\ Placed(s) /\ Lined(s) /\ CleanBut(s, Null)
    BY <1>3 DEF Modify, Rewritten, Neat, Placed
  <2>2. s.object[u] \in Content
    BY <1>3, <2>1 DEF BinState
  <2> HIDE DEF t
  <2>3. /\ t \in BinState /\ SameFiles(s, t)
        /\ t.object = [s.object EXCEPT ![u] = c]
        /\ t.dirty = [s.dirty EXCEPT ![u] = TRUE]
        /\ t.location = s.location /\ t.queue = s.queue /\ t.cursor = s.cursor
    BY <2>1, <2>2, RewrittenFields
  <2>4. s.object \in [Uuid -> Content \cup {Null}] /\ s.dirty \in [Uuid -> BOOLEAN]
    BY <2>1 DEF BinState
  <2>5. /\ t.dirty[u]
        /\ \A w \in Uuid : w # u => t.object[w] = s.object[w] /\ t.dirty[w] = s.dirty[w]
    BY <2>3, <2>4
  <2>6. Placed(t)
    BY <1>3, <2>1, <2>3, <2>5 DEF Placed, SameFiles
  <2>7. Lined(t) /\ CleanBut(t, Null) /\ Moved(s, t)
    BY <1>3, <2>1, <2>3, <2>5 DEF Lined, CleanBut, Moved, SameFiles
  <2> QED
    BY <1>3, <2>6, <2>7 DEF Neat, t
<1> QED
  BY <1>1, <1>2, <1>3

LEMMA BothEndsAreContent ==
  ASSUME NEW s, NEW u \in Uuid, NEW t, s.object[t] \in Content
  PROVE  Unlinked(s, u, t) \in Content /\ Linked(s, u, t) \in Content
<1>1. PICK o \in Content : o = s.object[t]
  OBVIOUS
<1>2. Unlinked(s, u, t) = [o EXCEPT !.back = o.back \ {u}]
  BY <1>1 DEF Unlinked, Content
<1>3. Linked(s, u, t) = [o EXCEPT !.back = o.back \cup {u}]
  BY <1>1 DEF Linked, Content
<1> QED
  BY <1>2, <1>3 DEF Content

LEMMA PointerUpdateNeat ==
  ASSUME NEW s, Neat(s, Null), NEW u \in Uuid,
         NEW old \in Uuid \cup {Null}, NEW new \in Uuid \cup {Null}
  PROVE  Neat(PointerUpdate(s, u, old, new), Null) /\ Moved(s, PointerUpdate(s, u, old, new))
<1> DEFINE s1 == FetchEnd(s, new)
           s2 == NewEnd(s1, new)
           s3 == FetchEnd(s2, old)
           s4 == UnlinkEnd(s3, u, old)
           s5 == LinkEnd(s4, u, new)
<1>a. \A r, t : Neat(r, Null) /\ t \in Uuid \cup {Null} =>
        Neat(FetchEnd(r, t), Null) /\ Moved(r, FetchEnd(r, t))
  <2> SUFFICES ASSUME NEW r, NEW t \in Uuid \cup {Null}, Neat(r, Null)
               PROVE  Neat(FetchEnd(r, t), Null) /\ Moved(r, FetchEnd(r, t))
    OBVIOUS
  <2>1. CASE t = Null \/ r.fault # "none"
    <3>1. FetchEnd(r, t) = r
      BY <2>1 DEF FetchEnd
    <3> QED
      BY <3>1 DEF Moved
  <2>2. CASE ~(t = Null \/ r.fault # "none")
    <3>1. FetchEnd(r, t) = FetchObject(r, t) /\ t \in Uuid
      BY <2>2 DEF FetchEnd
    <3> QED
      BY <2>2, <3>1, FetchObjectNeat
  <2> QED
    BY <2>1, <2>2
<1>0. PointerUpdate(s, u, old, new) = s5
  BY DEF PointerUpdate
<1>1. Neat(s1, Null) /\ Moved(s, s1)
  BY <1>a
<1> HIDE DEF s1
<1>2. Neat(s2, Null) /\ Moved(s1, s2)
  <2>1. s2 = Fail(s1, "assert") \/ s2 = s1
    BY DEF NewEnd
  <2> QED
    BY <1>1, <2>1, FailIsNeat DEF Moved
<1> HIDE DEF s2
<1>3. Neat(s3, Null) /\ Moved(s2, s3)
  BY <1>2, <1>a
<1> HIDE DEF s3
<1>4. Neat(s4, Null) /\ Moved(s3, s4)
  <2>1. CASE old = Null
    <3>1. s4 = s3
      BY <2>1 DEF UnlinkEnd
    <3> QED
      BY <1>3, <3>1 DEF Moved
  <2>2. CASE old # Null
    <3> DEFINE c == Unlinked(s3, u, old)
    <3>1. s4 = Modify(s3, old, c, "assert") /\ old \in Uuid
      BY <2>2 DEF UnlinkEnd
    <3>2. s3.object[old] \in Content => c \in Content
      BY BothEndsAreContent
    <3> HIDE DEF c
    <3> QED
      BY <1>3, <3>1, <3>2, ModifyNeat
  <2> QED
    BY <2>1, <2>2
<1> HIDE DEF s4
<1>5. Neat(s5, Null) /\ Moved(s4, s5)
  <2>1. CASE new = Null
    <3>1. s5 = s4
      BY <2>1 DEF LinkEnd
    <3> QED
      BY <1>4, <3>1 DEF Moved
  <2>2. CASE new # Null
    <3> DEFINE c == Linked(s4, u, new)
    <3>1. s5 = Modify(s4, new, c, "freed") /\ new \in Uuid
      BY <2>2 DEF LinkEnd
    <3>2. s4.object[new] \in Content => c \in Content
      BY BothEndsAreContent
    <3> HIDE DEF c
    <3> QED
      BY <1>4, <3>1, <3>2, ModifyNeat
  <2> QED
    BY <2>1, <2>2
<1> HIDE DEF s5
<1>6. Moved(s, s2)
  BY <1>1, <1>2, MovedTwice
<1>7. Moved(s, s3)
  BY <1>3, <1>6, MovedTwice
<1>8. Moved(s, s4)
  BY <1>4, <1>7, MovedTwice
<1>9. Moved(s, s5)
  BY <1>5, <1>8, MovedTwice
<1> QED
  BY <1>0, <1>5, <1>9

LEMMA MovePointerNeat ==
  ASSUME NEW s, Neat(s, Null), NEW u \in Uuid, s.object[u] # Null,
         NEW new \in Uuid \cup {Null}
  PROVE  /\ Neat(MovePointer(s, u, new), Null)
         /\ Moved(s, MovePointer(s, u, new))
<1> DEFINE old == s.object[u].ptr
           p == PointerUpdate(s, u, old, new)
           t == MovePointer(s, u, new)
<1>1. s.object[u] \in Content
  BY DEF Neat, Placed, BinState
<1>2. old \in Uuid \cup {Null}
  BY <1>1 DEF Content
<1>3. Neat(p, Null) /\ Moved(s, p)
  <2> HIDE DEF old
  <2> QED
    BY <1>2, PointerUpdateNeat
<1>4. t = SetPointer(p, u, new) \/ t = Fail(p, "freed")
  BY DEF MovePointer
<1> HIDE DEF p, t
<1>5. Neat(t, Null) /\ Moved(p, t)
  <2>1. CASE t = Fail(p, "freed")
    BY <1>3, <2>1, FailIsNeat
  <2>2. CASE t = SetPointer(p, u, new)
    <3> DEFINE c == [p.object[u] EXCEPT !.ptr = new]
    <3>1. t = Modify(p, u, c, "freed")
      BY <2>2 DEF SetPointer
    <3>2. p.object[u] \in Content => c \in Content
      BY DEF Content
    <3> HIDE DEF c
    <3> QED
      BY <1>3, <3>1, <3>2, ModifyNeat
  <2> QED
    BY <1>4, <2>1, <2>2
<1>6. Moved(s, t)
  BY <1>3, <1>5, MovedTwice
<1> QED
  BY <1>5, <1>6 DEF t

(* An object leaves the index and the queue.                               *)
Gone(s, u) == [s EXCEPT !.location[u] = "none", !.object[u] = Null]

LEMMA GoneFields ==
  ASSUME NEW s \in BinState, NEW u \in Uuid, NEW t, t = Gone(s, u)
  PROVE  /\ t \in BinState /\ SameFiles(s, t)
         /\ t.object = [s.object EXCEPT ![u] = Null]
         /\ t.location = [s.location EXCEPT ![u] = "none"]
         /\ t.dirty = s.dirty /\ t.queue = s.queue /\ t.cursor = s.cursor
<1> DEFINE ob == [s.object EXCEPT ![u] = Null]
           lo == [s.location EXCEPT ![u] = "none"]
<1>1. /\ s.object \in [Uuid -> Content \cup {Null}]
      /\ s.location \in [Uuid -> {"none", "Input", "Cache", "Scratch"}]
  BY DEF BinState
<1>2. /\ ob \in [Uuid -> Content \cup {Null}]
      /\ lo \in [Uuid -> {"none", "Input", "Cache", "Scratch"}]
  BY <1>1
<1>3. t = [s EXCEPT !.location = lo, !.object = ob]
  <2>1. DOMAIN s = {"location", "object", "dirty", "position", "queue", "caching",
                    "limit", "input", "scratch", "cursor", "fault"}
    BY DEF BinState
  <2> QED
    BY <2>1 DEF Gone
<1> HIDE DEF ob, lo
<1>4. /\ t \in BinState
      /\ t.object = ob /\ t.dirty = s.dirty /\ t.location = lo
      /\ t.queue = s.queue
      /\ t.position = s.position /\ t.caching = s.caching /\ t.limit = s.limit
      /\ t.input = s.input /\ t.scratch = s.scratch /\ t.cursor = s.cursor
      /\ t.fault = s.fault
  BY <1>2, <1>3 DEF BinState
<1> QED
  BY <1>4 DEF ob, lo, SameFiles

LEMMA TakenOut ==
  ASSUME NEW s, Neat(s, Null), s.fault = "none", NEW u \in Uuid,
         NEW t, t = OutOfQueue(Gone(s, u), u)
  PROVE  /\ Neat(t, Null)
         /\ t.fault = "none" /\ t.input = s.input /\ t.limit = s.limit /\ t.caching = s.caching
         /\ t.location[u] = "none"
         /\ \A w \in Uuid : w # u => t.location[w] = s.location[w] /\ t.object[w] = s.object[w]
<1> DEFINE p == Gone(s, u)
<1>1. s \in BinState /\ Lined(s) /\ CleanBut(s, Null) /\ Placed(s)
  BY DEF Neat, Placed
<1>2. /\ p \in BinState /\ SameFiles(s, p)
      /\ p.object = [s.object EXCEPT ![u] = Null]
      /\ p.location = [s.location EXCEPT ![u] = "none"]
      /\ p.dirty = s.dirty /\ p.queue = s.queue /\ p.cursor = s.cursor
  BY <1>1, GoneFields
<1>3. t = OutOfQueue(p, u)
  OBVIOUS
<1> HIDE DEF p
<1>4. /\ t \in BinState
      /\ t.queue = IF p.caching THEN Without(p.queue, u) ELSE p.queue
      /\ t.object = p.object /\ t.dirty = p.dirty /\ t.location = p.location
      /\ t.position = p.position /\ t.caching = p.caching /\ t.limit = p.limit
      /\ t.input = p.input /\ t.scratch = p.scratch /\ t.cursor = p.cursor
      /\ t.fault = p.fault
  BY <1>2, <1>3, OutOfQueueFields
<1>5. /\ s.object \in [Uuid -> Content \cup {Null}]
      /\ s.location \in [Uuid -> {"none", "Input", "Cache", "Scratch"}]
      /\ s.queue \in Seq(Uuid)
  BY <1>1 DEF BinState
<1>6. /\ t.location[u] = "none" /\ t.object[u] = Null
      /\ \A w \in Uuid : w # u => t.location[w] = s.location[w] /\ t.object[w] = s.object[w]
  BY <1>2, <1>4, <1>5
<1>7. /\ t.fault = "none" /\ t.input = s.input /\ t.limit = s.limit /\ t.caching = s.caching
      /\ t.cursor = s.cursor /\ t.scratch = s.scratch /\ t.position = s.position
      /\ t.dirty = s.dirty
  BY <1>2, <1>4 DEF SameFiles
<1>8. Placed(t) /\ CleanBut(t, Null)
  BY <1>1, <1>4, <1>6, <1>7 DEF Placed, CleanBut
<1>9. Lined(t)
  <2>1. ToSet(s.queue) \subseteq Uuid
    BY <1>5, ElementOfSeq, LenProperties DEF ToSet
  <2>2. CASE s.caching
    <3>1. ToSet(t.queue) = ToSet(s.queue) \ {u} /\ IsInjective(t.queue)
      <4>1. t.queue = Without(s.queue, u)
        BY <1>2, <1>4, <2>2 DEF SameFiles
      <4> QED
        BY <1>1, <1>5, <4>1, WithoutResult DEF Lined
    <3> QED
      BY <1>1, <1>6, <1>7, <2>1, <2>2, <3>1 DEF Lined
  <2>3. CASE ~s.caching
    <3>1. t.queue = << >> /\ s.queue = << >> /\ Toggles
      BY <1>1, <1>2, <1>4, <2>3 DEF SameFiles, Lined
    <3>2. ToSet(t.queue) = {}
      BY <3>1 DEF ToSet
    <3> QED
      BY <1>1, <1>7, <2>3, <3>1, <3>2 DEF Lined
  <2> QED
    BY <2>2, <2>3
<1> QED
  BY <1>6, <1>7, <1>8, <1>9 DEF Neat

LEMMA TakenOutAfterFault ==
  ASSUME NEW s, Neat(s, Null), s.fault # "none", NEW u \in Uuid,
         NEW t, t = OutOfQueue(Gone(s, u), u)
  PROVE  /\ Neat(t, Null) /\ t.fault # "none"
         /\ t.input = s.input /\ t.limit = s.limit /\ t.caching = s.caching
<1> DEFINE p == Gone(s, u)
<1>1. s \in BinState /\ Placed(s)
  BY DEF Neat, Placed
<1>2. /\ p \in BinState /\ SameFiles(s, p)
      /\ p.object = [s.object EXCEPT ![u] = Null]
      /\ p.location = [s.location EXCEPT ![u] = "none"]
      /\ p.dirty = s.dirty /\ p.queue = s.queue /\ p.cursor = s.cursor
  BY <1>1, GoneFields
<1>3. t = OutOfQueue(p, u)
  OBVIOUS
<1> HIDE DEF p
<1>4. /\ t \in BinState
      /\ t.object = p.object /\ t.dirty = p.dirty /\ t.location = p.location
      /\ t.position = p.position /\ t.caching = p.caching /\ t.limit = p.limit
      /\ t.input = p.input /\ t.scratch = p.scratch /\ t.cursor = p.cursor
      /\ t.fault = p.fault
  BY <1>2, <1>3, OutOfQueueFields
<1>5. /\ s.object \in [Uuid -> Content \cup {Null}]
      /\ s.location \in [Uuid -> {"none", "Input", "Cache", "Scratch"}]
  BY <1>1 DEF BinState
<1>6. /\ t.location[u] = "none" /\ t.object[u] = Null
      /\ \A w \in Uuid : w # u => t.location[w] = s.location[w] /\ t.object[w] = s.object[w]
  BY <1>2, <1>4, <1>5
<1>7. /\ t.fault = s.fault /\ t.input = s.input /\ t.limit = s.limit /\ t.caching = s.caching
      /\ t.cursor = s.cursor /\ t.scratch = s.scratch /\ t.position = s.position
  BY <1>2, <1>4 DEF SameFiles
<1>8. Placed(t)
  BY <1>1, <1>4, <1>6, <1>7 DEF Placed
<1> QED
  BY <1>7, <1>8 DEF Neat

Deleted == [uuid : Uuid, object : Content \cup {Null}, dirty : BOOLEAN]

(* An object as it was put aside may come back into memory.                *)
MayReturn(d, input) == d.object = Null \/ d.dirty \/ d.object = input[d.uuid]

LEMMA PutBackNeat ==
  ASSUME NEW s, Neat(s, Null), s.fault = "none", NEW d \in Deleted,
         s.location[d.uuid] = "none", MayReturn(d, s.input),
         NEW t, t = PutBack(s, d)
  PROVE  /\ Neat(t, Null)
         /\ t.fault = "none" /\ t.input = s.input /\ t.limit = s.limit /\ t.caching = s.caching
         /\ t.location[d.uuid] = "Cache" /\ t.object[d.uuid] = d.object
         /\ \A w \in Uuid : w # d.uuid => /\ t.location[w] = s.location[w]
                                         /\ t.object[w] = s.object[w]
<1> DEFINE u == d.uuid
           b == d.dirty
           c == d.object
           p == PlaceIn(s, u, c, b, "Cache")
<1>0. s \in BinState /\ s.cursor \in 1 .. Len(s.scratch) + 1
  BY DEF Neat, Placed
<1>1. u \in Uuid /\ c \in Content \cup {Null} /\ b \in BOOLEAN
  BY DEF Deleted
<1>2. t = InFront(p, u)
  BY DEF PutBack, PlaceIn
<1>m. s.location[u] = "none" /\ (c = Null \/ b \/ c = s.input[u])
  BY DEF MayReturn
<1>g. /\ t.location[u] = "Cache" <=> t.location[d.uuid] = "Cache"
      /\ t.object[u] = c <=> t.object[d.uuid] = d.object
  OBVIOUS
<1> HIDE DEF u, c, b
<1>q. p = PlaceIn(s, u, c, b, "Cache")
  OBVIOUS
<1>r. "Cache" \in {"none", "Input", "Cache", "Scratch"}
  OBVIOUS
<1> HIDE DEF p
<1>3. IsPlacedIn(s, p, u, c, b, "Cache") /\ p.queue = s.queue /\ p.cursor = s.cursor
  BY <1>0, <1>1, <1>q, <1>r, PlaceFields
<1>p. p \in BinState /\ SameFiles(s, p)
  BY <1>3 DEF IsPlacedIn
<1>4. /\ t \in BinState /\ t.queue = Queued(p, u)
      /\ t.object = p.object /\ t.dirty = p.dirty /\ t.location = p.location
      /\ t.position = p.position /\ t.caching = p.caching /\ t.limit = p.limit
      /\ t.input = p.input /\ t.scratch = p.scratch /\ t.cursor = p.cursor
      /\ t.fault = p.fault
  BY <1>1, <1>2, <1>p, InFrontFields
<1>5. Queued(p, u) = Queued(s, u)
  BY <1>3, <1>p DEF Queued, SameFiles
<1>6. Neat(t, Null)
  <2>1. IsPlacedIn(s, t, u, c, b, "Cache")
    BY <1>3, <1>4 DEF IsPlacedIn, SameFiles
  <2>2. t.cursor \in 1 .. Len(t.scratch) + 1 /\ t.queue = Queued(s, u)
    BY <1>0, <1>3, <1>4, <1>5, <1>p DEF SameFiles
  <2>3. s.location[u] # "Cache"
        /\ (Null = u \/ c = Null \/ b \/ c = s.input[u])
    BY <1>m
  <2> QED
    BY <1>1, <2>1, <2>2, <2>3, BroughtIn
<1>7. /\ s.object \in [Uuid -> Content \cup {Null}]
      /\ s.location \in [Uuid -> {"none", "Input", "Cache", "Scratch"}]
  BY <1>0 DEF BinState
<1>8. /\ t.location = [s.location EXCEPT ![u] = "Cache"]
      /\ t.object = [s.object EXCEPT ![u] = c]
  BY <1>3, <1>4 DEF IsPlacedIn
<1>9. /\ t.location[u] = "Cache" /\ t.object[u] = c
      /\ \A w \in Uuid : w # u => t.location[w] = s.location[w] /\ t.object[w] = s.object[w]
  BY <1>1, <1>7, <1>8
<1>10. t.fault = "none" /\ t.input = s.input /\ t.limit = s.limit /\ t.caching = s.caching
  BY <1>4, <1>p DEF SameFiles
<1> QED
  BY <1>6, <1>9, <1>10 DEF u, c

--------------------------------------------------------------------------------
(* What the loops of TryAbortTransaction keep.                             *)

Key == Uuid \X {"val", "ptr"}

(* The records of changes hold values.                                     *)
ChangesAreTyped ==
  /\ IsFiniteSet(DOMAIN changed)
  /\ DOMAIN changed \subseteq Key
  /\ \A k \in DOMAIN changed : /\ k[2] = "val" => changed[k] \in Value
                               /\ k[2] = "ptr" => changed[k] \in Uuid \cup {Null}

LEMMA RollBackNeat ==
  ASSUME ChangesAreTyped, NEW s, Neat(s, Null), NEW k \in DOMAIN changed
  PROVE  Neat(RollBack(s, k), Null) /\ Moved(s, RollBack(s, k))
<1> DEFINE u == k[1]
           f == FetchObject(s, u)
           t == RollBack(s, k)
<1>1. u \in Uuid /\ k[2] \in {"val", "ptr"}
  BY DEF ChangesAreTyped, Key
<1>2. CASE s.fault # "none"
  <2>1. t = s
    BY <1>2 DEF RollBack
  <2> QED
    BY <2>1 DEF Moved
<1>3. CASE s.fault = "none"
  <2>1. Neat(f, Null) /\ Moved(s, f)
    BY <1>1, <1>3, FetchObjectNeat
  <2>2. t = IF f.object[u] = Null THEN Fail(f, "assert")
            ELSE IF k[2] = "ptr" THEN MovePointer(f, u, changed[k])
            ELSE Modify(f, u, [f.object[u] EXCEPT !.val = changed[k]], "assert")
    BY <1>3 DEF RollBack
  <2> HIDE DEF f, t, u
  <2>3. Neat(t, Null) /\ Moved(f, t)
    <3>1. CASE f.object[u] = Null
      BY <2>1, <2>2, <3>1, FailIsNeat
    <3>2. CASE f.object[u] # Null /\ k[2] = "ptr"
      <4>1. t = MovePointer(f, u, changed[k]) /\ changed[k] \in Uuid \cup {Null}
        BY <2>2, <3>2 DEF ChangesAreTyped
      <4> QED
        BY <1>1, <2>1, <3>2, <4>1, MovePointerNeat
    <3>3. CASE f.object[u] # Null /\ k[2] # "ptr"
      <4> DEFINE c == [f.object[u] EXCEPT !.val = changed[k]]
      <4>1. t = Modify(f, u, c, "assert")
        BY <2>2, <3>3
      <4>2. changed[k] \in Value
        BY <1>1, <3>3 DEF ChangesAreTyped
      <4>3. f.object[u] \in Content => c \in Content
        BY <4>2 DEF Content
      <4> HIDE DEF c
      <4> QED
        BY <1>1, <2>1, <4>1, <4>3, ModifyNeat
    <3> QED
      BY <3>1, <3>2, <3>3
  <2>4. Moved(s, t)
    BY <2>1, <2>3, MovedTwice
  <2> QED
    BY <2>3, <2>4 DEF t
<1> QED
  BY <1>2, <1>3

LEMMA UncreateNeat ==
  ASSUME NEW s, Neat(s, Null), NEW u \in Uuid
  PROVE  /\ Neat(Uncreate(s, u), Null)
         /\ Uncreate(s, u).fault = "none" =>
              /\ s.fault = "none"
              /\ Uncreate(s, u).location[u] = "none"
              /\ \A w \in Uuid : w # u =>
                   (Uncreate(s, u).location[w] = "none" <=> s.location[w] = "none")
         /\ /\ Uncreate(s, u).input = s.input /\ Uncreate(s, u).caching = s.caching
            /\ Uncreate(s, u).limit = s.limit
<1> DEFINE f == FetchObject(s, u)
           t == Uncreate(s, u)
<1>1. CASE s.fault # "none"
  BY <1>1 DEF Uncreate
<1>2. CASE s.fault = "none"
  <2>1. Neat(f, Null) /\ Moved(s, f)
    BY <1>2, FetchObjectNeat
  <2>2. t = IF f.object[u] = Null THEN Fail(f, "assert") ELSE OutOfQueue(Gone(f, u), u)
    BY <1>2 DEF Uncreate, Gone
  <2> HIDE DEF f, t
  <2>3. CASE f.object[u] = Null
    <3>1. Neat(t, Null) /\ t.fault # "none" /\ Moved(f, t)
      BY <2>1, <2>2, <2>3, FailIsNeat
    <3>2. t.input = s.input /\ t.caching = s.caching /\ t.limit = s.limit
      BY <2>1, <3>1 DEF Moved
    <3> QED
      BY <3>1, <3>2 DEF t
  <2>4. CASE f.object[u] # Null /\ f.fault = "none"
    <3>1. /\ Neat(t, Null)
          /\ t.fault = "none" /\ t.input = f.input /\ t.limit = f.limit /\ t.caching = f.caching
          /\ t.location[u] = "none"
          /\ \A w \in Uuid : w # u => t.location[w] = f.location[w] /\ t.object[w] = f.object[w]
      BY <2>1, <2>2, <2>4, TakenOut
    <3> QED
      BY <1>2, <2>1, <2>4, <3>1 DEF t, Moved
  <2>5. CASE f.object[u] # Null /\ f.fault # "none"
    <3>1. t = OutOfQueue(Gone(f, u), u)
      BY <2>2, <2>5
    <3>2. /\ Neat(t, Null) /\ t.fault # "none"
          /\ t.input = f.input /\ t.limit = f.limit /\ t.caching = f.caching
      BY <2>1, <2>5, <3>1, TakenOutAfterFault
    <3> QED
      BY <2>1, <3>2 DEF t, Moved
  <2> QED
    BY <2>3, <2>4, <2>5
<1> QED
  BY <1>1, <1>2

--------------------------------------------------------------------------------
(* The invariant.                                                          *)

Known == DOMAIN committed \cup ToSet(created)

(* The deleted objects, each one deleted once, are out of the index and    *)
(* may come back.                                                          *)
DeletedAreAside ==
  /\ deleted \in Seq(Deleted)
  /\ \A i, j \in DOMAIN deleted : deleted[i].uuid = deleted[j].uuid => i = j
  /\ \A i \in DOMAIN deleted : /\ bin.location[deleted[i].uuid] = "none"
                               /\ MayReturn(deleted[i], bin.input)
                               /\ deleted[i].uuid \in Known

ListsInv ==
  /\ ChangesAreTyped /\ created \in Seq(Uuid) /\ DeletedAreAside
  /\ \A u \in Uuid : bin.location[u] # "none" => u \in DOMAIN truth /\ u \in Known
  /\ ~inTransaction => deleted = << >>

CacheInv ==
  /\ Neat(bin, Null)
  /\ inTransaction \in BOOLEAN /\ openedObject \in Uuid \cup {Null}
  /\ Running => ListsInv

LEMMA PutBackLoop ==
  ASSUME Neat(bin, Null), Running, ListsInv,
         NEW t, t = AllBack(bin, deleted)
  PROVE  /\ Neat(t, Null)
         /\ t.fault = "none" /\ t.input = bin.input /\ t.limit = bin.limit
         /\ t.caching = bin.caching
         /\ \A u \in Uuid : t.location[u] # "none" => u \in Known
<1> DEFINE n == Len(deleted)
           q == deleted
           W == [k \in 0 .. n |->
                  {s \in BinState :
                     /\ Neat(s, Null) /\ s.fault = "none" /\ s.input = bin.input
                     /\ s.limit = bin.limit /\ s.caching = bin.caching
                     /\ \A i \in 1 .. n : i > k => s.location[q[i].uuid] = "none"
                     /\ \A u \in Uuid : s.location[u] # "none" => u \in Known}]
<1>1. n \in Nat /\ DOMAIN q = 1 .. n /\ \A k \in 1 .. n : q[k] \in Deleted
  BY LenProperties, ElementOfSeq DEF ListsInv, DeletedAreAside
<1>2. bin \in BinState
  BY DEF Neat, Placed
<1>3. ASSUME NEW k \in 1 .. n, NEW s \in BinState
      PROVE  PutBack(s, q[k]) \in BinState
  <2> DEFINE u == q[k].uuid
             c == q[k].object
             b == q[k].dirty
             p == PlaceIn(s, u, c, b, "Cache")
  <2>1. u \in Uuid /\ c \in Content \cup {Null} /\ b \in BOOLEAN
    BY <1>1 DEF Deleted
  <2>2. PutBack(s, q[k]) = InFront(p, u)
    BY DEF PutBack, PlaceIn
  <2> HIDE DEF u, c, b
  <2>3. p = PlaceIn(s, u, c, b, "Cache") /\ "Cache" \in {"none", "Input", "Cache", "Scratch"}
    OBVIOUS
  <2> HIDE DEF p
  <2>4. IsPlacedIn(s, p, u, c, b, "Cache")
    BY <2>1, <2>3, PlaceFields
  <2>5. p \in BinState
    BY <2>4 DEF IsPlacedIn
  <2> QED
    BY <2>1, <2>2, <2>5, InFrontFields
<1> HIDE DEF n
<1>q. t = AllBack(bin, q)
  OBVIOUS
<1>i. /\ \A i, j \in 1 .. n : q[i].uuid = q[j].uuid => i = j
      /\ \A i \in 1 .. n : /\ bin.location[q[i].uuid] = "none"
                           /\ MayReturn(q[i], bin.input)
                           /\ q[i].uuid \in Known
      /\ \A u \in Uuid : bin.location[u] # "none" => u \in Known
  BY <1>1 DEF ListsInv, DeletedAreAside
<1> HIDE DEF q
<1>4. PICK h : /\ h \in [0 .. n -> BinState]
               /\ h[0] = bin
               /\ \A k \in 1 .. n : h[k] = PutBack(h[k - 1], q[k])
               /\ t = h[n]
  <2> HIDE DEF W
  <2>1. n \in Nat /\ DOMAIN q = 1 .. n
    BY <1>1
  <2>2. \A k \in 1 .. n, r \in BinState : PutBack(r, q[k]) \in BinState
    BY <1>3
  <2>3. \E h : PutBackRun(h, n, BinState, bin, q) /\ AllBack(bin, q) = h[n]
    BY <1>2, <2>1, <2>2, PutBackTurns
  <2> QED
    BY <1>q, <2>3 DEF PutBackRun
<1>5. h[0] \in W[0]
  <2>1. 0 \in 0 .. n
    BY <1>1
  <2> QED
    BY <1>1, <1>2, <1>4, <1>i, <2>1 DEF Running
<1>6. ASSUME NEW k \in 1 .. n, h[k - 1] \in W[k - 1]
      PROVE  h[k] \in W[k]
  <2> DEFINE s == h[k - 1]
             r == h[k]
             d == q[k]
  <2>1. k - 1 \in 0 .. n /\ k \in 0 .. n /\ k > k - 1 /\ k \in Nat
    BY <1>1
  <2>2. /\ Neat(s, Null) /\ s.fault = "none" /\ s.input = bin.input
        /\ s.limit = bin.limit /\ s.caching = bin.caching
        /\ \A i \in 1 .. n : i > k - 1 => s.location[q[i].uuid] = "none"
        /\ \A u \in Uuid : s.location[u] # "none" => u \in Known
    BY <1>6, <2>1
  <2>3. r = PutBack(s, d) /\ d \in Deleted /\ r \in BinState
    BY <1>1, <1>4, <2>1
  <2>4. s.location[d.uuid] = "none" /\ MayReturn(d, s.input) /\ d.uuid \in Known
    BY <1>i, <2>1, <2>2
  <2> HIDE DEF s, d, r, W
  <2>5. /\ Neat(r, Null)
        /\ r.fault = "none" /\ r.input = s.input /\ r.limit = s.limit /\ r.caching = s.caching
        /\ r.location[d.uuid] = "Cache" /\ r.object[d.uuid] = d.object
        /\ \A w \in Uuid : w # d.uuid => /\ r.location[w] = s.location[w]
                                        /\ r.object[w] = s.object[w]
    BY <2>2, <2>3, <2>4, PutBackNeat
  <2>6. \A i \in 1 .. n : i > k => r.location[q[i].uuid] = "none"
    <3> SUFFICES ASSUME NEW i \in 1 .. n, i > k PROVE r.location[q[i].uuid] = "none"
      OBVIOUS
    <3>1. q[i].uuid # d.uuid /\ i > k - 1 /\ q[i].uuid \in Uuid
      BY <1>1, <1>i, <2>1 DEF d, Deleted
    <3> QED
      BY <2>2, <2>5, <3>1
  <2>7. \A u \in Uuid : r.location[u] # "none" => u \in Known
    BY <2>2, <2>4, <2>5
  <2>8. r \in W[k]
    BY <2>1, <2>2, <2>3, <2>5, <2>6, <2>7 DEF W
  <2> QED
    BY <2>8 DEF r
<1> HIDE DEF W
<1>7. \A k \in 0 .. n : h[k] \in W[k]
  BY <1>1, <1>5, <1>6, TurnsKeep
<1>8. n \in 0 .. n
  BY <1>1
<1>9. t \in W[n]
  BY <1>4, <1>7, <1>8
<1> QED
  BY <1>8, <1>9 DEF W

LEMMA RollBackLoop ==
  ASSUME ChangesAreTyped, NEW s, Neat(s, Null), NEW order \in SetToSeqs(DOMAIN changed),
         NEW t, t = AllRolledBack(s, order)
  PROVE  Neat(t, Null) /\ Moved(s, t)
<1> DEFINE n == Cardinality(DOMAIN changed)
           V == {r \in BinState : Neat(r, Null) /\ Moved(s, r)}
<1>1. n \in Nat
  BY FS_CardinalityType DEF ChangesAreTyped
<1>2. order \in [1 .. n -> DOMAIN changed]
  BY DEF SetToSeqs
<1>3. DOMAIN order = 1 .. n /\ \A k \in 1 .. n : order[k] \in DOMAIN changed
  BY <1>2
<1>4. s \in V
  BY DEF Neat, Placed, Moved
<1>5. ASSUME NEW r \in V, NEW k \in 1 .. n
      PROVE  RollBack(r, order[k]) \in V
  <2> DEFINE m == RollBack(r, order[k])
  <2>1. Neat(r, Null) /\ Moved(s, r) /\ order[k] \in DOMAIN changed
    BY <1>3
  <2>2. Neat(m, Null) /\ Moved(r, m)
    BY <2>1, RollBackNeat
  <2> HIDE DEF m
  <2>3. Moved(s, m) /\ m \in BinState
    BY <2>1, <2>2, MovedTwice DEF Neat, Placed
  <2>4. m \in V
    BY <2>2, <2>3
  <2> HIDE DEF V
  <2> QED
    BY <2>4 DEF m
<1> HIDE DEF n, V
<1>6. PICK h : RollBackRun(h, n, V, s, order) /\ AllRolledBack(s, order) = h[n]
  BY <1>1, <1>3, <1>4, <1>5, RollBackTurns
<1>7. t \in V
  BY <1>1, <1>6 DEF RollBackRun
<1> QED
  BY <1>7 DEF V

LEMMA UncreateLoop ==
  ASSUME NEW s, Neat(s, Null), created \in Seq(Uuid),
         s.fault = "none" => \A u \in Uuid : s.location[u] # "none" => u \in Known,
         NEW t, t = AllUncreated(s, created)
  PROVE  /\ Neat(t, Null) /\ t.input = s.input /\ t.caching = s.caching /\ t.limit = s.limit
         /\ t.fault = "none" => \A u \in Uuid : t.location[u] # "none" => u \in DOMAIN committed
<1> DEFINE n == Len(created)
           q == created
           V == {r \in BinState : Neat(r, Null)}
           W == [k \in 0 .. n |->
                  {r \in V :
                     /\ r.input = s.input /\ r.caching = s.caching /\ r.limit = s.limit
                     /\ r.fault = "none" =>
                          \A u \in Uuid : r.location[u] # "none" =>
                            u \in DOMAIN committed \/ \E i \in 1 .. n : i > k /\ q[i] = u}]
<1>1. n \in Nat /\ DOMAIN q = 1 .. n /\ \A k \in 1 .. n : q[k] \in Uuid
  BY LenProperties, ElementOfSeq
<1>2. s \in V
  BY DEF Neat, Placed
<1>3. ASSUME NEW k \in 1 .. n, NEW r \in V
      PROVE  Uncreate(r, q[k]) \in V
  BY <1>1, UncreateNeat DEF Neat, Placed
<1>i. s.fault = "none" => \A u \in Uuid : s.location[u] # "none" =>
                            u \in DOMAIN committed \/ \E i \in 1 .. n : q[i] = u
  BY <1>1 DEF Known, ToSet
<1>q. t = AllUncreated(s, q)
  OBVIOUS
<1> HIDE DEF n, q
<1>4. PICK h : /\ h \in [0 .. n -> V]
               /\ h[0] = s
               /\ \A k \in 1 .. n : h[k] = Uncreate(h[k - 1], q[k])
               /\ t = h[n]
  <2> HIDE DEF W, V
  <2>1. n \in Nat /\ DOMAIN q = 1 .. n
    BY <1>1
  <2>2. \A k \in 1 .. n, r \in V : Uncreate(r, q[k]) \in V
    BY <1>3
  <2>3. \E h : UncreateRun(h, n, V, s, q) /\ AllUncreated(s, q) = h[n]
    BY <1>2, <2>1, <2>2, UncreateTurns
  <2> QED
    BY <1>q, <2>3 DEF UncreateRun
<1>5. h[0] \in W[0]
  <2>1. 0 \in 0 .. n /\ \A i \in 1 .. n : i > 0
    BY <1>1
  <2> HIDE DEF V
  <2> QED
    BY <1>1, <1>2, <1>4, <1>i, <2>1
<1>6. ASSUME NEW k \in 1 .. n, h[k - 1] \in W[k - 1]
      PROVE  h[k] \in W[k]
  <2> DEFINE r == h[k - 1]
             m == h[k]
             u == q[k]
  <2>1. k - 1 \in 0 .. n /\ k \in 0 .. n /\ k \in Nat
    BY <1>1
  <2>2. /\ r \in V /\ r.input = s.input /\ r.caching = s.caching /\ r.limit = s.limit
        /\ r.fault = "none" =>
             \A w \in Uuid : r.location[w] # "none" =>
               w \in DOMAIN committed \/ \E i \in 1 .. n : i > k - 1 /\ q[i] = w
    BY <1>6, <2>1
  <2>3. m = Uncreate(r, u) /\ u \in Uuid /\ m \in V /\ Neat(r, Null)
    BY <1>1, <1>4, <2>1, <2>2
  <2>a. u = q[k]
    OBVIOUS
  <2> HIDE DEF r, m, u, W
  <2>4. /\ m.input = r.input /\ m.caching = r.caching /\ m.limit = r.limit
        /\ m.fault = "none" =>
             /\ r.fault = "none" /\ m.location[u] = "none"
             /\ \A w \in Uuid : w # u => (m.location[w] = "none" <=> r.location[w] = "none")
    BY <2>3, UncreateNeat
  <2>5. ASSUME m.fault = "none", NEW w \in Uuid, m.location[w] # "none"
        PROVE  w \in DOMAIN committed \/ \E i \in 1 .. n : i > k /\ q[i] = w
    <3>1. w # u /\ r.fault = "none" /\ r.location[w] # "none"
      BY <2>4, <2>5
    <3>2. w \in DOMAIN committed \/ \E i \in 1 .. n : i > k - 1 /\ q[i] = w
      BY <2>2, <3>1
    <3>3. ASSUME NEW i \in 1 .. n, i > k - 1, q[i] = w PROVE i > k
      BY <1>1, <2>1, <2>a, <3>1, <3>3
    <3> QED
      BY <3>2, <3>3
  <2>6. m \in W[k]
    <3> HIDE DEF V
    <3> QED
      BY <2>1, <2>2, <2>3, <2>4, <2>5 DEF W
  <2> QED
    BY <2>6 DEF m
<1> HIDE DEF W
<1>7. \A k \in 0 .. n : h[k] \in W[k]
  BY <1>1, <1>5, <1>6, TurnsKeep
<1>8. n \in 0 .. n /\ \A i \in 1 .. n : ~(i > n)
  BY <1>1
<1>9. t \in W[n]
  BY <1>4, <1>7, <1>8
<1> QED
  BY <1>8, <1>9 DEF W, V

LEMMA AbortedNeat ==
  ASSUME Neat(bin, Null), Running, ListsInv, NEW order \in SetToSeqs(DOMAIN changed),
         NEW t, t = Aborted(order)
  PROVE  /\ Neat(t, Null)
         /\ t.fault = "none" => \A u \in Uuid : t.location[u] # "none" => u \in DOMAIN committed
<1> DEFINE s1 == AllBack(bin, deleted)
           s2 == AllRolledBack(s1, order)
<1>1. t = AllUncreated(s2, created)
  BY DEF Aborted, AllBack, AllRolledBack, AllUncreated
<1>2. /\ Neat(s1, Null) /\ s1.fault = "none"
      /\ \A u \in Uuid : s1.location[u] # "none" => u \in Known
  BY PutBackLoop
<1> HIDE DEF s1
<1>3. Neat(s2, Null) /\ Moved(s1, s2)
  BY <1>2, RollBackLoop DEF ListsInv
<1> HIDE DEF s2
<1>4. s2.fault = "none" => \A u \in Uuid : s2.location[u] # "none" => u \in Known
  BY <1>2, <1>3 DEF Moved
<1> QED
  BY <1>1, <1>3, <1>4, UncreateLoop DEF ListsInv

LEMMA BlankIsContent == Blank \in Content
BY ConstantsAssumption DEF Blank, Content

(* What the file opened may hold, and how caching may be set. *)
IsFile(input) == input \in [Uuid -> Content \cup {Null}]
MayCache(caching) == caching \in BOOLEAN /\ (~Toggles => caching = TRUE)

IsOpened(t, input) ==
  /\ Neat(t, Null) /\ t.fault = "none"
  /\ \A u \in Uuid : t.location[u] = "none" <=> input[u] = Null

LEMMA OpenedNeat ==
  ASSUME NEW input, IsFile(input), NEW caching, MayCache(caching), NEW limit \in Nat,
         NEW t, t = Opened(input, caching, limit)
  PROVE  IsOpened(t, input)
<1>0. input \in [Uuid -> Content \cup {Null}] /\ caching \in BOOLEAN
  BY DEF IsFile, MayCache
<1>1. /\ t.location = [u \in Uuid |-> IF input[u] = Null THEN "none" ELSE "Input"]
      /\ t.object = [u \in Uuid |-> Null] /\ t.queue = << >> /\ t.caching = caching
      /\ t.limit = limit /\ t.input = input /\ t.scratch = << >> /\ t.cursor = 1
      /\ t.fault = "none"
  BY DEF Opened
<1>2. t \in BinState
  <2> DEFINE lo == [u \in Uuid |-> IF input[u] = Null THEN "none" ELSE "Input"]
             ob == [u \in Uuid |-> Null]
             di == [u \in Uuid |-> FALSE]
             po == [u \in Uuid |-> 0]
  <2>1. /\ lo \in [Uuid -> {"none", "Input", "Cache", "Scratch"}]
        /\ ob \in [Uuid -> Content \cup {Null}] /\ di \in [Uuid -> BOOLEAN]
        /\ po \in [Uuid -> Nat]
    OBVIOUS
  <2>2. << >> \in Seq(Uuid) /\ << >> \in Seq(Content)
    BY EmptySeq
  <2>3. t = [location |-> lo, object |-> ob, dirty |-> di, position |-> po, queue |-> << >>,
             caching |-> caching, limit |-> limit, input |-> input, scratch |-> << >>,
             cursor |-> 1, fault |-> "none"]
    BY DEF Opened
  <2> HIDE DEF lo, ob, di, po
  <2> QED
    BY <1>0, <2>1, <2>2, <2>3 DEF BinState
<1>3. ToSet(t.queue) = {} /\ IsInjective(t.queue)
  BY <1>1, EmptySeq DEF ToSet, IsInjective
<1>4. \A u \in Uuid : t.location[u] \in {"none", "Input"} /\ t.object[u] = Null
  BY <1>1
<1>5. Placed(t)
  <2>1. t.cursor \in 1 .. Len(t.scratch) + 1
    BY <1>1, EmptySeq
  <2> QED
    BY <1>2, <1>4, <2>1 DEF Placed
<1>6. Lined(t) /\ CleanBut(t, Null)
  BY <1>0, <1>1, <1>3, <1>4 DEF Lined, CleanBut, MayCache
<1> QED
  BY <1>1, <1>4, <1>5, <1>6 DEF Neat, IsOpened

LEMMA InitInv == Init => CacheInv
<1> SUFFICES ASSUME Init PROVE CacheInv
  OBVIOUS
<1>1. /\ inTransaction = FALSE /\ openedObject = Null /\ created = << >>
      /\ changed = NoFunction /\ deleted = << >> /\ committed = truth
  BY DEF Init
<1>2. NoLimit \in Nat /\ Saved \subseteq Uuid /\ Root \in Uuid /\ Null \notin Uuid
  BY ConstantsAssumption
<1>3. /\ Neat(bin, Null) /\ bin.fault = "none"
      /\ \A u \in Uuid : bin.location[u] # "none" => u \in DOMAIN truth
  <2> DEFINE in1 == [u \in Uuid |-> IF u \in Saved THEN Blank ELSE Null]
             in2 == [u \in Uuid |-> Null]
             yes == TRUE
             b1 == Opened(in1, yes, NoLimit)
             b2 == Opened(in2, yes, NoLimit)
  <2>0. IsFile(in1) /\ IsFile(in2) /\ MayCache(yes)
    BY BlankIsContent DEF IsFile, MayCache
  <2>1. CASE bin = b1 /\ truth = [u \in Saved |-> Blank]
    <3>a. \A u \in Uuid : u \notin Saved => in1[u] = Null
      OBVIOUS
    <3>b. bin = Opened(in1, yes, NoLimit)
      BY <2>1
    <3> HIDE DEF in1, yes
    <3>1. /\ Neat(bin, Null) /\ bin.fault = "none"
          /\ \A u \in Uuid : bin.location[u] = "none" <=> in1[u] = Null
      BY <1>2, <2>0, <3>b, OpenedNeat DEF IsOpened
    <3> QED
      BY <2>1, <3>a, <3>1
  <2>2. CASE bin = OnlyRoot /\ truth = [u \in {Root} |-> Blank]
    <3> DEFINE d == [uuid |-> Root, object |-> Blank, dirty |-> TRUE]
    <3>a. bin = PutBack(b2, d)
      BY <2>2 DEF OnlyRoot, PutBack
    <3>b. d \in Deleted /\ d.uuid = Root /\ MayReturn(d, b2.input)
      BY <1>2, BlankIsContent DEF Deleted, MayReturn
    <3>c. \A u \in Uuid : in2[u] = Null
      OBVIOUS
    <3>d. b2 = Opened(in2, yes, NoLimit)
      OBVIOUS
    <3> HIDE DEF in2, b2, d, yes
    <3>1. /\ Neat(b2, Null) /\ b2.fault = "none"
          /\ \A u \in Uuid : b2.location[u] = "none" <=> in2[u] = Null
      BY <1>2, <2>0, <3>d, OpenedNeat DEF IsOpened
    <3>2. \A u \in Uuid : b2.location[u] = "none"
      BY <3>c, <3>1
    <3>3. b2.location[d.uuid] = "none"
      BY <1>2, <3>2, <3>b
    <3>4. /\ Neat(bin, Null) /\ bin.fault = "none"
          /\ \A w \in Uuid : w # d.uuid => bin.location[w] = b2.location[w]
      BY <3>1, <3>3, <3>a, <3>b, PutBackNeat
    <3> QED
      BY <2>2, <3>2, <3>4, <3>b
  <2> QED
    BY <2>1, <2>2 DEF Init
<1>4. ListsInv
  <2>1. ChangesAreTyped
    <3>1. DOMAIN changed = {}
      BY <1>1 DEF NoFunction
    <3> QED
      BY <3>1, FS_EmptySet DEF ChangesAreTyped
  <2>2. created \in Seq(Uuid) /\ ToSet(created) = {}
    BY <1>1, EmptySeq DEF ToSet
  <2>3. DeletedAreAside
    <3>1. deleted \in Seq(Deleted) /\ DOMAIN deleted = {}
      BY <1>1, EmptySeq
    <3> QED
      BY <3>1 DEF DeletedAreAside
  <2> QED
    BY <1>1, <1>3, <2>1, <2>2, <2>3 DEF ListsInv, Known
<1> QED
  BY <1>1, <1>3, <1>4 DEF CacheInv

--------------------------------------------------------------------------------
(* Every step keeps the invariant.                                         *)

(* Whoever is put aside is in no other place: the lists after a step that  *)
(* moves objects and perhaps records a change.                             *)
LEMMA ListsMoved ==
  ASSUME ListsInv, bin'.input = bin.input,
         \A u \in Uuid : bin'.location[u] = "none" <=> bin.location[u] = "none",
         ChangesAreTyped',
         DOMAIN truth' = DOMAIN truth, inTransaction' = inTransaction,
         created' = created, deleted' = deleted, committed' = committed
  PROVE  ListsInv'
<1>1. Known' = Known
  BY DEF Known
<1>2. DeletedAreAside'
  <2>1. \A i \in DOMAIN deleted : deleted[i].uuid \in Uuid
    <3>1. deleted \in Seq(Deleted)
      BY DEF ListsInv, DeletedAreAside
    <3>2. \A i \in DOMAIN deleted : deleted[i] \in Deleted
      BY <3>1, LenProperties, ElementOfSeq
    <3> QED
      BY <3>2 DEF Deleted
  <2> QED
    BY <1>1, <2>1 DEF ListsInv, DeletedAreAside, MayReturn
<1> QED
  BY <1>1, <1>2 DEF ListsInv

LEMMA RecordTyped ==
  ASSUME ChangesAreTyped, NEW u \in Uuid, NEW f \in {"val", "ptr"}, NEW old,
         f = "val" => old \in Value, f = "ptr" => old \in Uuid \cup {Null},
         Record(<<u, f>>, old)
  PROVE  ChangesAreTyped'
<1> DEFINE k == <<u, f>>
<1>1. /\ DOMAIN changed' = DOMAIN changed \cup {k}
      /\ \A x \in DOMAIN changed' : changed'[x] = IF x \in DOMAIN changed THEN changed[x] ELSE old
  BY DEF Record
<1>2. IsFiniteSet(DOMAIN changed')
  <2>1. IsFiniteSet({k})
    BY FS_Singleton
  <2> HIDE DEF k
  <2>2. IsFiniteSet(DOMAIN changed)
    BY DEF ChangesAreTyped
  <2> DEFINE D == DOMAIN changed
             K == {k}
  <2> HIDE DEF D, K
  <2>3. IsFiniteSet(D \cup K)
    BY <2>1, <2>2, FS_Union DEF D, K
  <2> QED
    BY <1>1, <2>3 DEF D, K
<1>3. k \in Key /\ k[2] = f
  BY DEF Key
<1> HIDE DEF k
<1> QED
  BY <1>1, <1>2, <1>3 DEF ChangesAreTyped

LEMMA NothingIsChanged ==
  ASSUME changed' = NoFunction
  PROVE  ChangesAreTyped'
<1>1. DOMAIN changed' = {}
  BY DEF NoFunction
<1> QED
  BY <1>1, FS_EmptySet DEF ChangesAreTyped

(* When a transaction has ended, what is indexed is what was committed.    *)
LEMMA ListsCleared ==
  ASSUME ClearLists, committed' = truth',
         \A u \in Uuid : bin'.location[u] # "none" => u \in DOMAIN truth'
  PROVE  ListsInv'
<1>1. created' = << >> /\ deleted' = << >> /\ changed' = NoFunction
  BY DEF ClearLists
<1>2. created' \in Seq(Uuid) /\ deleted' \in Seq(Deleted) /\ DOMAIN deleted' = {}
  BY <1>1, EmptySeq
<1>3. DeletedAreAside'
  BY <1>2 DEF DeletedAreAside
<1> QED
  BY <1>1, <1>2, <1>3, NothingIsChanged DEF ListsInv, Known

LEMMA BeginTransactionInv == CacheInv /\ BeginTransaction => CacheInv'
<1> SUFFICES ASSUME CacheInv, BeginTransaction PROVE CacheInv'
  OBVIOUS
<1>1. /\ bin' = bin /\ inTransaction' = TRUE /\ openedObject' = Null /\ committed' = truth
      /\ created' = created /\ changed' = changed /\ deleted' = deleted /\ truth' = truth
      /\ ListsInv /\ deleted = << >> /\ Running
  BY DEF BeginTransaction, CacheInv, ListsInv
<1>2. deleted' \in Seq(Deleted) /\ DOMAIN deleted' = {}
  BY <1>1, EmptySeq
<1>3. DeletedAreAside'
  BY <1>2 DEF DeletedAreAside
<1>4. ChangesAreTyped'
  BY <1>1 DEF ListsInv, ChangesAreTyped
<1>5. ListsInv'
  BY <1>1, <1>3, <1>4 DEF ListsInv, Known
<1>6. Neat(bin', Null)
  BY <1>1 DEF CacheInv
<1> QED
  BY <1>1, <1>5, <1>6 DEF CacheInv

LEMMA CommitTransactionInv == CacheInv /\ CommitTransaction => CacheInv'
<1> SUFFICES ASSUME CacheInv, CommitTransaction PROVE CacheInv'
  OBVIOUS
<1>1. /\ bin' = bin /\ ClearLists /\ committed' = truth' /\ truth' = truth /\ ListsInv
  BY DEF CommitTransaction, CacheInv
<1>2. ListsInv'
  BY <1>1, ListsCleared DEF ListsInv
<1>3. Neat(bin', Null)
  BY <1>1 DEF CacheInv
<1>4. inTransaction' = FALSE /\ openedObject' = Null
  BY <1>1 DEF ClearLists
<1> QED
  BY <1>2, <1>3, <1>4 DEF CacheInv

LEMMA AbortTransactionInv == CacheInv /\ AbortTransaction => CacheInv'
<1> SUFFICES ASSUME CacheInv, AbortTransaction PROVE CacheInv'
  OBVIOUS
<1>1. /\ Neat(bin, Null) /\ Running /\ ListsInv /\ ClearLists
      /\ truth' = committed /\ committed' = truth'
  BY DEF AbortTransaction, CacheInv
<1>2. PICK order \in SetToSeqs(DOMAIN changed) : bin' = Aborted(order)
  BY DEF AbortTransaction
<1>3. /\ Neat(bin', Null)
      /\ bin'.fault = "none" =>
           \A u \in Uuid : bin'.location[u] # "none" => u \in DOMAIN truth'
  BY <1>1, <1>2, AbortedNeat
<1>4. Running' => ListsInv'
  BY <1>1, <1>3, ListsCleared DEF Running
<1>5. inTransaction' = FALSE /\ openedObject' = Null
  BY <1>1 DEF ClearLists
<1> QED
  BY <1>3, <1>4, <1>5 DEF CacheInv

(* Calls that move objects and change no list.                             *)
LEMMA MovedInv ==
  ASSUME CacheInv, Running, Neat(bin', Null), bin'.input = bin.input,
         Running' => \A u \in Uuid : bin'.location[u] = "none" <=> bin.location[u] = "none",
         inTransaction' = inTransaction, openedObject' \in Uuid \cup {Null},
         UNCHANGED <<created, changed, deleted, truth, committed>>
  PROVE  CacheInv'
<1>1. ListsInv /\ inTransaction \in BOOLEAN
  BY DEF CacheInv
<1>2. ChangesAreTyped'
  BY <1>1 DEF ListsInv, ChangesAreTyped
<1>3. Running' => ListsInv'
  BY <1>1, <1>2, ListsMoved
<1> QED
  BY <1>1, <1>3 DEF CacheInv

LEMMA OpenObjectInv ==
  ASSUME CacheInv, NEW u \in Uuid, OpenObject(u)
  PROVE  CacheInv'
<1>1. /\ Neat(bin, Null) /\ Running /\ bin' = FetchObject(bin, u)
      /\ openedObject' \in Uuid \cup {Null}
      /\ UNCHANGED <<inTransaction, created, changed, deleted, truth, committed>>
  BY DEF OpenObject, CacheInv
<1>2. Neat(bin', Null) /\ Moved(bin, bin')
  BY <1>1, FetchObjectNeat DEF Running
<1> QED
  BY <1>1, <1>2, MovedInv DEF Moved, Running

LEMMA CloseObjectInv == CacheInv /\ CloseObject => CacheInv'
<1> SUFFICES ASSUME CacheInv, CloseObject PROVE CacheInv'
  OBVIOUS
<1>1. /\ Neat(bin', Null) /\ Running /\ bin' = bin /\ openedObject' \in Uuid \cup {Null}
      /\ UNCHANGED <<inTransaction, created, changed, deleted, truth, committed>>
  BY DEF CloseObject, CacheInv
<1> QED
  BY <1>1, MovedInv

LEMMA SetCacheSizeInv ==
  ASSUME CacheInv, NEW l \in Limits, SetCacheSize(l)
  PROVE  CacheInv'
<1> DEFINE s == [bin EXCEPT !.limit = l]
<1>1. /\ Neat(bin, Null) /\ Running /\ bin' = CheckCacheSize(s)
      /\ openedObject' \in Uuid \cup {Null}
      /\ UNCHANGED <<inTransaction, openedObject, created, changed, deleted, truth, committed>>
  BY DEF SetCacheSize, CacheInv
<1>2. l \in Nat /\ bin \in BinState
  BY <1>1, ConstantsAssumption DEF Neat, Placed
<1>3. /\ s \in BinState
      /\ s.object = bin.object /\ s.dirty = bin.dirty /\ s.location = bin.location
      /\ s.queue = bin.queue
      /\ s.position = bin.position /\ s.caching = bin.caching
      /\ s.input = bin.input /\ s.scratch = bin.scratch /\ s.cursor = bin.cursor
      /\ s.fault = bin.fault
  BY <1>2 DEF BinState
<1> HIDE DEF s
<1>4. Neat(s, Null)
  BY <1>1, <1>3 DEF Neat, Placed, Lined, CleanBut
<1>5. Neat(bin', Null) /\ Moved(s, bin')
  BY <1>1, <1>4, CheckCacheSizeNeat
<1> QED
  BY <1>1, <1>3, <1>5, MovedInv DEF Moved, Running

LEMMA SetAttributeValueInv ==
  ASSUME CacheInv, NEW v \in Value, SetAttributeValue(v)
  PROVE  CacheInv'
<1> DEFINE u == openedObject
           now == bin.object[u]
           c == [now EXCEPT !.val = v]
<1>1. /\ Neat(bin, Null) /\ Running /\ ListsInv /\ u \in Uuid
      /\ inTransaction \in BOOLEAN
      /\ UNCHANGED <<inTransaction, openedObject, created, deleted, committed>>
  BY ConstantsAssumption DEF SetAttributeValue, CacheInv
<1>2. CASE ~OpenIsUsable
  <2>1. bin' = Fail(bin, "crash") /\ UNCHANGED <<changed, truth>>
    BY <1>2 DEF SetAttributeValue
  <2>2. Neat(bin', Null) /\ Moved(bin, bin') /\ openedObject' \in Uuid \cup {Null}
    BY <1>1, <2>1, FailIsNeat
  <2> QED
    BY <1>1, <2>1, <2>2, MovedInv DEF Moved, Running
<1>3. CASE OpenIsUsable
  <2>1. /\ bin' = Modify(bin, u, c, "crash") /\ Record(<<u, "val">>, now.val)
        /\ truth' = [truth EXCEPT ![u].val = v] /\ now # Null
    BY <1>3 DEF SetAttributeValue, OpenIsUsable
  <2>2. now \in Content
    BY <1>1, <2>1 DEF Neat, Placed, BinState
  <2>3. c \in Content /\ now.val \in Value
    BY <2>2 DEF Content
  <2>4. DOMAIN truth' = DOMAIN truth
    BY <2>1
  <2> HIDE DEF c, now, u
  <2>5. Neat(bin', Null) /\ Moved(bin, bin')
    BY <1>1, <2>1, <2>3, ModifyNeat
  <2>6. ChangesAreTyped'
    BY <1>1, <2>1, <2>3, RecordTyped DEF ListsInv
  <2>7. Running' => ListsInv'
    BY <1>1, <2>4, <2>5, <2>6, ListsMoved DEF Moved, Running
  <2> QED
    BY <1>1, <2>5, <2>7 DEF CacheInv, u
<1> QED
  BY <1>2, <1>3

LEMMA SetPointerValueInv ==
  ASSUME CacheInv, NEW t \in Uuid \cup {Null}, SetPointerValue(t)
  PROVE  CacheInv'
<1> DEFINE u == openedObject
           now == bin.object[u]
<1>1. /\ Neat(bin, Null) /\ Running /\ ListsInv /\ u \in Uuid
      /\ inTransaction \in BOOLEAN
      /\ UNCHANGED <<inTransaction, openedObject, created, deleted, committed>>
  BY ConstantsAssumption DEF SetPointerValue, CacheInv
<1>2. CASE ~OpenIsUsable
  <2>1. bin' = Fail(bin, "crash") /\ UNCHANGED <<changed, truth>>
    BY <1>2 DEF SetPointerValue
  <2>2. Neat(bin', Null) /\ Moved(bin, bin') /\ openedObject' \in Uuid \cup {Null}
    BY <1>1, <2>1, FailIsNeat
  <2> QED
    BY <1>1, <2>1, <2>2, MovedInv DEF Moved, Running
<1>3. CASE OpenIsUsable
  <2>1. /\ bin' = MovePointer(bin, u, t) /\ Record(<<u, "ptr">>, now.ptr)
        /\ truth' = Repointed(truth, u, t) /\ now # Null
    BY <1>3 DEF SetPointerValue, OpenIsUsable
  <2>2. now \in Content
    BY <1>1, <2>1 DEF Neat, Placed, BinState
  <2>3. now.ptr \in Uuid \cup {Null}
    BY <2>2 DEF Content
  <2>4. DOMAIN truth' = DOMAIN truth
    BY <2>1 DEF Repointed
  <2>5. Neat(bin', Null) /\ Moved(bin, bin')
    BY <1>1, <2>1, MovePointerNeat
  <2> HIDE DEF now, u
  <2>6. ChangesAreTyped'
    BY <1>1, <2>1, <2>3, RecordTyped DEF ListsInv
  <2>7. Running' => ListsInv'
    BY <1>1, <2>4, <2>5, <2>6, ListsMoved DEF Moved, Running
  <2> QED
    BY <1>1, <2>5, <2>7 DEF CacheInv, u
<1> QED
  BY <1>2, <1>3

LEMMA CreateObjectInv ==
  ASSUME CacheInv, NEW u \in Uuid, CreateObject(u)
  PROVE  CacheInv'
<1> DEFINE d == [uuid |-> u, object |-> Blank, dirty |-> TRUE]
<1>1. /\ Neat(bin, Null) /\ Running /\ ListsInv
      /\ inTransaction \in BOOLEAN
      /\ u \notin DOMAIN truth /\ u \notin Known
      /\ openedObject' = u /\ created' = <<u>> \o created
      /\ DOMAIN truth' = DOMAIN truth \cup {u}
      /\ UNCHANGED <<inTransaction, changed, deleted, committed>>
      /\ inTransaction
  BY DEF CreateObject, CacheInv, Known
<1>2. bin' = PutBack(bin, d)
  BY DEF CreateObject, PutBack
<1>3. d \in Deleted /\ d.uuid = u /\ MayReturn(d, bin.input)
  BY BlankIsContent DEF Deleted, MayReturn
<1> HIDE DEF d
<1>4. bin.location[u] = "none"
  BY <1>1 DEF ListsInv
<1>5. /\ Neat(bin', Null)
      /\ bin'.fault = "none" /\ bin'.input = bin.input
      /\ \A w \in Uuid : w # u => bin'.location[w] = bin.location[w]
  BY <1>1, <1>2, <1>3, <1>4, PutBackNeat DEF Running
<1>6. created' \in Seq(Uuid) /\ ToSet(created') = ToSet(created) \cup {u}
  <2>1. created \in Seq(Uuid)
    BY <1>1 DEF ListsInv
  <2> QED
    BY <1>1, <2>1, InFrontOf
<1>7. Known' = Known \cup {u}
  BY <1>1, <1>6 DEF Known
<1>8. DeletedAreAside'
  <2>1. \A i \in DOMAIN deleted : deleted[i].uuid \in Uuid /\ deleted[i].uuid # u
    <3>1. deleted \in Seq(Deleted)
      BY <1>1 DEF ListsInv, DeletedAreAside
    <3>2. \A i \in DOMAIN deleted : deleted[i] \in Deleted
      BY <3>1, LenProperties, ElementOfSeq
    <3>3. \A i \in DOMAIN deleted : deleted[i].uuid \in Known
      BY <1>1 DEF ListsInv, DeletedAreAside
    <3> QED
      BY <1>1, <3>2, <3>3 DEF Deleted
  <2> QED
    BY <1>1, <1>5, <1>7, <2>1 DEF ListsInv, DeletedAreAside, MayReturn
<1>9. ChangesAreTyped'
  BY <1>1 DEF ListsInv, ChangesAreTyped
<1>10. ListsInv'
  BY <1>1, <1>5, <1>6, <1>7, <1>8, <1>9 DEF ListsInv
<1> QED
  BY <1>1, <1>5, <1>10 DEF CacheInv

LEMMA OneMore ==
  ASSUME NEW S, NEW q \in Seq(S), NEW e \in S, NEW r, r = <<e>> \o q
  PROVE  /\ r \in Seq(S)
         /\ \A i \in DOMAIN r : \/ i = 1 /\ r[i] = e
                                \/ i - 1 \in DOMAIN q /\ r[i] = q[i - 1]
<1>1. Len(q) \in Nat /\ DOMAIN q = 1 .. Len(q) /\ <<e>> \in Seq(S) /\ Len(<<e>>) = 1
  BY LenProperties
<1>2. r \in Seq(S) /\ Len(r) = 1 + Len(q) /\ DOMAIN r = 1 .. Len(r)
  BY <1>1, ConcatProperties, LenProperties
<1>3. \A i \in 1 .. Len(r) : r[i] = IF i <= 1 THEN <<e>>[i] ELSE q[i - 1]
  BY <1>1, <1>2, ConcatProperties
<1> QED
  BY <1>1, <1>2, <1>3

LEMMA DeleteObjectInv == CacheInv /\ DeleteObject => CacheInv'
<1> SUFFICES ASSUME CacheInv, DeleteObject PROVE CacheInv'
  OBVIOUS
<1> DEFINE u == openedObject
           ptr == bin.object[u].ptr
           nulled == IF ptr = Null THEN bin ELSE MovePointer(bin, u, Null)
           d == [uuid |-> u, object |-> nulled.object[u], dirty |-> nulled.dirty[u]]
<1>1. /\ Neat(bin, Null) /\ Running /\ ListsInv /\ u \in Uuid
      /\ inTransaction \in BOOLEAN /\ inTransaction
      /\ openedObject' = Null
      /\ UNCHANGED <<inTransaction, created, committed>>
  BY ConstantsAssumption DEF DeleteObject, CacheInv
<1>2. CASE ~OpenIsUsable
  <2>1. bin' = Fail(bin, "assert") /\ UNCHANGED <<changed, deleted, truth>>
    BY <1>2 DEF DeleteObject
  <2>2. Neat(bin', Null) /\ Moved(bin, bin') /\ openedObject' \in Uuid \cup {Null}
    BY <1>1, <2>1, FailIsNeat
  <2> QED
    BY <1>1, <2>1, <2>2, MovedInv DEF Moved, Running
<1>3. CASE OpenIsUsable
  <2>1. /\ bin' = IF nulled.fault = "none" THEN OutOfQueue(Gone(nulled, u), u) ELSE nulled
        /\ deleted' = <<d>> \o deleted
        /\ IF ptr = Null THEN UNCHANGED changed ELSE Record(<<u, "ptr">>, ptr)
        /\ truth' = Restrict(Repointed(truth, u, Null), DOMAIN truth \ {u})
        /\ bin.object[u] # Null
    BY <1>3 DEF DeleteObject, OpenIsUsable, Gone
  <2>2. ptr \in Uuid \cup {Null}
    <3>1. bin.object[u] \in Content
      BY <1>1, <2>1 DEF Neat, Placed, BinState
    <3> QED
      BY <3>1 DEF Content
  <2>3. DOMAIN truth' = DOMAIN truth \ {u}
    BY <2>1 DEF Restrict
  <2>4. bin.location[u] = "Cache"
    BY <1>1, <2>1 DEF Neat, Placed
  <2>5. Neat(nulled, Null) /\ Moved(bin, nulled)
    <3>1. CASE ptr = Null
      BY <1>1, <3>1 DEF Moved
    <3>2. CASE ptr # Null
      <4>1. nulled = MovePointer(bin, u, Null) /\ Null \in Uuid \cup {Null}
        BY <3>2
      <4> HIDE DEF nulled, ptr, u
      <4> QED
        BY <1>1, <2>1, <4>1, MovePointerNeat
    <3> QED
      BY <3>1, <3>2
  <2>d. d.uuid = u /\ d.object = nulled.object[u] /\ d.dirty = nulled.dirty[u]
        /\ d = [uuid |-> u, object |-> nulled.object[u], dirty |-> nulled.dirty[u]]
    OBVIOUS
  <2> HIDE DEF nulled, ptr, d, u
  <2>6. Neat(bin', Null) /\ (bin'.fault = "none" => nulled.fault = "none")
    BY <1>1, <2>1, <2>5, TakenOut
  <2>7. ASSUME Running'
        PROVE  ListsInv'
    <3>1. nulled.fault = "none" /\ bin' = OutOfQueue(Gone(nulled, u), u)
      BY <2>1, <2>6, <2>7 DEF Running
    <3>2. /\ bin'.input = nulled.input /\ bin'.location[u] = "none"
          /\ \A w \in Uuid : w # u => bin'.location[w] = nulled.location[w]
      BY <1>1, <2>5, <3>1, TakenOut
    <3>3. /\ nulled.input = bin.input
          /\ \A w \in Uuid : nulled.location[w] = "none" <=> bin.location[w] = "none"
      BY <2>5, <3>1 DEF Moved
    <3>4. Known' = Known /\ u \in Known
      BY <1>1, <2>4 DEF Known, ListsInv
    <3>5. d \in Deleted /\ MayReturn(d, bin'.input)
      <4>1. nulled \in BinState /\ CleanBut(nulled, Null)
        BY <2>5, <3>1 DEF Neat, Placed
      <4>2. nulled.object[u] \in Content \cup {Null} /\ nulled.dirty[u] \in BOOLEAN
        BY <1>1, <4>1 DEF BinState
      <4>3. nulled.object[u] = Null \/ nulled.dirty[u] \/ nulled.object[u] = nulled.input[u]
        BY <1>1, <4>1, ConstantsAssumption DEF CleanBut
      <4> QED
        BY <1>1, <2>d, <3>2, <4>2, <4>3 DEF Deleted, MayReturn
    <3>6. deleted \in Seq(Deleted)
      BY <1>1 DEF ListsInv, DeletedAreAside
    <3>7. /\ deleted' \in Seq(Deleted)
          /\ \A i \in DOMAIN deleted' : \/ i = 1 /\ deleted'[i] = d
                                        \/ i - 1 \in DOMAIN deleted /\ deleted'[i] = deleted[i - 1]
      BY <2>1, <3>5, <3>6, OneMore
    <3>8. \A i \in DOMAIN deleted : /\ deleted[i].uuid \in Uuid /\ deleted[i].uuid # u
                                    /\ bin.location[deleted[i].uuid] = "none"
                                    /\ MayReturn(deleted[i], bin.input)
                                    /\ deleted[i].uuid \in Known
      <4>1. \A i \in DOMAIN deleted : deleted[i] \in Deleted
        BY <3>6, LenProperties, ElementOfSeq
      <4> QED
        BY <1>1, <2>4, <4>1 DEF ListsInv, DeletedAreAside, Deleted
    <3>9. DeletedAreAside'
      <4>1. \A i \in DOMAIN deleted' : /\ bin'.location[deleted'[i].uuid] = "none"
                                       /\ MayReturn(deleted'[i], bin'.input)
                                       /\ deleted'[i].uuid \in Known'
        BY <2>d, <3>2, <3>3, <3>4, <3>5, <3>7, <3>8
      <4>2. \A i, j \in DOMAIN deleted' : deleted'[i].uuid = deleted'[j].uuid => i = j
        <5>1. \A i, j \in DOMAIN deleted : deleted[i].uuid = deleted[j].uuid => i = j
          BY <1>1 DEF ListsInv, DeletedAreAside
        <5>2. DOMAIN deleted' \subseteq Int
          BY <3>7, LenProperties
        <5> SUFFICES ASSUME NEW i \in DOMAIN deleted', NEW j \in DOMAIN deleted',
                            deleted'[i].uuid = deleted'[j].uuid
                     PROVE  i = j
          OBVIOUS
        <5>a. \A l \in DOMAIN deleted' : l # 1 => deleted'[l].uuid # u
          BY <3>7, <3>8
        <5>b. \A l \in DOMAIN deleted' : l = 1 => deleted'[l].uuid = u
          <6>1. 0 \notin DOMAIN deleted
            BY <3>6, LenProperties
          <6> QED
            BY <2>d, <3>7, <6>1
        <5>3. i = 1 <=> j = 1
          BY <5>a, <5>b
        <5>4. CASE i # 1
          <6>1. /\ i - 1 \in DOMAIN deleted /\ deleted'[i] = deleted[i - 1]
                /\ j - 1 \in DOMAIN deleted /\ deleted'[j] = deleted[j - 1]
            BY <3>7, <5>3, <5>4
          <6>2. i - 1 = j - 1
            BY <5>1, <6>1
          <6> QED
            BY <5>2, <6>2
        <5> QED
          BY <5>3, <5>4
      <4> QED
        BY <3>7, <4>1, <4>2 DEF DeletedAreAside
    <3>10. ChangesAreTyped'
      <4>1. CASE ptr = Null
        BY <1>1, <2>1, <4>1 DEF ListsInv, ChangesAreTyped
      <4>2. CASE ptr # Null
        BY <1>1, <2>1, <2>2, <4>2, RecordTyped DEF ListsInv
      <4> QED
        BY <4>1, <4>2
    <3>11. \A w \in Uuid : bin'.location[w] # "none" => w \in DOMAIN truth' /\ w \in Known'
      BY <1>1, <2>3, <3>2, <3>3, <3>4 DEF ListsInv
    <3> QED
      BY <1>1, <3>9, <3>10, <3>11 DEF ListsInv
  <2> QED
    BY <1>1, <2>6, <2>7 DEF CacheInv
<1> QED
  BY <1>2, <1>3

LEMMA EnableCachingInv == CacheInv /\ EnableCaching => CacheInv'
<1> SUFFICES ASSUME CacheInv, EnableCaching PROVE CacheInv'
  OBVIOUS
<1>1. /\ Neat(bin, Null) /\ Running /\ Toggles /\ bin' = [bin EXCEPT !.caching = TRUE]
      /\ openedObject' \in Uuid \cup {Null}
      /\ UNCHANGED <<inTransaction, openedObject, created, changed, deleted, truth, committed>>
  BY DEF EnableCaching, CacheInv
<1>2. bin \in BinState
  BY <1>1 DEF Neat, Placed
<1>3. /\ bin' \in BinState /\ bin'.caching = TRUE
      /\ bin'.object = bin.object /\ bin'.dirty = bin.dirty /\ bin'.location = bin.location
      /\ bin'.queue = bin.queue /\ bin'.position = bin.position
      /\ bin'.input = bin.input /\ bin'.scratch = bin.scratch /\ bin'.cursor = bin.cursor
      /\ bin'.fault = bin.fault
  BY <1>1, <1>2 DEF BinState
<1>4. Neat(bin', Null)
  BY <1>1, <1>3 DEF Neat, Placed, Lined, CleanBut, Running
<1> QED
  BY <1>1, <1>3, <1>4, MovedInv

LEMMA DisableCachingInv == CacheInv /\ DisableCaching => CacheInv'
<1> SUFFICES ASSUME CacheInv, DisableCaching PROVE CacheInv'
  OBVIOUS
<1> DEFINE ob == [u \in Uuid |-> IF u \in ToSet(bin.queue) THEN Null ELSE bin.object[u]]
<1>1. /\ Neat(bin, Null) /\ Running /\ Toggles
      /\ bin' = [FlushCache(bin) EXCEPT !.caching = FALSE]
      /\ openedObject' \in Uuid \cup {Null}
      /\ UNCHANGED <<inTransaction, openedObject, created, changed, deleted, truth, committed>>
  BY DEF DisableCaching, CacheInv
<1>2. bin \in BinState
  BY <1>1 DEF Neat, Placed
<1>3. bin' = [bin EXCEPT !.object = ob, !.queue = << >>, !.caching = FALSE]
  BY <1>1 DEF FlushCache
<1>4. ob \in [Uuid -> Content \cup {Null}] /\ << >> \in Seq(Uuid)
  BY <1>2, EmptySeq DEF BinState
<1>5. \A u \in Uuid : ob[u] = Null \/ ob[u] = bin.object[u]
  OBVIOUS
<1> HIDE DEF ob
<1>6. /\ bin' \in BinState /\ bin'.caching = FALSE /\ bin'.queue = << >>
      /\ bin'.object = ob /\ bin'.dirty = bin.dirty /\ bin'.location = bin.location
      /\ bin'.position = bin.position
      /\ bin'.input = bin.input /\ bin'.scratch = bin.scratch /\ bin'.cursor = bin.cursor
      /\ bin'.fault = bin.fault
  BY <1>2, <1>3, <1>4 DEF BinState
<1>7. Placed(bin') /\ CleanBut(bin', Null)
  BY <1>1, <1>5, <1>6 DEF Neat, Placed, CleanBut, Running
<1>8. Lined(bin')
  <2>1. ToSet(bin'.queue) = {} /\ IsInjective(bin'.queue)
    BY <1>6, EmptySeq DEF ToSet, IsInjective
  <2> QED
    BY <1>1, <1>6, <2>1 DEF Lined
<1> QED
  BY <1>1, <1>6, <1>7, <1>8, MovedInv DEF Neat

LEMMA SaveInv == CacheInv /\ Save => CacheInv'
<1> SUFFICES ASSUME CacheInv, Save PROVE CacheInv'
  OBVIOUS
<1> DEFINE file == [u \in Uuid |-> Written(bin, u)]
<1>1. /\ Neat(bin, Null) /\ Running /\ ListsInv /\ ClearLists
      /\ committed' = truth' /\ truth' = truth
      /\ inTransaction' \in BOOLEAN /\ openedObject' \in Uuid \cup {Null}
  BY DEF Save, CacheInv, ClearLists
<1>2. CASE bin' = Fail(bin, "crash")
  <2>1. Neat(bin', Null) /\ Moved(bin, bin')
    BY <1>1, <1>2, FailIsNeat
  <2>2. Running' => \A u \in Uuid : bin'.location[u] # "none" => u \in DOMAIN truth'
    BY <1>1, <2>1 DEF Moved, ListsInv, Running
  <2> QED
    BY <1>1, <2>1, <2>2, ListsCleared DEF CacheInv
<1>3. CASE bin' = Opened(file, bin.caching, bin.limit)
  <2>1. bin \in BinState /\ Placed(bin) /\ Lined(bin)
    BY <1>1 DEF Neat, Placed, Running
  <2>2. IsFile(file)
    <3> SUFFICES ASSUME NEW u \in Uuid PROVE Written(bin, u) \in Content \cup {Null}
      BY DEF IsFile
    <3>1. /\ bin.object[u] \in Content \cup {Null} /\ bin.input[u] \in Content \cup {Null}
          /\ bin.scratch \in Seq(Content)
      BY <2>1 DEF BinState
    <3>2. bin.location[u] = "Scratch" => bin.scratch[bin.position[u]] \in Content
      BY <2>1, <3>1, LenProperties, ElementOfSeq DEF Placed
    <3> QED
      BY <3>1, <3>2 DEF Written
  <2>3. MayCache(bin.caching) /\ bin.limit \in Nat
    BY <2>1 DEF MayCache, Lined, BinState
  <2>4. \A u \in Uuid : bin.location[u] = "none" => file[u] = Null
    BY DEF Written
  <2> HIDE DEF file
  <2>5. IsOpened(bin', file)
    BY <1>3, <2>2, <2>3, OpenedNeat
  <2>6. \A u \in Uuid : bin'.location[u] # "none" => u \in DOMAIN truth'
    BY <1>1, <2>4, <2>5 DEF IsOpened, ListsInv
  <2> QED
    BY <1>1, <2>5, <2>6, ListsCleared DEF CacheInv, IsOpened
<1> QED
  BY <1>2, <1>3 DEF Save

LEMMA NextInv == CacheInv /\ [Next]_vars => CacheInv'
<1> SUFFICES ASSUME CacheInv, [Next]_vars PROVE CacheInv'
  OBVIOUS
<1>1. CASE UNCHANGED vars
  <2>1. /\ bin' = bin /\ inTransaction' = inTransaction /\ openedObject' = openedObject
        /\ created' = created /\ changed' = changed /\ deleted' = deleted
        /\ truth' = truth /\ committed' = committed
    BY <1>1 DEF vars
  <2>2. ListsInv => ListsInv'
    BY <2>1 DEF ListsInv, ChangesAreTyped, DeletedAreAside, Known
  <2>3. Neat(bin', Null)
    BY <2>1 DEF CacheInv
  <2> QED
    BY <2>1, <2>2, <2>3 DEF CacheInv, Running
<1>2. CASE BeginTransaction
  BY <1>2, BeginTransactionInv
<1>3. CASE CommitTransaction
  BY <1>3, CommitTransactionInv
<1>4. CASE AbortTransaction
  BY <1>4, AbortTransactionInv
<1>5. CASE \E u \in Uuid : OpenObject(u)
  BY <1>5, OpenObjectInv
<1>6. CASE \E u \in Uuid : CreateObject(u)
  BY <1>6, CreateObjectInv
<1>7. CASE CloseObject
  BY <1>7, CloseObjectInv
<1>8. CASE \E v \in Value : SetAttributeValue(v)
  BY <1>8, SetAttributeValueInv
<1>9. CASE \E t \in Uuid \cup {Null} : SetPointerValue(t)
  BY <1>9, SetPointerValueInv
<1>10. CASE DeleteObject
  BY <1>10, DeleteObjectInv
<1>11. CASE \E l \in Limits : SetCacheSize(l)
  BY <1>11, SetCacheSizeInv
<1>12. CASE DisableCaching
  BY <1>12, DisableCachingInv
<1>13. CASE EnableCaching
  BY <1>13, EnableCachingInv
<1>14. CASE Save
  BY <1>14, SaveInv
<1> QED
  BY <1>1, <1>2, <1>3, <1>4, <1>5, <1>6, <1>7, <1>8, <1>9, <1>10, <1>11, <1>12, <1>13, <1>14
  DEF Next

--------------------------------------------------------------------------------
(* The theorems.                                                           *)

LEMMA CacheInvariant == Spec => []CacheInv
<1>1. Init => CacheInv
  BY InitInv
<1>2. CacheInv /\ [Next]_vars => CacheInv'
  BY NextInv
<1> QED
  BY <1>1, <1>2, PTL DEF Spec

(* Whatever the calls, and even after one of them has failed, the index,   *)
(* the objects in memory and the two files fit together: the slot an       *)
(* object of the scratch file is said to have (_filePos, set by            *)
(* ObjectToFile) is a slot that has been written, and the position of the  *)
(* scratch file is never beyond its end.                                   *)
THEOREM TypeCorrect == Spec => []TypeOK
<1>1. CacheInv => TypeOK
  <2> SUFFICES ASSUME CacheInv PROVE TypeOK
    OBVIOUS
  <2>1. bin \in BinState /\ Placed(bin)
    BY DEF CacheInv, Neat, Placed
  <2>2. \A i \in DOMAIN bin.queue : bin.queue[i] \in Uuid
    <3>1. bin.queue \in Seq(Uuid)
      BY <2>1 DEF BinState
    <3> QED
      BY <3>1, LenProperties, ElementOfSeq
  <2> QED
    BY <2>1, <2>2 DEF TypeOK, BinState, Placed, Indexed, CacheInv
<1> QED
  BY <1>1, CacheInvariant, PTL

(* CheckCacheSize (Core/BinFile.cpp:1137) drops an object that is not      *)
(* marked dirty without writing it: at every moment such an object is the  *)
(* one the input file holds, through every eviction, change of a pointer,  *)
(* deletion, abort and save, whatever the cache size and even if caching   *)
(* is switched off and on.                                                 *)
THEOREM CleanObjectsAreSaved == Spec => []CleanIsSaved
<1>1. CacheInv => CleanIsSaved
  <2>1. CacheInv => (bin.fault = "none" => CleanBut(bin, Null))
    BY DEF CacheInv, Neat
  <2>2. Null \notin Uuid
    BY ConstantsAssumption
  <2> QED
    BY <2>1, <2>2 DEF CleanBut, CleanIsSaved, InMemory
<1> QED
  BY <1>1, CacheInvariant, PTL

(* Every object in memory is in the queue, once, and nothing else is: no   *)
(* object escapes eviction and none is evicted twice, although FetchObject *)
(* moves objects in the queue and an abort takes some out and puts others  *)
(* back.  Only for clients that leave caching on: EnableCaching starts     *)
(* with an empty queue, whatever is in memory.                             *)
THEOREM QueueListsMemory ==
  ASSUME ~Toggles
  PROVE  Spec => []QueueIsMemory
<1>1. CacheInv => QueueIsMemory
  <2> SUFFICES ASSUME CacheInv, bin.fault = "none"
               PROVE  ToSet(bin.queue) = InMemory /\ IsInjective(bin.queue)
    BY DEF QueueIsMemory
  <2>1. Lined(bin) /\ bin.queue \in Seq(Uuid)
    BY DEF CacheInv, Neat, Placed, BinState
  <2>2. ToSet(bin.queue) \subseteq Uuid
    BY <2>1, LenProperties, ElementOfSeq DEF ToSet
  <2> QED
    BY <2>1, <2>2 DEF Lined, InMemory
<1> QED
  BY <1>1, CacheInvariant, PTL

--------------------------------------------------------------------------------
(* The default cache: it has room for every object there can be, so none   *)
(* is ever written to the scratch file.                                    *)

Roomy == IsFiniteSet(Uuid) /\ Cardinality(Uuid) <= NoLimit /\ Null \notin Content

(* The storage s holds the objects of T, each in memory or in the input    *)
(* file, and nothing else.                                                 *)
InPlace(s, u, c) ==
  \/ s.location[u] = "Cache" /\ s.object[u] = c
  \/ s.location[u] = "Input" /\ s.object[u] = Null /\ s.input[u] = c

Holds(s, T) ==
  /\ Neat(s, Null) /\ s.fault = "none" /\ s.limit = NoLimit
  /\ DOMAIN T \subseteq Uuid /\ \A u \in DOMAIN T : T[u] \in Content
  /\ \A u \in DOMAIN T : InPlace(s, u, T[u])
  /\ \A u \in Uuid : u \notin DOMAIN T => s.location[u] = "none" /\ s.object[u] = Null

(* No object leaves memory. *)
Stays(s, t) == \A u \in Uuid : s.object[u] # Null => t.object[u] # Null

LEMMA QueueIsShort ==
  ASSUME Roomy, NEW s, NEW x, Neat(s, x), s.fault = "none", s.limit = NoLimit
  PROVE  Len(s.queue) <= s.limit
<1> DEFINE q == s.queue
           n == Len(q)
<1>1. q \in Seq(Uuid) /\ IsInjective(q)
  BY DEF Neat, Placed, Lined, BinState
<1>2. n \in Nat /\ q \in [1 .. n -> Uuid]
  BY <1>1, LenProperties
<1>3. q \in Injection(1 .. n, Uuid)
  BY <1>1, <1>2 DEF Injection
<1> HIDE DEF q, n
<1>4. IsFiniteSet(1 .. n) /\ Cardinality(1 .. n) <= Cardinality(Uuid)
  BY <1>3, FS_Injection DEF Roomy
<1>5. Cardinality(1 .. n) = n
  BY <1>2, FS_Interval
<1>6. Cardinality(Uuid) \in Nat /\ NoLimit \in Nat
  BY FS_CardinalityType, ConstantsAssumption DEF Roomy
<1> QED
  BY <1>2, <1>4, <1>5, <1>6 DEF Roomy, n, q

LEMMA NothingIsTrimmed ==
  ASSUME Roomy, NEW s, NEW x, Neat(s, x), s.fault = "none", s.limit = NoLimit
  PROVE  Trimmed(s) = s
<1>1. EvictBack(s) = s
  BY QueueIsShort DEF EvictBack
<1>2. s.queue \in Seq(Uuid)
  BY DEF Neat, Placed, BinState
<1> DEFINE V == {s}
<1>3. s \in V /\ \A t \in V : EvictBack(t) \in V
  BY <1>1
<1> HIDE DEF V
<1>4. CheckCacheSize(s) \in V
  BY <1>2, <1>3, CheckCacheSizeTurns
<1> QED
  BY <1>4 DEF V, Trimmed

(* An object read from the input file is in memory afterwards.             *)
LEMMA FromFileHolds ==
  ASSUME Roomy, NEW s, NEW T, Holds(s, T), NEW u \in DOMAIN T, s.location[u] = "Input",
         NEW t, t = FromFile(s, u, s.input[u])
  PROVE  Holds(t, T) /\ Stays(s, t) /\ t.object[u] # Null
<1> DEFINE d == FALSE
           c == s.input[u]
           p == PlaceIn(s, u, c, d, "Cache")
           r == InFront(p, u)
<1>1. /\ s \in BinState /\ s.cursor \in 1 .. Len(s.scratch) + 1
      /\ u \in Uuid /\ Neat(s, Null) /\ s.fault = "none" /\ s.limit = NoLimit
      /\ c = T[u] /\ T[u] \in Content /\ T[u] # Null
  BY DEF Neat, Placed, Holds, InPlace, Roomy
<1>2. t = Trimmed(r)
  BY DEF FromFile, PlaceIn
<1>d. d \in BOOLEAN
  OBVIOUS
<1>c. c = s.input[u] /\ c \in Content \cup {Null} /\ "Cache" \in {"none", "Input", "Cache", "Scratch"}
  BY <1>1
<1> HIDE DEF d, c
<1>q. p = PlaceIn(s, u, c, d, "Cache")
  OBVIOUS
<1> HIDE DEF p
<1>3. IsPlacedIn(s, p, u, c, d, "Cache") /\ p.queue = s.queue /\ p.cursor = s.cursor
  BY <1>1, <1>d, <1>c, <1>q, PlaceFields
<1>p. p \in BinState /\ SameFiles(s, p)
  BY <1>3 DEF IsPlacedIn
<1>4. /\ r \in BinState /\ r.queue = Queued(p, u)
      /\ r.object = p.object /\ r.dirty = p.dirty /\ r.location = p.location
      /\ r.position = p.position /\ r.caching = p.caching /\ r.limit = p.limit
      /\ r.input = p.input /\ r.scratch = p.scratch /\ r.cursor = p.cursor
      /\ r.fault = p.fault
  BY <1>1, <1>p, InFrontFields
<1> HIDE DEF r
<1>5. Queued(p, u) = Queued(s, u)
  BY <1>3, <1>p DEF Queued, SameFiles
<1>6. Neat(r, Null)
  <2>1. IsPlacedIn(s, r, u, c, d, "Cache")
    BY <1>3, <1>4 DEF IsPlacedIn, SameFiles
  <2>2. r.cursor \in 1 .. Len(r.scratch) + 1 /\ r.queue = Queued(s, u)
    BY <1>1, <1>3, <1>4, <1>5, <1>p DEF SameFiles
  <2>3. s.location[u] # "Cache" /\ (Null = Null \/ Null = u)
        /\ (Null = u \/ c = Null \/ d \/ c = s.input[u])
    BY <1>c
  <2> QED
    BY <1>1, <1>c, <1>d, <2>1, <2>2, <2>3, BroughtIn
<1>7. r.fault = "none" /\ r.limit = NoLimit /\ r.input = s.input
  BY <1>1, <1>4, <1>p DEF SameFiles
<1>8. t = r
  BY <1>2, <1>6, <1>7, NothingIsTrimmed
<1>9. /\ s.object \in [Uuid -> Content \cup {Null}]
      /\ s.location \in [Uuid -> {"none", "Input", "Cache", "Scratch"}]
  BY <1>1 DEF BinState
<1>10. /\ r.location[u] = "Cache" /\ r.object[u] = c
       /\ \A w \in Uuid : w # u => r.location[w] = s.location[w] /\ r.object[w] = s.object[w]
  BY <1>1, <1>3, <1>4, <1>9 DEF IsPlacedIn
<1>11. Holds(r, T)
  BY <1>1, <1>6, <1>7, <1>10 DEF Holds, InPlace
<1> QED
  BY <1>1, <1>8, <1>10, <1>11 DEF Stays

LEMMA FetchHolds ==
  ASSUME Roomy, NEW s, NEW T, Holds(s, T), NEW u \in Uuid,
         NEW t, t = FetchObject(s, u)
  PROVE  /\ Holds(t, T) /\ Stays(s, t)
         /\ u \in DOMAIN T => t.object[u] # Null
         /\ u \notin DOMAIN T => t = s
<1>1. CASE u \notin DOMAIN T
  <2>1. s.location[u] = "none"
    BY <1>1 DEF Holds
  <2>2. t = s
    BY <2>1 DEF FetchObject
  <2> QED
    BY <1>1, <2>2 DEF Stays
<1>2. CASE u \in DOMAIN T /\ s.location[u] = "Cache"
  <2>1. t = InFront(OutOfQueue(s, u), u) /\ Neat(s, Null) /\ s.fault = "none"
    BY <1>2 DEF FetchObject, Holds
  <2>2. /\ Neat(t, Null) /\ Moved(s, t)
        /\ t.object = s.object /\ t.location = s.location /\ t.input = s.input
        /\ t.fault = "none"
    BY <1>2, <2>1, RequeuedNeat
  <2>3. t.limit = s.limit /\ s.object[u] # Null
    BY <1>2, <2>2 DEF Moved, Holds, InPlace, Roomy
  <2> QED
    BY <1>2, <2>2, <2>3 DEF Holds, Stays, InPlace
<1>3. CASE u \in DOMAIN T /\ s.location[u] = "Input"
  <2>1. t = FromFile(s, u, s.input[u])
    BY <1>3 DEF FetchObject
  <2> QED
    BY <1>3, <2>1, FromFileHolds
<1> QED
  BY <1>1, <1>2, <1>3 DEF Holds, InPlace

LEMMA ModifyHolds ==
  ASSUME Roomy, NEW s, NEW T, Holds(s, T), NEW u \in Uuid, s.object[u] # Null,
         NEW c \in Content, NEW how \in {"assert", "crash", "freed"},
         NEW t, t = Modify(s, u, c, how)
  PROVE  /\ u \in DOMAIN T /\ T[u] = s.object[u]
         /\ Holds(t, [T EXCEPT ![u] = c]) /\ Stays(s, t)
<1>1. t = Rewritten(s, u, c) /\ s \in BinState /\ Neat(s, Null)
  BY DEF Modify, Rewritten, Holds, Neat, Placed
<1>2. /\ t \in BinState /\ SameFiles(s, t)
      /\ t.object = [s.object EXCEPT ![u] = c]
      /\ t.dirty = [s.dirty EXCEPT ![u] = TRUE]
      /\ t.location = s.location /\ t.queue = s.queue /\ t.cursor = s.cursor
  BY <1>1, RewrittenFields
<1>3. Neat(t, Null)
  BY <1>1, ModifyNeat
<1>4. u \in DOMAIN T /\ T[u] = s.object[u] /\ s.location[u] = "Cache"
  BY DEF Holds, InPlace
<1>5. s.object \in [Uuid -> Content \cup {Null}]
  BY <1>1 DEF BinState
<1>6. /\ t.object[u] = c /\ \A w \in Uuid : w # u => t.object[w] = s.object[w]
  BY <1>2, <1>5
<1> DEFINE R == [T EXCEPT ![u] = c]
<1>7. DOMAIN R = DOMAIN T /\ R[u] = c /\ \A w \in DOMAIN T : w # u => R[w] = T[w]
  BY <1>4
<1> HIDE DEF R
<1>8. Holds(t, R)
  BY <1>2, <1>3, <1>4, <1>6, <1>7 DEF Holds, InPlace, SameFiles
<1>9. Stays(s, t)
  BY <1>6 DEF Stays, Roomy
<1> QED
  BY <1>4, <1>8, <1>9 DEF R

--------------------------------------------------------------------------------
(* Pointers in the default cache.                                          *)

(* What UnlinkEnd and LinkEnd make of what is held. *)
NotBack(T, u, o) == [x \in DOMAIN T |-> IF x = o THEN [T[x] EXCEPT !.back = @ \ {u}] ELSE T[x]]
WithBack(T, u, o) == [x \in DOMAIN T |-> IF x = o THEN [T[x] EXCEPT !.back = @ \cup {u}] ELSE T[x]]
WithPtr(T, u, o) == [x \in DOMAIN T |-> IF x = u THEN [T[x] EXCEPT !.ptr = o] ELSE T[x]]

LEMMA RepointedInSteps ==
  ASSUME NEW T, \A x \in DOMAIN T : T[x] \in Content, NEW u \in DOMAIN T, NEW new,
         NEW R, R = WithPtr(WithBack(NotBack(T, u, T[u].ptr), u, new), u, new),
         u \in Uuid
  PROVE  R = Repointed(T, u, new)
<1> DEFINE A == NotBack(T, u, T[u].ptr)
           B == WithBack(A, u, new)
           old == T[u].ptr
<1>1. /\ DOMAIN A = DOMAIN T
      /\ \A x \in DOMAIN T :
           /\ A[x] \in Content /\ A[x].val = T[x].val /\ A[x].ptr = T[x].ptr
           /\ A[x].back = IF x = old THEN T[x].back \ {u} ELSE T[x].back
  BY DEF NotBack, Content
<1> HIDE DEF A
<1>2. /\ DOMAIN B = DOMAIN T
      /\ \A x \in DOMAIN T :
           /\ B[x] \in Content /\ B[x].val = A[x].val /\ B[x].ptr = A[x].ptr
           /\ B[x].back = IF x = new THEN A[x].back \cup {u} ELSE A[x].back
  BY <1>1 DEF WithBack, Content
<1>a. R = WithPtr(B, u, new)
  BY DEF A
<1> HIDE DEF B
<1>3. /\ DOMAIN R = DOMAIN T
      /\ \A x \in DOMAIN T :
           R[x] = [val |-> B[x].val, ptr |-> IF x = u THEN new ELSE B[x].ptr, back |-> B[x].back]
  <2> HIDE DEF old
  <2>1. /\ DOMAIN R = DOMAIN B
        /\ \A x \in DOMAIN B : R[x] = IF x = u THEN [B[x] EXCEPT !.ptr = new] ELSE B[x]
    BY <1>a DEF WithPtr
  <2>2. ASSUME NEW x \in DOMAIN T
        PROVE  R[x] = [val |-> B[x].val, ptr |-> IF x = u THEN new ELSE B[x].ptr,
                       back |-> B[x].back]
    <3>1. B[x] \in Content
      BY <1>2
    <3>2. /\ B[x] = [val |-> B[x].val, ptr |-> B[x].ptr, back |-> B[x].back]
          /\ [B[x] EXCEPT !.ptr = new]
               = [val |-> B[x].val, ptr |-> new, back |-> B[x].back]
      BY <3>1 DEF Content
    <3>3. R[x] = IF x = u THEN [B[x] EXCEPT !.ptr = new] ELSE B[x]
      BY <1>2, <2>1
    <3> QED
      BY <3>2, <3>3
  <2> QED
    BY <1>2, <2>1, <2>2
<1>4. ASSUME NEW x \in DOMAIN T
      PROVE  R[x] = Repointed(T, u, new)[x]
  <2>1. B[x].back = IF x = new THEN T[x].back \cup {u}
                    ELSE IF x = old THEN T[x].back \ {u} ELSE T[x].back
    BY <1>1, <1>2
  <2>2. /\ B[x].val = T[x].val /\ B[x].ptr = T[x].ptr
    BY <1>1, <1>2
  <2>3. Repointed(T, u, new)[x] =
          [val |-> T[x].val,
           ptr |-> IF x = u THEN new ELSE T[x].ptr,
           back |-> IF x = new THEN T[x].back \cup {u}
                    ELSE IF x = old THEN T[x].back \ {u} ELSE T[x].back]
    BY DEF Repointed
  <2> HIDE DEF old
  <2> QED
    BY <1>3, <2>1, <2>2, <2>3
<1>5. R = [x \in DOMAIN T |-> R[x]]
  <2>1. R = [x \in DOMAIN B |-> IF x = u THEN [B[x] EXCEPT !.ptr = new] ELSE B[x]]
    BY <1>a DEF WithPtr
  <2> QED
    BY <1>2, <2>1
<1>6. DOMAIN Repointed(T, u, new) = DOMAIN T
      /\ Repointed(T, u, new) = [x \in DOMAIN T |-> Repointed(T, u, new)[x]]
  BY DEF Repointed
<1> QED
  BY <1>4, <1>5, <1>6

LEMMA SameHeld ==
  ASSUME NEW s, NEW T, NEW R, Holds(s, T), DOMAIN R = DOMAIN T,
         \A x \in DOMAIN T : R[x] = T[x]
  PROVE  Holds(s, R)
BY DEF Holds

LEMMA FetchEndHolds ==
  ASSUME Roomy, NEW s, NEW T, Holds(s, T), NEW o \in DOMAIN T \cup {Null},
         NEW t, t = FetchEnd(s, o)
  PROVE  Holds(t, T) /\ Stays(s, t) /\ (o # Null => t.object[o] # Null)
<1>1. CASE o = Null
  BY <1>1 DEF FetchEnd, Stays
<1>2. CASE o # Null
  <2>1. o \in DOMAIN T /\ o \in Uuid /\ s.fault = "none"
    BY <1>2 DEF Holds
  <2>2. t = FetchObject(s, o)
    BY <1>2, <2>1 DEF FetchEnd
  <2> QED
    BY <2>1, <2>2, FetchHolds
<1> QED
  BY <1>1, <1>2

LEMMA UnlinkEndHolds ==
  ASSUME Roomy, NEW s, NEW T, Holds(s, T), NEW u \in Uuid, NEW o \in DOMAIN T \cup {Null},
         o # Null => s.object[o] # Null, NEW t, t = UnlinkEnd(s, u, o)
  PROVE  Holds(t, NotBack(T, u, o)) /\ Stays(s, t)
<1> DEFINE R == NotBack(T, u, o)
<1>1. CASE o = Null
  <2>1. t = s /\ o \notin DOMAIN T
    BY <1>1, ConstantsAssumption DEF UnlinkEnd, Holds
  <2>2. DOMAIN R = DOMAIN T /\ \A x \in DOMAIN T : R[x] = T[x]
    BY <2>1 DEF NotBack
  <2> QED
    BY <2>1, <2>2, SameHeld DEF Stays
<1>2. CASE o # Null
  <2> DEFINE c == Unlinked(s, u, o)
  <2>1. t = Modify(s, o, c, "assert") /\ o \in Uuid /\ o \in DOMAIN T /\ s.object[o] # Null
    BY <1>2 DEF UnlinkEnd, Holds
  <2>2. s.object[o] = T[o] /\ T[o] \in Content
    BY <2>1 DEF Holds, InPlace
  <2>3. c \in Content
    BY <2>2, BothEndsAreContent
  <2>4. c = [T[o] EXCEPT !.back = @ \ {u}]
    BY <2>2 DEF Unlinked
  <2> HIDE DEF c
  <2>5. Holds(t, [T EXCEPT ![o] = c]) /\ Stays(s, t)
    BY <2>1, <2>3, ModifyHolds
  <2>6. DOMAIN R = DOMAIN T /\ \A x \in DOMAIN T : R[x] = [T EXCEPT ![o] = c][x]
    BY <2>1, <2>4 DEF NotBack
  <2>7. DOMAIN [T EXCEPT ![o] = c] = DOMAIN T
    OBVIOUS
  <2> DEFINE Q == [T EXCEPT ![o] = c]
  <2> HIDE DEF Q, R
  <2> QED
    BY <2>5, <2>6, <2>7, SameHeld DEF Q, R
<1> QED
  BY <1>1, <1>2

LEMMA LinkEndHolds ==
  ASSUME Roomy, NEW s, NEW T, Holds(s, T), NEW u \in Uuid, NEW o \in DOMAIN T \cup {Null},
         o # Null => s.object[o] # Null, NEW t, t = LinkEnd(s, u, o)
  PROVE  Holds(t, WithBack(T, u, o)) /\ Stays(s, t)
<1> DEFINE R == WithBack(T, u, o)
<1>1. CASE o = Null
  <2>1. t = s /\ o \notin DOMAIN T
    BY <1>1, ConstantsAssumption DEF LinkEnd, Holds
  <2>2. DOMAIN R = DOMAIN T /\ \A x \in DOMAIN T : R[x] = T[x]
    BY <2>1 DEF WithBack
  <2> QED
    BY <2>1, <2>2, SameHeld DEF Stays
<1>2. CASE o # Null
  <2> DEFINE c == Linked(s, u, o)
  <2>1. t = Modify(s, o, c, "freed") /\ o \in Uuid /\ o \in DOMAIN T /\ s.object[o] # Null
    BY <1>2 DEF LinkEnd, Holds
  <2>2. s.object[o] = T[o] /\ T[o] \in Content
    BY <2>1 DEF Holds, InPlace
  <2>3. c \in Content
    BY <2>2, BothEndsAreContent
  <2>4. c = [T[o] EXCEPT !.back = @ \cup {u}]
    BY <2>2 DEF Linked
  <2> HIDE DEF c
  <2>5. Holds(t, [T EXCEPT ![o] = c]) /\ Stays(s, t)
    BY <2>1, <2>3, ModifyHolds
  <2>6. DOMAIN R = DOMAIN T /\ \A x \in DOMAIN T : R[x] = [T EXCEPT ![o] = c][x]
    BY <2>1, <2>4 DEF WithBack
  <2>7. DOMAIN [T EXCEPT ![o] = c] = DOMAIN T
    OBVIOUS
  <2> DEFINE Q == [T EXCEPT ![o] = c]
  <2> HIDE DEF Q, R
  <2> QED
    BY <2>5, <2>6, <2>7, SameHeld DEF Q, R
<1> QED
  BY <1>1, <1>2

(* The value set in u, the lists of the other ends changed with it.        *)
LEMMA MovePointerHolds ==
  ASSUME Roomy, NEW s, NEW T, Holds(s, T), NEW u \in Uuid, s.object[u] # Null,
         NEW new \in DOMAIN T \cup {Null}, T[u].ptr \in DOMAIN T \cup {Null},
         NEW t, t = MovePointer(s, u, new)
  PROVE  /\ u \in DOMAIN T
         /\ Holds(t, Repointed(T, u, new)) /\ Stays(s, t)
<1> DEFINE old == s.object[u].ptr
           s1 == FetchEnd(s, new)
           s2 == NewEnd(s1, new)
           s3 == FetchEnd(s2, old)
           s4 == UnlinkEnd(s3, u, old)
           s5 == LinkEnd(s4, u, new)
           A == NotBack(T, u, T[u].ptr)
           B == WithBack(A, u, new)
           C == WithPtr(B, u, new)
<1>1. u \in DOMAIN T /\ T[u] = s.object[u] /\ old = T[u].ptr /\ old \in DOMAIN T \cup {Null}
  BY DEF Holds, InPlace
<1>2. t = SetPointer(s5, u, new)
  <2>1. new = Null \/ FetchObject(s, new).object[u] # Null
    <3>1. CASE new # Null
      <4>1. new \in Uuid
        BY <3>1 DEF Holds
      <4>2. Stays(s, FetchObject(s, new))
        BY <4>1, FetchHolds
      <4> QED
        BY <4>2 DEF Stays
    <3> QED
      BY <3>1
  <2> QED
    BY <2>1 DEF MovePointer, PointerUpdate
<1> HIDE DEF old
<1>3. Holds(s1, T) /\ Stays(s, s1) /\ (new # Null => s1.object[new] # Null)
  BY FetchEndHolds
<1> HIDE DEF s1
<1>4. s2 = s1
  BY <1>3 DEF NewEnd
<1> HIDE DEF s2
<1>5. Holds(s3, T) /\ Stays(s1, s3) /\ (old # Null => s3.object[old] # Null)
  BY <1>1, <1>3, <1>4, FetchEndHolds
<1> HIDE DEF s3
<1>6. Holds(s4, A) /\ Stays(s3, s4)
  BY <1>1, <1>5, UnlinkEndHolds
<1>7. DOMAIN A = DOMAIN T
  BY DEF NotBack
<1> HIDE DEF s4, A
<1>8. new # Null => s4.object[new] # Null
  BY <1>3, <1>5, <1>6 DEF Stays, Holds
<1>9. Holds(s5, B) /\ Stays(s4, s5)
  BY <1>6, <1>7, <1>8, LinkEndHolds
<1>10. DOMAIN B = DOMAIN T
  BY <1>7 DEF WithBack
<1> HIDE DEF s5, B
<1>11. s5.object[u] # Null
  BY <1>3, <1>5, <1>6, <1>9 DEF Stays
<1> DEFINE c == [s5.object[u] EXCEPT !.ptr = new]
<1>12. t = Modify(s5, u, c, "freed")
  BY <1>2 DEF SetPointer
<1>13. s5.object[u] = B[u] /\ B[u] \in Content
  BY <1>1, <1>9, <1>10, <1>11 DEF Holds, InPlace
<1>14. new \in Uuid \cup {Null}
  BY DEF Holds
<1>15. c \in Content /\ c = [B[u] EXCEPT !.ptr = new]
  BY <1>13, <1>14 DEF Content
<1> HIDE DEF c
<1>16. Holds(t, [B EXCEPT ![u] = c]) /\ Stays(s5, t)
  BY <1>9, <1>11, <1>12, <1>15, ModifyHolds
<1>17. DOMAIN C = DOMAIN B /\ \A x \in DOMAIN B : C[x] = [B EXCEPT ![u] = c][x]
  BY <1>1, <1>10, <1>15 DEF WithPtr
<1>18. Holds(t, C)
  <2>1. DOMAIN [B EXCEPT ![u] = c] = DOMAIN B
    OBVIOUS
  <2> DEFINE Q == [B EXCEPT ![u] = c]
  <2> HIDE DEF Q, C
  <2> QED
    BY <1>16, <1>17, <2>1, SameHeld DEF Q
<1>19. C = Repointed(T, u, new)
  <2>1. C = WithPtr(WithBack(NotBack(T, u, T[u].ptr), u, new), u, new)
    BY DEF A, B
  <2> HIDE DEF C
  <2> QED
    BY <1>1, <2>1, RepointedInSteps DEF Holds
<1>20. Stays(s, t)
  BY <1>3, <1>5, <1>6, <1>9, <1>16 DEF Stays
<1> QED
  BY <1>1, <1>18, <1>19, <1>20

--------------------------------------------------------------------------------
(* What the lists of a transaction say of its objects.                     *)

(* Objects whose pointers and lists of pointers agree. *)
Mutual(T) ==
  /\ DOMAIN T \subseteq Uuid /\ \A u \in DOMAIN T : T[u] \in Content
  /\ \A t \in DOMAIN T : T[t].ptr \in DOMAIN T \cup {Null}
  /\ \A t \in DOMAIN T : \A x \in Uuid : x \in T[t].back <=> x \in DOMAIN T /\ T[x].ptr = t

(* The three fields make the object. *)
LEMMA SameContent ==
  ASSUME NEW c \in Content, NEW d \in Content, c.val = d.val, c.ptr = d.ptr, c.back = d.back
  PROVE  c = d
BY DEF Content

Objects(T) == DOMAIN T \subseteq Uuid /\ \A x \in DOMAIN T : T[x] \in Content

(* R is T with the pointer of u set to new. *)
IsRepointed(R, T, u, new) ==
  /\ DOMAIN R = DOMAIN T
  /\ \A x \in DOMAIN T :
       /\ R[x] \in Content /\ R[x].val = T[x].val
       /\ R[x].ptr = IF x = u THEN new ELSE T[x].ptr
       /\ R[x].back = IF x = new THEN T[x].back \cup {u}
                      ELSE IF x = T[u].ptr THEN T[x].back \ {u} ELSE T[x].back

LEMMA RepointedFields ==
  ASSUME NEW T, Objects(T), NEW u \in DOMAIN T, NEW new \in DOMAIN T \cup {Null},
         NEW R, R = Repointed(T, u, new)
  PROVE  IsRepointed(R, T, u, new)
BY DEF Repointed, Content, Objects, IsRepointed

LEMMA RepointedMutual ==
  ASSUME NEW T, Mutual(T), NEW u \in DOMAIN T, NEW new \in DOMAIN T \cup {Null},
         NEW R, R = Repointed(T, u, new)
  PROVE  Mutual(R)
<1>1. /\ DOMAIN T \subseteq Uuid /\ \A x \in DOMAIN T : T[x] \in Content
      /\ \A t \in DOMAIN T : T[t].ptr \in DOMAIN T \cup {Null}
      /\ \A t \in DOMAIN T : \A x \in Uuid : x \in T[t].back <=> x \in DOMAIN T /\ T[x].ptr = t
  BY DEF Mutual
<1>2. /\ DOMAIN R = DOMAIN T
      /\ \A x \in DOMAIN T :
           /\ R[x] \in Content /\ R[x].val = T[x].val
           /\ R[x].ptr = IF x = u THEN new ELSE T[x].ptr
           /\ R[x].back = IF x = new THEN T[x].back \cup {u}
                          ELSE IF x = T[u].ptr THEN T[x].back \ {u} ELSE T[x].back
  <2>1. Objects(T)
    BY <1>1 DEF Objects
  <2>2. IsRepointed(R, T, u, new)
    BY <2>1, RepointedFields
  <2> QED
    BY <2>2 DEF IsRepointed
<1>3. \A t \in DOMAIN R : R[t].ptr \in DOMAIN R \cup {Null}
  BY <1>1, <1>2
<1>4. ASSUME NEW t \in DOMAIN R, NEW x \in Uuid
      PROVE  x \in R[t].back <=> x \in DOMAIN R /\ R[x].ptr = t
  <2>1. x \in T[t].back <=> x \in DOMAIN T /\ T[x].ptr = t
    BY <1>1, <1>2
  <2>2. R[t].back = IF t = new THEN T[t].back \cup {u}
                    ELSE IF t = T[u].ptr THEN T[t].back \ {u} ELSE T[t].back
    BY <1>2
  <2>3. x \in DOMAIN T => R[x].ptr = IF x = u THEN new ELSE T[x].ptr
    BY <1>2
  <2>4. u \in T[t].back <=> T[u].ptr = t
    BY <1>1, <1>2
  <2>5. CASE x = u
    BY <1>2, <2>2, <2>3, <2>4, <2>5
  <2>6. CASE x # u
    BY <1>2, <2>1, <2>2, <2>3, <2>6
  <2> QED
    BY <2>5, <2>6
<1> QED
  BY <1>1, <1>2, <1>3, <1>4 DEF Mutual

(* An object at the start of the transaction: it is new if it was not there. *)
Start(C, u) == IF u \in DOMAIN C THEN C[u] ELSE Blank

(* W are the objects of the transaction, the deleted ones (de) included,   *)
(* T those that are not deleted, C those there were at its start.  Those   *)
(* that are in W only have been created (cr), and a field that differs     *)
(* from its value at the start has a record in ch, which holds that value. *)
Accounted(W, T, C, cr, ch, de) ==
  /\ Mutual(C) /\ Mutual(W)
  /\ DOMAIN W = DOMAIN C \cup ToSet(cr) /\ ToSet(cr) \cap DOMAIN C = {} /\ IsInjective(cr)
  /\ DOMAIN T \subseteq DOMAIN W /\ \A u \in DOMAIN T : T[u] = W[u]
  /\ \A u \in DOMAIN W : u \in DOMAIN T \/ \E i \in DOMAIN de : de[i].uuid = u
  /\ \A i \in DOMAIN de : /\ de[i].uuid \in DOMAIN W \ DOMAIN T
                          /\ de[i].object = W[de[i].uuid]
                          /\ de[i].object.ptr = Null /\ de[i].object.back = {}
  /\ DOMAIN ch \subseteq (DOMAIN W) \X {"val", "ptr"}
  /\ \A u \in DOMAIN W :
       /\ IF <<u, "val">> \in DOMAIN ch THEN ch[<<u, "val">>] = Start(C, u).val
          ELSE W[u].val = Start(C, u).val
       /\ IF <<u, "ptr">> \in DOMAIN ch THEN ch[<<u, "ptr">>] = Start(C, u).ptr
          ELSE W[u].ptr = Start(C, u).ptr

LEMMA KeyOf ==
  ASSUME NEW S, NEW u \in S
  PROVE  <<u, "val">> \in S \X {"val", "ptr"} /\ <<u, "ptr">> \in S \X {"val", "ptr"}
OBVIOUS

LEMMA AccountedMutual ==
  ASSUME NEW W, NEW T, NEW C, NEW cr, NEW ch, NEW de, Accounted(W, T, C, cr, ch, de)
  PROVE  Mutual(T)
<1>1. /\ Mutual(W) /\ DOMAIN T \subseteq DOMAIN W /\ \A u \in DOMAIN T : T[u] = W[u]
      /\ \A u \in DOMAIN W : u \in DOMAIN T \/ \E i \in DOMAIN de : de[i].uuid = u
      /\ \A i \in DOMAIN de : /\ de[i].object = W[de[i].uuid]
                              /\ de[i].object.ptr = Null /\ de[i].object.back = {}
  BY DEF Accounted
<1>2. \A u \in DOMAIN W : u \in DOMAIN T \/ (W[u].ptr = Null /\ W[u].back = {})
  BY <1>1
<1>3. Null \notin Uuid
  BY ConstantsAssumption
<1>4. DOMAIN T \subseteq Uuid /\ \A u \in DOMAIN T : T[u] \in Content
  BY <1>1 DEF Mutual
<1>5. \A t \in DOMAIN T : T[t].ptr \in DOMAIN T \cup {Null}
  BY <1>1, <1>2, <1>4 DEF Mutual
<1>6. \A t \in DOMAIN T : \A x \in Uuid : x \in T[t].back <=> x \in DOMAIN T /\ T[x].ptr = t
  BY <1>1, <1>2, <1>3, <1>4 DEF Mutual
<1> QED
  BY <1>4, <1>5, <1>6 DEF Mutual

LEMMA AccountedAfresh ==
  ASSUME NEW T, Mutual(T)
  PROVE  Accounted(T, T, T, << >>, NoFunction, << >>)
<1>1. ToSet(<< >>) = {} /\ IsInjective(<< >>) /\ DOMAIN << >> = {}
  BY EmptySeq DEF ToSet, IsInjective
<1>2. DOMAIN NoFunction = {}
  BY DEF NoFunction
<1> DEFINE e == << >>
           f == NoFunction
<1>a. ToSet(e) = {} /\ IsInjective(e) /\ DOMAIN e = {} /\ DOMAIN f = {}
  BY <1>1, <1>2
<1> HIDE DEF e, f
<1>3. Accounted(T, T, T, e, f, e)
  BY <1>a DEF Accounted, Start
<1> QED
  BY <1>3 DEF e, f

(* The first change of a field is recorded. *)
Recorded(ch, ch2, k, old) ==
  /\ DOMAIN ch2 = DOMAIN ch \cup {k}
  /\ \A x \in DOMAIN ch2 : ch2[x] = IF x \in DOMAIN ch THEN ch[x] ELSE old

LEMMA RecordIsRecorded ==
  ASSUME NEW k, NEW old, Record(k, old)
  PROVE  Recorded(changed, changed', k, old)
BY DEF Record, Recorded

(* What becomes of T when a value is set in u, or u is created. *)
ValueSet(T2, T, u, v) == T2 = [T EXCEPT ![u].val = v]
WithBlank(T2, T, u) == T2 = [x \in DOMAIN T \cup {u} |-> IF x = u THEN Blank ELSE T[x]]

LEMMA AccountedValue ==
  ASSUME NEW W, NEW T, NEW C, NEW cr, NEW ch, NEW de, Accounted(W, T, C, cr, ch, de),
         NEW u \in DOMAIN T, NEW v \in Value, NEW ch2,
         Recorded(ch, ch2, <<u, "val">>, T[u].val),
         NEW T2, ValueSet(T2, T, u, v)
  PROVE  \E V : Accounted(V, T2, C, cr, ch2, de)
<1> DEFINE V == [W EXCEPT ![u].val = v]
<1>1. /\ u \in DOMAIN W /\ T[u] = W[u] /\ W[u] \in Content /\ Mutual(W)
      /\ DOMAIN T \subseteq DOMAIN W /\ \A x \in DOMAIN W : W[x] \in Content
      /\ \A x \in DOMAIN T : T[x] = W[x]
  BY DEF Accounted, Mutual
<1>2. /\ DOMAIN V = DOMAIN W /\ \A x \in DOMAIN W : x # u => V[x] = W[x]
      /\ V[u] \in Content /\ V[u].val = v /\ V[u].ptr = W[u].ptr /\ V[u].back = W[u].back
  BY <1>1 DEF Content
<1>3. DOMAIN T2 = DOMAIN T /\ \A x \in DOMAIN T : T2[x] = V[x]
  BY <1>1 DEF ValueSet
<1> HIDE DEF V
<1>4. Mutual(V)
  <2>1. \A x \in DOMAIN W : V[x] \in Content /\ V[x].ptr = W[x].ptr /\ V[x].back = W[x].back
    BY <1>1, <1>2
  <2> QED
    BY <1>1, <1>2, <2>1 DEF Mutual
<1> DEFINE k == <<u, "val">>
<1>5. /\ DOMAIN ch2 = DOMAIN ch \cup {k}
      /\ \A x \in DOMAIN ch2 : ch2[x] = IF x \in DOMAIN ch THEN ch[x] ELSE W[u].val
  BY <1>1 DEF Recorded
<1>6. DOMAIN ch2 \subseteq (DOMAIN V) \X {"val", "ptr"}
  <2> DEFINE D == (DOMAIN W) \X {"val", "ptr"}
  <2>1. k \in D
    BY <1>1, KeyOf
  <2>2. DOMAIN ch \subseteq D
    BY DEF Accounted
  <2>a. DOMAIN V = DOMAIN W
    BY <1>2
  <2>3. (DOMAIN V) \X {"val", "ptr"} = D
    BY <2>a
  <2> HIDE DEF k, D
  <2>4. DOMAIN ch2 \subseteq D
    BY <1>5, <2>1, <2>2
  <2> QED
    BY <2>3, <2>4
<1>7. \A x \in DOMAIN W :
        /\ IF <<x, "val">> \in DOMAIN ch THEN ch[<<x, "val">>] = Start(C, x).val
           ELSE W[x].val = Start(C, x).val
        /\ IF <<x, "ptr">> \in DOMAIN ch THEN ch[<<x, "ptr">>] = Start(C, x).ptr
           ELSE W[x].ptr = Start(C, x).ptr
  BY DEF Accounted
<1>8. ASSUME NEW x \in DOMAIN W
      PROVE  /\ IF <<x, "val">> \in DOMAIN ch2 THEN ch2[<<x, "val">>] = Start(C, x).val
                ELSE V[x].val = Start(C, x).val
             /\ IF <<x, "ptr">> \in DOMAIN ch2 THEN ch2[<<x, "ptr">>] = Start(C, x).ptr
                ELSE V[x].ptr = Start(C, x).ptr
  <2>1. <<x, "ptr">> # k /\ (<<x, "val">> = k <=> x = u)
    OBVIOUS
  <2> HIDE DEF k
  <2>2. V[x].ptr = W[x].ptr /\ (x # u => V[x].val = W[x].val)
    BY <1>2
  <2>3. CASE x = u
    BY <1>5, <1>7, <2>1, <2>2, <2>3
  <2>4. CASE x # u
    BY <1>5, <1>7, <2>1, <2>2, <2>4
  <2> QED
    BY <2>3, <2>4
<1>9. \A i \in DOMAIN de : /\ de[i].uuid \in DOMAIN V \ DOMAIN T2
                           /\ de[i].object = V[de[i].uuid]
                           /\ de[i].object.ptr = Null /\ de[i].object.back = {}
  BY <1>1, <1>2, <1>3 DEF Accounted
<1>10. /\ Mutual(C)
       /\ DOMAIN V = DOMAIN C \cup ToSet(cr) /\ ToSet(cr) \cap DOMAIN C = {} /\ IsInjective(cr)
       /\ DOMAIN T2 \subseteq DOMAIN V
       /\ \A x \in DOMAIN V : x \in DOMAIN T2 \/ \E i \in DOMAIN de : de[i].uuid = x
  BY <1>2, <1>3 DEF Accounted
<1>11. Accounted(V, T2, C, cr, ch2, de)
  <2> HIDE DEF k
  <2> QED
    BY <1>2, <1>3, <1>4, <1>6, <1>8, <1>9, <1>10 DEF Accounted
<1> QED
  BY <1>11

LEMMA AccountedPointer ==
  ASSUME NEW W, NEW T, NEW C, NEW cr, NEW ch, NEW de, Accounted(W, T, C, cr, ch, de),
         NEW u \in DOMAIN T, NEW new \in DOMAIN T \cup {Null}, NEW ch2,
         Recorded(ch, ch2, <<u, "ptr">>, T[u].ptr),
         NEW T2, T2 = Repointed(T, u, new)
  PROVE  Accounted(Repointed(W, u, new), T2, C, cr, ch2, de)
<1> DEFINE V == Repointed(W, u, new)
<1>1. /\ u \in DOMAIN W /\ T[u] = W[u] /\ W[u] \in Content /\ Mutual(W)
      /\ DOMAIN T \subseteq DOMAIN W /\ \A x \in DOMAIN W : W[x] \in Content
      /\ \A x \in DOMAIN T : T[x] = W[x]
      /\ new \in DOMAIN W \cup {Null} /\ DOMAIN W \subseteq Uuid
  BY DEF Accounted, Mutual
<1>2. /\ DOMAIN V = DOMAIN W
      /\ \A x \in DOMAIN W :
           /\ V[x] \in Content /\ V[x].val = W[x].val
           /\ V[x].ptr = IF x = u THEN new ELSE W[x].ptr
           /\ V[x].back = IF x = new THEN W[x].back \cup {u}
                          ELSE IF x = W[u].ptr THEN W[x].back \ {u} ELSE W[x].back
  <2>1. Objects(W) /\ u \in DOMAIN W /\ new \in DOMAIN W \cup {Null}
    BY <1>1 DEF Objects
  <2>2. V = Repointed(W, u, new)
    OBVIOUS
  <2> HIDE DEF V
  <2>3. IsRepointed(V, W, u, new)
    BY <2>1, <2>2, RepointedFields
  <2> QED
    BY <2>3 DEF IsRepointed
<1>3. DOMAIN T2 = DOMAIN T /\ \A x \in DOMAIN T : T2[x] = V[x]
  BY <1>1 DEF Repointed
<1>4. Mutual(V)
  BY <1>1, RepointedMutual
<1>v. V = Repointed(W, u, new)
  OBVIOUS
<1> HIDE DEF V
<1> DEFINE k == <<u, "ptr">>
<1>5. /\ DOMAIN ch2 = DOMAIN ch \cup {k}
      /\ \A x \in DOMAIN ch2 : ch2[x] = IF x \in DOMAIN ch THEN ch[x] ELSE W[u].ptr
  BY <1>1 DEF Recorded
<1>6. DOMAIN ch2 \subseteq (DOMAIN V) \X {"val", "ptr"}
  <2> DEFINE D == (DOMAIN W) \X {"val", "ptr"}
  <2>1. k \in D
    BY <1>1, KeyOf
  <2>2. DOMAIN ch \subseteq D
    BY DEF Accounted
  <2>a. DOMAIN V = DOMAIN W
    BY <1>2
  <2>3. (DOMAIN V) \X {"val", "ptr"} = D
    BY <2>a
  <2> HIDE DEF k, D
  <2>4. DOMAIN ch2 \subseteq D
    BY <1>5, <2>1, <2>2
  <2> QED
    BY <2>3, <2>4
<1>7. \A x \in DOMAIN W :
        /\ IF <<x, "val">> \in DOMAIN ch THEN ch[<<x, "val">>] = Start(C, x).val
           ELSE W[x].val = Start(C, x).val
        /\ IF <<x, "ptr">> \in DOMAIN ch THEN ch[<<x, "ptr">>] = Start(C, x).ptr
           ELSE W[x].ptr = Start(C, x).ptr
  BY DEF Accounted
<1>8. ASSUME NEW x \in DOMAIN W
      PROVE  /\ IF <<x, "val">> \in DOMAIN ch2 THEN ch2[<<x, "val">>] = Start(C, x).val
                ELSE V[x].val = Start(C, x).val
             /\ IF <<x, "ptr">> \in DOMAIN ch2 THEN ch2[<<x, "ptr">>] = Start(C, x).ptr
                ELSE V[x].ptr = Start(C, x).ptr
  <2>1. <<x, "val">> # k /\ (<<x, "ptr">> = k <=> x = u)
    OBVIOUS
  <2> HIDE DEF k
  <2>2. V[x].val = W[x].val /\ (x # u => V[x].ptr = W[x].ptr)
    BY <1>2
  <2>3. CASE x = u
    BY <1>5, <1>7, <2>1, <2>2, <2>3
  <2>4. CASE x # u
    BY <1>5, <1>7, <2>1, <2>2, <2>4
  <2> QED
    BY <2>3, <2>4
<1>9. ASSUME NEW i \in DOMAIN de
      PROVE  /\ de[i].uuid \in DOMAIN V \ DOMAIN T2
             /\ de[i].object = V[de[i].uuid]
             /\ de[i].object.ptr = Null /\ de[i].object.back = {}
  <2> DEFINE x == de[i].uuid
  <2>1. /\ x \in DOMAIN W \ DOMAIN T /\ de[i].object = W[x]
        /\ W[x].ptr = Null /\ W[x].back = {}
    BY DEF Accounted
  <2> HIDE DEF x
  <2>2. x # u /\ x # new
    BY <1>1, <2>1, ConstantsAssumption
  <2>3. x # W[u].ptr
    BY <1>1, <2>1 DEF Mutual
  <2>4. V[x] \in Content /\ V[x].val = W[x].val /\ V[x].ptr = W[x].ptr /\ V[x].back = W[x].back
    BY <1>2, <2>1, <2>2, <2>3
  <2>5. V[x] = W[x]
    BY <1>1, <2>1, <2>4, SameContent
  <2> QED
    BY <1>2, <1>3, <2>1, <2>5 DEF x
<1>10. /\ Mutual(C)
       /\ DOMAIN V = DOMAIN C \cup ToSet(cr) /\ ToSet(cr) \cap DOMAIN C = {} /\ IsInjective(cr)
       /\ DOMAIN T2 \subseteq DOMAIN V
       /\ \A x \in DOMAIN V : x \in DOMAIN T2 \/ \E i \in DOMAIN de : de[i].uuid = x
  BY <1>2, <1>3 DEF Accounted
<1>11. Accounted(V, T2, C, cr, ch2, de)
  <2> HIDE DEF k
  <2> QED
    BY <1>2, <1>3, <1>4, <1>6, <1>8, <1>9, <1>10 DEF Accounted
<1> QED
  BY <1>11, <1>v

(* One more object put aside. *)
WithOneMore(q, q2, e) ==
  /\ \E i \in DOMAIN q2 : q2[i] = e
  /\ \A j \in DOMAIN q : \E i \in DOMAIN q2 : q2[i] = q[j]
  /\ \A i \in DOMAIN q2 : q2[i] = e \/ \E j \in DOMAIN q : q2[i] = q[j]

LEMMA OneMoreInFront ==
  ASSUME NEW S, NEW q \in Seq(S), NEW e \in S, NEW r, r = <<e>> \o q
  PROVE  WithOneMore(q, r, e)
<1>1. Len(q) \in Nat /\ DOMAIN q = 1 .. Len(q) /\ <<e>> \in Seq(S) /\ Len(<<e>>) = 1
  BY LenProperties
<1>2. r \in Seq(S) /\ Len(r) = 1 + Len(q) /\ DOMAIN r = 1 .. Len(r)
  BY <1>1, ConcatProperties, LenProperties
<1>3. \A i \in 1 .. Len(r) : r[i] = IF i <= 1 THEN <<e>>[i] ELSE q[i - 1]
  BY <1>1, <1>2, ConcatProperties
<1>4. 1 \in DOMAIN r /\ r[1] = e
  BY <1>1, <1>2, <1>3
<1>5. ASSUME NEW j \in DOMAIN q PROVE j + 1 \in DOMAIN r /\ r[j + 1] = q[j]
  BY <1>1, <1>2, <1>3
<1>6. ASSUME NEW i \in DOMAIN r, i # 1 PROVE i - 1 \in DOMAIN q /\ r[i] = q[i - 1]
  BY <1>1, <1>2, <1>3, <1>6
<1>7. \A i \in DOMAIN r : r[i] = e \/ \E j \in DOMAIN q : r[i] = q[j]
  BY <1>4, <1>6
<1>8. \A j \in DOMAIN q : \E i \in DOMAIN r : r[i] = q[j]
  BY <1>5
<1> QED
  BY <1>4, <1>7, <1>8 DEF WithOneMore

LEMMA AccountedDeletion ==
  ASSUME NEW W, NEW T, NEW C, NEW cr, NEW ch, NEW de, Accounted(W, T, C, cr, ch, de),
         NEW u \in DOMAIN T, T[u].ptr = Null, T[u].back = {},
         NEW d, d.uuid = u, d.object = T[u], NEW de2, WithOneMore(de, de2, d),
         NEW T2, DOMAIN T2 = DOMAIN T \ {u}, \A x \in DOMAIN T2 : T2[x] = T[x]
  PROVE  Accounted(W, T2, C, cr, ch, de2)
<1>1. /\ DOMAIN T \subseteq DOMAIN W /\ \A x \in DOMAIN T : T[x] = W[x]
      /\ \A x \in DOMAIN W : x \in DOMAIN T \/ \E i \in DOMAIN de : de[i].uuid = x
      /\ \A i \in DOMAIN de : /\ de[i].uuid \in DOMAIN W \ DOMAIN T
                              /\ de[i].object = W[de[i].uuid]
                              /\ de[i].object.ptr = Null /\ de[i].object.back = {}
  BY DEF Accounted
<1>2. /\ \E i \in DOMAIN de2 : de2[i] = d
      /\ \A j \in DOMAIN de : \E i \in DOMAIN de2 : de2[i] = de[j]
      /\ \A i \in DOMAIN de2 : de2[i] = d \/ \E j \in DOMAIN de : de2[i] = de[j]
  BY DEF WithOneMore
<1>3. DOMAIN T2 \subseteq DOMAIN W /\ \A x \in DOMAIN T2 : T2[x] = W[x]
  BY <1>1
<1>4. \A x \in DOMAIN W : x \in DOMAIN T2 \/ \E i \in DOMAIN de2 : de2[i].uuid = x
  BY <1>1, <1>2
<1>5. \A i \in DOMAIN de2 : /\ de2[i].uuid \in DOMAIN W \ DOMAIN T2
                            /\ de2[i].object = W[de2[i].uuid]
                            /\ de2[i].object.ptr = Null /\ de2[i].object.back = {}
  BY <1>1, <1>2
<1> QED
  BY <1>3, <1>4, <1>5 DEF Accounted

LEMMA AccountedCreation ==
  ASSUME NEW W, NEW T, NEW C, NEW cr, NEW ch, NEW de, Accounted(W, T, C, cr, ch, de),
         NEW u \in Uuid, u \notin DOMAIN W,
         NEW cr2, ToSet(cr2) = ToSet(cr) \cup {u}, IsInjective(cr2),
         NEW T2, WithBlank(T2, T, u)
  PROVE  \E V : Accounted(V, T2, C, cr2, ch, de)
<1> DEFINE V == [x \in DOMAIN W \cup {u} |-> IF x = u THEN Blank ELSE W[x]]
<1>1. /\ DOMAIN T \subseteq DOMAIN W /\ \A x \in DOMAIN T : T[x] = W[x]
      /\ Mutual(W) /\ Mutual(C) /\ DOMAIN W = DOMAIN C \cup ToSet(cr)
      /\ ToSet(cr) \cap DOMAIN C = {}
      /\ \A x \in DOMAIN W : x \in DOMAIN T \/ \E i \in DOMAIN de : de[i].uuid = x
      /\ \A i \in DOMAIN de : /\ de[i].uuid \in DOMAIN W \ DOMAIN T
                              /\ de[i].object = W[de[i].uuid]
                              /\ de[i].object.ptr = Null /\ de[i].object.back = {}
      /\ DOMAIN ch \subseteq (DOMAIN W) \X {"val", "ptr"}
  BY DEF Accounted
<1>2. /\ DOMAIN V = DOMAIN W \cup {u} /\ V[u] = Blank
      /\ \A x \in DOMAIN W : V[x] = W[x]
  OBVIOUS
<1>3. DOMAIN T2 = DOMAIN T \cup {u} /\ \A x \in DOMAIN T2 : T2[x] = V[x]
  BY <1>1 DEF WithBlank
<1> HIDE DEF V
<1>4. Blank \in Content /\ Blank.ptr = Null /\ Blank.back = {} /\ u # Null
  BY BlankIsContent, ConstantsAssumption DEF Blank
<1>5. Mutual(V)
  <2>1. /\ DOMAIN W \subseteq Uuid /\ \A x \in DOMAIN W : W[x] \in Content
        /\ \A t \in DOMAIN W : W[t].ptr \in DOMAIN W \cup {Null}
        /\ \A t \in DOMAIN W : \A x \in Uuid : x \in W[t].back <=> x \in DOMAIN W /\ W[x].ptr = t
    BY <1>1 DEF Mutual
  <2>2. DOMAIN V \subseteq Uuid /\ \A x \in DOMAIN V : V[x] \in Content
    BY <1>2, <1>4, <2>1
  <2>3. \A t \in DOMAIN V : V[t].ptr \in DOMAIN V \cup {Null}
    BY <1>2, <1>4, <2>1
  <2>4. ASSUME NEW t \in DOMAIN V, NEW x \in Uuid
        PROVE  x \in V[t].back <=> x \in DOMAIN V /\ V[x].ptr = t
    <3>1. CASE t = u
      BY <1>2, <1>4, <2>1, <3>1
    <3>2. CASE t # u
      <4>1. t \in DOMAIN W /\ V[t] = W[t] /\ t # Null
        BY <1>2, <2>1, <3>2, ConstantsAssumption
      <4> QED
        BY <1>2, <1>4, <2>1, <4>1
    <3> QED
      BY <3>1, <3>2
  <2> QED
    BY <2>2, <2>3, <2>4 DEF Mutual
<1>6. /\ <<u, "val">> \notin DOMAIN ch /\ <<u, "ptr">> \notin DOMAIN ch
      /\ Start(C, u) = Blank
  BY <1>1 DEF Start
<1>7. ASSUME NEW x \in DOMAIN V
      PROVE  /\ IF <<x, "val">> \in DOMAIN ch THEN ch[<<x, "val">>] = Start(C, x).val
                ELSE V[x].val = Start(C, x).val
             /\ IF <<x, "ptr">> \in DOMAIN ch THEN ch[<<x, "ptr">>] = Start(C, x).ptr
                ELSE V[x].ptr = Start(C, x).ptr
  <2>1. CASE x = u
    BY <1>2, <1>6, <2>1
  <2>2. CASE x # u
    <3>1. x \in DOMAIN W /\ V[x] = W[x]
      BY <1>2, <2>2
    <3> QED
      BY <3>1 DEF Accounted
  <2> QED
    BY <2>1, <2>2
<1>8. DOMAIN ch \subseteq (DOMAIN V) \X {"val", "ptr"}
  BY <1>1, <1>2
<1>9. /\ DOMAIN V = DOMAIN C \cup ToSet(cr2) /\ ToSet(cr2) \cap DOMAIN C = {}
      /\ DOMAIN T2 \subseteq DOMAIN V
      /\ \A x \in DOMAIN V : x \in DOMAIN T2 \/ \E i \in DOMAIN de : de[i].uuid = x
  BY <1>1, <1>2, <1>3
<1>10. \A i \in DOMAIN de : /\ de[i].uuid \in DOMAIN V \ DOMAIN T2
                            /\ de[i].object = V[de[i].uuid]
                            /\ de[i].object.ptr = Null /\ de[i].object.back = {}
  BY <1>1, <1>2, <1>3
<1>11. Accounted(V, T2, C, cr2, ch, de)
  BY <1>1, <1>3, <1>5, <1>7, <1>8, <1>9, <1>10 DEF Accounted
<1> QED
  BY <1>11

--------------------------------------------------------------------------------
(* What the changes rolled back leave.                                     *)

(* The objects W with the fields of the keys K as they were at the start. *)
Rolled(R, W, C, K) ==
  /\ DOMAIN R = DOMAIN W /\ Mutual(R)
  /\ \A u \in DOMAIN W :
       /\ R[u].val = IF <<u, "val">> \in K THEN Start(C, u).val ELSE W[u].val
       /\ R[u].ptr = IF <<u, "ptr">> \in K THEN Start(C, u).ptr ELSE W[u].ptr

LEMMA RolledValue ==
  ASSUME NEW R, NEW W, NEW C, NEW K, Rolled(R, W, C, K), NEW u \in DOMAIN W,
         Start(C, u).val \in Value,
         NEW c, c = [R[u] EXCEPT !.val = Start(C, u).val], NEW Q, Q = [R EXCEPT ![u] = c]
  PROVE  Rolled(Q, W, C, K \cup {<<u, "val">>})
<1>1. /\ DOMAIN R = DOMAIN W /\ Mutual(R) /\ R[u] \in Content
      /\ \A x \in DOMAIN W : R[x] \in Content
  BY DEF Rolled, Mutual
<1>2. c \in Content /\ c.val = Start(C, u).val /\ c.ptr = R[u].ptr /\ c.back = R[u].back
  BY <1>1 DEF Content
<1>3. DOMAIN Q = DOMAIN W /\ Q[u] = c /\ \A x \in DOMAIN W : x # u => Q[x] = R[x]
  BY <1>1
<1>4. Mutual(Q)
  <2>1. \A x \in DOMAIN W : Q[x] \in Content /\ Q[x].ptr = R[x].ptr /\ Q[x].back = R[x].back
    BY <1>1, <1>2, <1>3
  <2> QED
    BY <1>1, <1>3, <2>1 DEF Mutual
<1> DEFINE k == <<u, "val">>
<1>5. ASSUME NEW x \in DOMAIN W
      PROVE  /\ Q[x].val = IF <<x, "val">> \in K \cup {k} THEN Start(C, x).val ELSE W[x].val
             /\ Q[x].ptr = IF <<x, "ptr">> \in K \cup {k} THEN Start(C, x).ptr ELSE W[x].ptr
  <2>1. <<x, "ptr">> # k /\ (<<x, "val">> = k <=> x = u)
    OBVIOUS
  <2>2. /\ R[x].val = IF <<x, "val">> \in K THEN Start(C, x).val ELSE W[x].val
        /\ R[x].ptr = IF <<x, "ptr">> \in K THEN Start(C, x).ptr ELSE W[x].ptr
    BY DEF Rolled
  <2> HIDE DEF k
  <2> QED
    BY <1>2, <1>3, <2>1, <2>2
<1> QED
  BY <1>3, <1>4, <1>5 DEF Rolled

LEMMA RolledPointer ==
  ASSUME NEW R, NEW W, NEW C, NEW K, Rolled(R, W, C, K), NEW u \in DOMAIN W,
         Start(C, u).ptr \in DOMAIN W \cup {Null},
         NEW Q, Q = Repointed(R, u, Start(C, u).ptr)
  PROVE  Rolled(Q, W, C, K \cup {<<u, "ptr">>})
<1> DEFINE k == <<u, "ptr">>
           new == Start(C, u).ptr
<1>1. DOMAIN R = DOMAIN W /\ Mutual(R) /\ Objects(R) /\ u \in DOMAIN R
      /\ new \in DOMAIN R \cup {Null} /\ Q = Repointed(R, u, new)
  BY DEF Rolled, Mutual, Objects
<1>n. new = Start(C, u).ptr
  OBVIOUS
<1> HIDE DEF new
<1>2. IsRepointed(Q, R, u, new)
  BY <1>1, RepointedFields
<1>3. Mutual(Q)
  BY <1>1, RepointedMutual
<1>4. /\ DOMAIN Q = DOMAIN W
      /\ \A x \in DOMAIN W : Q[x].val = R[x].val /\ Q[x].ptr = IF x = u THEN new ELSE R[x].ptr
  BY <1>1, <1>2 DEF IsRepointed
<1>5. ASSUME NEW x \in DOMAIN W
      PROVE  /\ Q[x].val = IF <<x, "val">> \in K \cup {k} THEN Start(C, x).val ELSE W[x].val
             /\ Q[x].ptr = IF <<x, "ptr">> \in K \cup {k} THEN Start(C, x).ptr ELSE W[x].ptr
  <2>1. <<x, "val">> # k /\ (<<x, "ptr">> = k <=> x = u)
    OBVIOUS
  <2>2. /\ R[x].val = IF <<x, "val">> \in K THEN Start(C, x).val ELSE W[x].val
        /\ R[x].ptr = IF <<x, "ptr">> \in K THEN Start(C, x).ptr ELSE W[x].ptr
    BY DEF Rolled
  <2> HIDE DEF k
  <2> QED
    BY <1>4, <1>n, <2>1, <2>2
<1> QED
  BY <1>3, <1>4, <1>5 DEF Rolled

(* When every record has been rolled back, the objects there were at the   *)
(* start are as they were: their lists too, for no created object points.  *)
LEMMA RolledToStart ==
  ASSUME NEW W, NEW T, NEW C, NEW cr, NEW ch, NEW de, Accounted(W, T, C, cr, ch, de),
         NEW R, Rolled(R, W, C, DOMAIN ch)
  PROVE  DOMAIN R = DOMAIN W /\ \A u \in DOMAIN C : R[u] = C[u]
<1>1. /\ Mutual(C) /\ DOMAIN W = DOMAIN C \cup ToSet(cr) /\ DOMAIN R = DOMAIN W /\ Mutual(R)
  BY DEF Accounted, Rolled
<1>2. \A u \in DOMAIN W : /\ R[u].val = Start(C, u).val
                          /\ R[u].ptr = Start(C, u).ptr
  BY DEF Accounted, Rolled
<1>3. \A u \in DOMAIN C : Start(C, u) = C[u]
  BY DEF Start
<1>4. \A u \in DOMAIN W : u \notin DOMAIN C => Start(C, u).ptr = Null
  BY DEF Start, Blank
<1>5. ASSUME NEW u \in DOMAIN C
      PROVE  R[u] = C[u]
  <2>1. R[u] \in Content /\ C[u] \in Content /\ u # Null /\ u \in DOMAIN R
    BY <1>1, ConstantsAssumption DEF Mutual
  <2>2. R[u].val = C[u].val /\ R[u].ptr = C[u].ptr
    BY <1>1, <1>2, <1>3
  <2>3. ASSUME NEW x \in Uuid
        PROVE  x \in R[u].back <=> x \in C[u].back
    <3>1. x \in R[u].back <=> x \in DOMAIN W /\ R[x].ptr = u
      BY <1>1, <2>1 DEF Mutual
    <3>2. x \in C[u].back <=> x \in DOMAIN C /\ C[x].ptr = u
      BY <1>1 DEF Mutual
    <3>3. x \in DOMAIN W => R[x].ptr = IF x \in DOMAIN C THEN C[x].ptr ELSE Null
      BY <1>2, <1>3, <1>4
    <3> QED
      BY <1>1, <2>1, <3>1, <3>2, <3>3
  <2>4. R[u].back \subseteq Uuid /\ C[u].back \subseteq Uuid
    BY <2>1 DEF Content
  <2>5. R[u].back = C[u].back
    BY <2>3, <2>4
  <2> QED
    BY <2>1, <2>2, <2>5, SameContent
<1> QED
  BY <1>1, <1>5

--------------------------------------------------------------------------------
(* The turns of TryAbortTransaction in the default cache.                  *)

(* T2 is T with one object more, or less.                                  *)
Gains(T2, T, u, c) ==
  /\ DOMAIN T2 = DOMAIN T \cup {u} /\ T2[u] = c
  /\ \A x \in DOMAIN T : x # u => T2[x] = T[x]
Loses(T2, T, u) ==
  DOMAIN T2 = DOMAIN T \ {u} /\ \A x \in DOMAIN T2 : T2[x] = T[x]

LEMMA PutBackHolds ==
  ASSUME Roomy, NEW s, NEW T, Holds(s, T), NEW d \in Deleted, d.uuid \notin DOMAIN T,
         d.object # Null, MayReturn(d, s.input), NEW t, t = PutBack(s, d),
         NEW T2, Gains(T2, T, d.uuid, d.object)
  PROVE  Holds(t, T2) /\ t.input = s.input /\ t.object[d.uuid] # Null
<1>1. /\ Neat(s, Null) /\ s.fault = "none" /\ s.limit = NoLimit /\ d.uuid \in Uuid
      /\ d.object \in Content /\ s.location[d.uuid] = "none"
  BY DEF Holds, Deleted
<1>2. /\ Neat(t, Null)
      /\ t.fault = "none" /\ t.input = s.input /\ t.limit = s.limit
      /\ t.location[d.uuid] = "Cache" /\ t.object[d.uuid] = d.object
      /\ \A w \in Uuid : w # d.uuid => t.location[w] = s.location[w] /\ t.object[w] = s.object[w]
  BY <1>1, PutBackNeat
<1> DEFINE u == d.uuid
           c == d.object
<1>3. /\ DOMAIN T2 = DOMAIN T \cup {u} /\ T2[u] = c
      /\ \A x \in DOMAIN T : x # u => T2[x] = T[x]
  BY DEF Gains
<1>4. u \in Uuid /\ c \in Content /\ t.location[u] = "Cache" /\ t.object[u] = c /\ c # Null
      /\ u \notin DOMAIN T
      /\ \A w \in Uuid : w # u => t.location[w] = s.location[w] /\ t.object[w] = s.object[w]
  BY <1>1, <1>2
<1> HIDE DEF u, c
<1>5. Holds(t, T2)
  BY <1>1, <1>2, <1>3, <1>4 DEF Holds, InPlace
<1> QED
  BY <1>2, <1>5

LEMMA TakenOutHolds ==
  ASSUME Roomy, NEW s, NEW T, Holds(s, T), NEW u \in Uuid,
         NEW t, t = OutOfQueue(Gone(s, u), u), NEW T2, Loses(T2, T, u)
  PROVE  Holds(t, T2) /\ t.input = s.input
<1>1. Neat(s, Null) /\ s.fault = "none" /\ s.limit = NoLimit
  BY DEF Holds
<1>2. /\ Neat(t, Null)
      /\ t.fault = "none" /\ t.input = s.input /\ t.limit = s.limit
      /\ t.location[u] = "none"
      /\ \A w \in Uuid : w # u => t.location[w] = s.location[w] /\ t.object[w] = s.object[w]
  BY <1>1, TakenOut
<1>3. t.object[u] = Null
  BY <1>2 DEF Neat, Placed
<1> QED
  BY <1>1, <1>2, <1>3 DEF Holds, InPlace, Loses

LEMMA UncreateHolds ==
  ASSUME Roomy, NEW s, NEW T, Holds(s, T), NEW u \in DOMAIN T,
         NEW t, t = Uncreate(s, u), NEW T2, Loses(T2, T, u)
  PROVE  Holds(t, T2)
<1> DEFINE f == FetchObject(s, u)
<1>1. u \in Uuid /\ s.fault = "none"
  BY DEF Holds
<1>2. Holds(f, T) /\ f.object[u] # Null
  BY <1>1, FetchHolds
<1>3. t = OutOfQueue(Gone(f, u), u)
  BY <1>1, <1>2 DEF Uncreate, Gone
<1> HIDE DEF f
<1> QED
  BY <1>1, <1>2, <1>3, TakenOutHolds

(* The storage once the changes of the keys K have been rolled back. *)
RolledIn(s, W, C, K) == \E R : Holds(s, R) /\ Rolled(R, W, C, K)

LEMMA RollBackHolds ==
  ASSUME Roomy, NEW W, NEW T, NEW C, NEW cr, NEW de, Accounted(W, T, C, cr, changed, de),
         NEW s, NEW K, RolledIn(s, W, C, K), NEW k \in DOMAIN changed,
         NEW t, t = RollBack(s, k)
  PROVE  RolledIn(t, W, C, K \cup {k})
<1> DEFINE u == k[1]
           f == FetchObject(s, u)
<1>1. PICK R : Holds(s, R) /\ Rolled(R, W, C, K)
  BY DEF RolledIn
<1>2. u \in DOMAIN W /\ k[2] \in {"val", "ptr"} /\ k = <<u, k[2]>>
  BY DEF Accounted
<1>3. Mutual(W) /\ Mutual(C) /\ DOMAIN C \subseteq DOMAIN W
  BY DEF Accounted
<1>4. DOMAIN R = DOMAIN W /\ Mutual(R) /\ u \in Uuid /\ R[u] \in Content
  BY <1>1, <1>2, <1>3 DEF Rolled, Mutual
<1>5. /\ k[2] = "val" => changed[k] = Start(C, u).val
      /\ k[2] = "ptr" => changed[k] = Start(C, u).ptr
  <2>1. /\ <<u, "val">> \in DOMAIN changed => changed[<<u, "val">>] = Start(C, u).val
        /\ <<u, "ptr">> \in DOMAIN changed => changed[<<u, "ptr">>] = Start(C, u).ptr
    BY <1>2 DEF Accounted
  <2> HIDE DEF u
  <2>2. /\ k[2] = "val" => k = <<u, "val">>
        /\ k[2] = "ptr" => k = <<u, "ptr">>
    BY <1>2
  <2> QED
    BY <2>1, <2>2
<1>6. Start(C, u).val \in Value /\ Start(C, u).ptr \in DOMAIN W \cup {Null}
  <2>1. CASE u \in DOMAIN C
    BY <1>3, <2>1 DEF Start, Mutual, Content
  <2>2. CASE u \notin DOMAIN C
    BY <2>2, ConstantsAssumption DEF Start, Blank
  <2> QED
    BY <2>1, <2>2
<1>7. Holds(f, R) /\ f.object[u] # Null /\ s.fault = "none"
  BY <1>1, <1>2, <1>4, FetchHolds DEF Holds
<1>8. t = IF k[2] = "ptr" THEN MovePointer(f, u, changed[k])
          ELSE Modify(f, u, [f.object[u] EXCEPT !.val = changed[k]], "assert")
  BY <1>7 DEF RollBack
<1>9. f.object[u] = R[u]
  BY <1>2, <1>4, <1>7 DEF Holds, InPlace
<1> HIDE DEF f, u
<1>10. CASE k[2] = "ptr"
  <2> DEFINE new == Start(C, u).ptr
             Q == Repointed(R, u, new)
  <2>1. t = MovePointer(f, u, new) /\ new \in DOMAIN R \cup {Null}
    BY <1>4, <1>5, <1>6, <1>8, <1>10
  <2>2. R[u].ptr \in DOMAIN R \cup {Null}
    BY <1>2, <1>4 DEF Mutual
  <2> HIDE DEF new
  <2>3. Holds(t, Q)
    BY <1>4, <1>7, <2>1, <2>2, MovePointerHolds
  <2>4. Rolled(Q, W, C, K \cup {<<u, "ptr">>})
    BY <1>1, <1>2, <1>6, RolledPointer DEF new
  <2>5. Rolled(Q, W, C, K \cup {k})
    BY <1>2, <1>10, <2>4
  <2> QED
    BY <2>3, <2>5 DEF RolledIn
<1>11. CASE k[2] = "val"
  <2> DEFINE c == [R[u] EXCEPT !.val = Start(C, u).val]
             Q == [R EXCEPT ![u] = c]
  <2>1. t = Modify(f, u, c, "assert") /\ c \in Content
    BY <1>4, <1>5, <1>6, <1>8, <1>9, <1>11 DEF Content
  <2>2. Rolled(Q, W, C, K \cup {<<u, "val">>})
    BY <1>1, <1>2, <1>6, RolledValue
  <2> HIDE DEF c
  <2>3. Holds(t, Q)
    BY <1>4, <1>7, <2>1, ModifyHolds
  <2> HIDE DEF Q
  <2>4. Rolled(Q, W, C, K \cup {k})
    BY <1>2, <1>11, <2>2
  <2> QED
    BY <2>3, <2>4 DEF RolledIn
<1> QED
  BY <1>2, <1>10, <1>11

(* The objects of W that are in D. *)
Part(W, D) == [x \in D |-> W[x]]

LEMMA AllPutBack ==
  ASSUME Roomy, ListsInv, NEW W, NEW C, NEW cr, NEW ch, Accounted(W, truth, C, cr, ch, deleted),
         Holds(bin, truth), NEW t, t = AllBack(bin, deleted)
  PROVE  Holds(t, W)
<1> DEFINE n == Len(deleted)
           q == deleted
           Back(k) == DOMAIN truth \cup {q[i].uuid : i \in 1 .. k}
           W1 == [k \in 0 .. n |->
                   {s \in BinState : s.input = bin.input /\ Holds(s, Part(W, Back(k)))}]
<1>1. n \in Nat /\ DOMAIN q = 1 .. n /\ \A k \in 1 .. n : q[k] \in Deleted
  BY LenProperties, ElementOfSeq DEF ListsInv, DeletedAreAside
<1>2. bin \in BinState
  BY DEF Holds, Neat, Placed
<1>3. ASSUME NEW k \in 1 .. n, NEW s \in BinState
      PROVE  PutBack(s, q[k]) \in BinState
  <2> DEFINE u == q[k].uuid
             c == q[k].object
             b == q[k].dirty
             p == PlaceIn(s, u, c, b, "Cache")
  <2>1. u \in Uuid /\ c \in Content \cup {Null} /\ b \in BOOLEAN
    BY <1>1 DEF Deleted
  <2>2. PutBack(s, q[k]) = InFront(p, u)
    BY DEF PutBack, PlaceIn
  <2> HIDE DEF u, c, b
  <2>3. p = PlaceIn(s, u, c, b, "Cache") /\ "Cache" \in {"none", "Input", "Cache", "Scratch"}
    OBVIOUS
  <2> HIDE DEF p
  <2>4. IsPlacedIn(s, p, u, c, b, "Cache")
    BY <2>1, <2>3, PlaceFields
  <2>5. p \in BinState
    BY <2>4 DEF IsPlacedIn
  <2> QED
    BY <2>1, <2>2, <2>5, InFrontFields
<1> HIDE DEF n
<1>q. t = AllBack(bin, q)
  OBVIOUS
<1>i. /\ \A i, j \in 1 .. n : q[i].uuid = q[j].uuid => i = j
      /\ \A i \in 1 .. n : /\ MayReturn(q[i], bin.input)
                           /\ q[i].uuid \in DOMAIN W \ DOMAIN truth
                           /\ q[i].object = W[q[i].uuid]
      /\ DOMAIN truth \subseteq DOMAIN W /\ \A x \in DOMAIN truth : W[x] = truth[x]
      /\ \A x \in DOMAIN W : x \in DOMAIN truth \/ \E i \in 1 .. n : q[i].uuid = x
  BY <1>1 DEF ListsInv, DeletedAreAside, Accounted
<1>w. \A x \in DOMAIN W : W[x] # Null
  BY DEF Accounted, Mutual, Roomy
<1> HIDE DEF q
<1>4. PICK h : /\ h \in [0 .. n -> BinState]
               /\ h[0] = bin
               /\ \A k \in 1 .. n : h[k] = PutBack(h[k - 1], q[k])
               /\ t = h[n]
  <2> HIDE DEF W1
  <2>1. n \in Nat /\ DOMAIN q = 1 .. n
    BY <1>1
  <2>2. \A k \in 1 .. n, r \in BinState : PutBack(r, q[k]) \in BinState
    BY <1>3
  <2>3. \E h : PutBackRun(h, n, BinState, bin, q) /\ AllBack(bin, q) = h[n]
    BY <1>2, <2>1, <2>2, PutBackTurns
  <2> QED
    BY <1>q, <2>3 DEF PutBackRun
<1>5. h[0] \in W1[0]
  <2>0. 1 .. 0 = {} /\ 0 \in 0 .. n
    BY <1>1
  <2>1. 0 \in 0 .. n /\ Back(0) = DOMAIN truth
    BY <2>0
  <2>2. DOMAIN Part(W, Back(0)) = DOMAIN truth
        /\ \A x \in DOMAIN truth : Part(W, Back(0))[x] = truth[x]
    BY <1>i, <2>1 DEF Part
  <2> DEFINE P == Part(W, Back(0))
  <2>3. W1[0] = {s \in BinState : s.input = bin.input /\ Holds(s, P)}
    BY <2>1
  <2> HIDE DEF P, W1, Back
  <2>4. Holds(bin, P)
    BY <2>2, SameHeld DEF P
  <2> QED
    BY <1>2, <1>4, <2>3, <2>4
<1>6. ASSUME NEW k \in 1 .. n, h[k - 1] \in W1[k - 1]
      PROVE  h[k] \in W1[k]
  <2> DEFINE s == h[k - 1]
             r == h[k]
             d == q[k]
             P == Part(W, Back(k - 1))
             Q == Part(W, Back(k))
  <2>1. k - 1 \in 0 .. n /\ k \in 0 .. n /\ k > k - 1 /\ k \in Nat
    BY <1>1
  <2>2. s.input = bin.input /\ Holds(s, P)
    BY <1>6, <2>1
  <2>3. r = PutBack(s, d) /\ d \in Deleted /\ r \in BinState
    BY <1>1, <1>4, <2>1
  <2>4. MayReturn(d, s.input) /\ d.object # Null
    BY <1>i, <1>w, <2>2
  <2>5. d.uuid \notin DOMAIN P
    <3>1. \A i \in 1 .. (k - 1) : i \in 1 .. n /\ i # k
      BY <1>1, <2>1
    <3>2. \A i \in 1 .. (k - 1) : q[i].uuid # d.uuid
      BY <1>i, <3>1
    <3> QED
      BY <1>i, <3>2 DEF Part
  <2>6. Gains(Q, P, d.uuid, d.object)
    <3>1. 1 .. k = (1 .. (k - 1)) \cup {k}
      BY <2>1
    <3>2. Back(k) = Back(k - 1) \cup {d.uuid}
      BY <3>1
    <3>3. d.object = W[d.uuid]
      BY <1>i
    <3> DEFINE B == Back(k - 1)
    <3> HIDE DEF Back, B, d
    <3> QED
      BY <3>2, <3>3 DEF Gains, Part
  <2>7. W1[k] = {m \in BinState : m.input = bin.input /\ Holds(m, Q)}
    BY <2>1
  <2> HIDE DEF s, d, r, W1, P, Q, Back
  <2>8. Holds(r, Q) /\ r.input = s.input
    BY <2>2, <2>3, <2>4, <2>5, <2>6, PutBackHolds
  <2>9. r \in W1[k]
    BY <2>2, <2>3, <2>7, <2>8
  <2> QED
    BY <2>9 DEF r
<1>7. \A k \in 0 .. n : h[k] \in W1[k]
  <2> HIDE DEF W1
  <2> QED
    BY <1>1, <1>5, <1>6, TurnsKeep
<1>8. t \in W1[n] /\ n \in 0 .. n
  BY <1>1, <1>4, <1>7
<1> DEFINE P == Part(W, Back(n))
<1>9. Holds(t, P)
  BY <1>8
<1>10. Back(n) = DOMAIN W
  <2>1. \A i \in 1 .. n : q[i].uuid \in DOMAIN W
    BY <1>i
  <2>2. \A x \in DOMAIN W : x \in DOMAIN truth \/ x \in {q[i].uuid : i \in 1 .. n}
    BY <1>i
  <2>3. {q[i].uuid : i \in 1 .. n} \subseteq DOMAIN W
    BY <2>1
  <2> DEFINE U == {q[i].uuid : i \in 1 .. n}
  <2>4. Back(n) = DOMAIN truth \cup U
    OBVIOUS
  <2> HIDE DEF U, Back
  <2> QED
    BY <1>i, <2>2, <2>3, <2>4 DEF U
<1>11. DOMAIN P = DOMAIN W /\ \A x \in DOMAIN P : W[x] = P[x]
  BY <1>10 DEF Part
<1> HIDE DEF P
<1> QED
  BY <1>9, <1>11, SameHeld

LEMMA AllAreRolledBack ==
  ASSUME Roomy, ListsInv, NEW W, NEW C, NEW cr, NEW de,
         Accounted(W, truth, C, cr, changed, de),
         NEW s, Holds(s, W), NEW order \in SetToSeqs(DOMAIN changed),
         NEW t, t = AllRolledBack(s, order)
  PROVE  RolledIn(t, W, C, DOMAIN changed)
<1> DEFINE n == Cardinality(DOMAIN changed)
           V == {r \in BinState : Neat(r, Null)}
           Done(k) == {order[i] : i \in 1 .. k}
           W1 == [k \in 0 .. n |-> {r \in V : RolledIn(r, W, C, Done(k))}]
<1>1. n \in Nat /\ IsFiniteSet(DOMAIN changed)
  BY FS_CardinalityType DEF ListsInv, ChangesAreTyped
<1>2. order \in [1 .. n -> DOMAIN changed] /\ \A i, j \in 1 .. n : i # j => order[i] # order[j]
  BY DEF SetToSeqs
<1>3. DOMAIN order = 1 .. n /\ \A k \in 1 .. n : order[k] \in DOMAIN changed
  BY <1>2
<1>4. s \in V
  BY DEF Holds, Neat, Placed
<1>5. ASSUME NEW r \in V, NEW k \in 1 .. n
      PROVE  RollBack(r, order[k]) \in V
  BY <1>3, RollBackNeat DEF ListsInv, Neat, Placed
<1>s. Done(n) = DOMAIN changed
  <2>1. order \in Injection(1 .. n, DOMAIN changed)
    BY <1>2 DEF Injection, IsInjective
  <2>2. Cardinality(1 .. n) = n
    BY <1>1, FS_Interval
  <2>3. order \in Surjection(1 .. n, DOMAIN changed)
    BY <1>1, <2>1, <2>2, FS_Injection
  <2>4. \A k \in DOMAIN changed : \E i \in 1 .. n : order[i] = k
    BY <2>3 DEF Surjection
  <2> QED
    BY <1>3, <2>4
<1> HIDE DEF n, V
<1>6. PICK h : RollBackRun(h, n, V, s, order) /\ AllRolledBack(s, order) = h[n]
  BY <1>1, <1>3, <1>4, <1>5, RollBackTurns
<1>7. /\ h \in [0 .. n -> V] /\ h[0] = s
      /\ \A k \in 1 .. n : h[k] = RollBack(h[k - 1], order[k])
  BY <1>6 DEF RollBackRun
<1>8. h[0] \in W1[0]
  <2>1. 0 \in 0 .. n /\ Done(0) = {}
    BY <1>1
  <2>2. Rolled(W, W, C, {})
    BY DEF Rolled, Accounted
  <2> DEFINE D == Done(0)
  <2>3. RolledIn(s, W, C, D)
    BY <2>1, <2>2 DEF RolledIn
  <2>4. W1[0] = {r \in V : RolledIn(r, W, C, D)}
    BY <2>1
  <2> HIDE DEF D, W1
  <2> QED
    BY <1>4, <1>7, <2>3, <2>4
<1>9. ASSUME NEW k \in 1 .. n, h[k - 1] \in W1[k - 1]
      PROVE  h[k] \in W1[k]
  <2> DEFINE r == h[k - 1]
             m == h[k]
             D == Done(k - 1)
             E == Done(k)
             c == order[k]
  <2>1. k - 1 \in 0 .. n /\ k \in 0 .. n /\ k \in Nat
    BY <1>1
  <2>2. RolledIn(r, W, C, D)
    BY <1>9, <2>1
  <2>3. m = RollBack(r, c) /\ c \in DOMAIN changed /\ m \in V
    BY <1>3, <1>7, <2>1
  <2>4. E = D \cup {c}
    <3>1. 1 .. k = (1 .. (k - 1)) \cup {k}
      BY <2>1
    <3> QED
      BY <3>1
  <2>5. W1[k] = {x \in V : RolledIn(x, W, C, E)}
    BY <2>1
  <2> HIDE DEF r, m, D, E, c, W1, Done
  <2>6. RolledIn(m, W, C, D \cup {c})
    BY <2>2, <2>3, RollBackHolds
  <2>7. m \in W1[k]
    BY <2>3, <2>4, <2>5, <2>6
  <2> QED
    BY <2>7 DEF m
<1>10. \A k \in 0 .. n : h[k] \in W1[k]
  <2> HIDE DEF W1
  <2> QED
    BY <1>1, <1>8, <1>9, TurnsKeep
<1>11. n \in 0 .. n /\ t = h[n]
  BY <1>1, <1>6
<1>12. RolledIn(t, W, C, Done(n))
  BY <1>10, <1>11
<1> QED
  BY <1>12, <1>s

LEMMA AllAreUncreated ==
  ASSUME Roomy, ListsInv, NEW R, DOMAIN R = Known, IsInjective(created),
         ToSet(created) \cap DOMAIN committed = {},
         \A x \in DOMAIN committed : R[x] = committed[x],
         NEW s, Holds(s, R), NEW t, t = AllUncreated(s, created)
  PROVE  Holds(t, committed)
<1> DEFINE n == Len(created)
           q == created
           V == {r \in BinState : Neat(r, Null)}
           Left(k) == DOMAIN committed \cup {q[i] : i \in (k + 1) .. n}
           W1 == [k \in 0 .. n |-> {r \in V : Holds(r, Part(R, Left(k)))}]
<1>1. n \in Nat /\ DOMAIN q = 1 .. n /\ \A k \in 1 .. n : q[k] \in Uuid
  BY LenProperties, ElementOfSeq DEF ListsInv
<1>2. s \in V
  BY DEF Holds, Neat, Placed
<1>3. ASSUME NEW k \in 1 .. n, NEW r \in V
      PROVE  Uncreate(r, q[k]) \in V
  BY <1>1, UncreateNeat DEF Neat, Placed
<1>i. /\ \A i, j \in 1 .. n : q[i] = q[j] => i = j
      /\ \A i \in 1 .. n : q[i] \notin DOMAIN committed /\ q[i] \in DOMAIN R
      /\ DOMAIN R = DOMAIN committed \cup {q[i] : i \in 1 .. n}
  BY <1>1 DEF Known, ToSet, IsInjective
<1>q. t = AllUncreated(s, q)
  OBVIOUS
<1> HIDE DEF n, q
<1>4. PICK h : /\ h \in [0 .. n -> V]
               /\ h[0] = s
               /\ \A k \in 1 .. n : h[k] = Uncreate(h[k - 1], q[k])
               /\ t = h[n]
  <2> HIDE DEF W1, V
  <2>1. n \in Nat /\ DOMAIN q = 1 .. n
    BY <1>1
  <2>2. \A k \in 1 .. n, r \in V : Uncreate(r, q[k]) \in V
    BY <1>3
  <2>3. \E h : UncreateRun(h, n, V, s, q) /\ AllUncreated(s, q) = h[n]
    BY <1>2, <2>1, <2>2, UncreateTurns
  <2> QED
    BY <1>q, <2>3 DEF UncreateRun
<1> HIDE DEF V
<1>5. h[0] \in W1[0]
  <2> DEFINE P == Part(R, Left(0))
  <2>1. 0 \in 0 .. n /\ Left(0) = DOMAIN R
    BY <1>1, <1>i
  <2>2. DOMAIN P = DOMAIN R /\ \A x \in DOMAIN R : P[x] = R[x]
    BY <2>1 DEF Part
  <2>3. W1[0] = {r \in V : Holds(r, P)}
    BY <2>1
  <2> HIDE DEF P, W1
  <2>4. Holds(s, P)
    BY <2>2, SameHeld
  <2> QED
    BY <1>2, <1>4, <2>3, <2>4
<1>6. ASSUME NEW k \in 1 .. n, h[k - 1] \in W1[k - 1]
      PROVE  h[k] \in W1[k]
  <2> DEFINE r == h[k - 1]
             m == h[k]
             u == q[k]
             P == Part(R, Left(k - 1))
             Q == Part(R, Left(k))
  <2>1. k - 1 \in 0 .. n /\ k \in 0 .. n /\ k \in Nat /\ (k - 1) + 1 = k
    BY <1>1
  <2>2. Holds(r, P)
    BY <1>6, <2>1
  <2>3. m = Uncreate(r, u) /\ m \in V
    BY <1>4, <2>1
  <2>4. Left(k - 1) = Left(k) \cup {u} /\ u \notin Left(k)
    <3>1. k .. n = ((k + 1) .. n) \cup {k}
      BY <1>1, <2>1
    <3>2. \A i \in (k + 1) .. n : i \in 1 .. n /\ i # k
      BY <1>1, <2>1
    <3>3. \A i \in (k + 1) .. n : q[i] # u
      BY <1>i, <3>2
    <3>4. u \notin DOMAIN committed
      BY <1>i
    <3>5. {q[i] : i \in ((k - 1) + 1) .. n} = {q[i] : i \in (k + 1) .. n} \cup {u}
      BY <2>1, <3>1
    <3> QED
      BY <3>3, <3>4, <3>5
  <2>5. Loses(Q, P, u) /\ u \in DOMAIN P
    <3> HIDE DEF Left, u
    <3> QED
      BY <2>4 DEF Loses, Part
  <2>6. W1[k] = {x \in V : Holds(x, Q)}
    BY <2>1
  <2> HIDE DEF r, m, u, W1, P, Q, Left
  <2>7. Holds(m, Q)
    BY <2>2, <2>3, <2>5, UncreateHolds
  <2>8. m \in W1[k]
    BY <2>3, <2>6, <2>7
  <2> QED
    BY <2>8 DEF m
<1>7. \A k \in 0 .. n : h[k] \in W1[k]
  <2> HIDE DEF W1
  <2> QED
    BY <1>1, <1>5, <1>6, TurnsKeep
<1>8. n \in 0 .. n /\ t \in W1[n]
  BY <1>1, <1>4, <1>7
<1> DEFINE P == Part(R, Left(n))
<1>9. Holds(t, P)
  BY <1>8
<1>10. Left(n) = DOMAIN committed
  <2>1. (n + 1) .. n = {}
    BY <1>1
  <2> QED
    BY <2>1
<1>11. DOMAIN committed = DOMAIN P /\ \A x \in DOMAIN P : committed[x] = P[x]
  BY <1>10 DEF Part
<1> HIDE DEF P
<1> QED
  BY <1>9, <1>11, SameHeld

LEMMA AbortedHolds ==
  ASSUME Roomy, ListsInv, NEW W, Accounted(W, truth, committed, created, changed, deleted),
         Holds(bin, truth), NEW order \in SetToSeqs(DOMAIN changed),
         NEW t, t = Aborted(order)
  PROVE  Holds(t, committed)
<1> DEFINE s1 == AllBack(bin, deleted)
           s2 == AllRolledBack(s1, order)
<1>1. t = AllUncreated(s2, created)
  BY DEF Aborted, AllBack, AllRolledBack, AllUncreated
<1>2. Holds(s1, W)
  BY AllPutBack
<1> HIDE DEF s1
<1>3. RolledIn(s2, W, committed, DOMAIN changed)
  BY <1>2, AllAreRolledBack
<1> HIDE DEF s2
<1>4. PICK R : Holds(s2, R) /\ Rolled(R, W, committed, DOMAIN changed)
  BY <1>3 DEF RolledIn
<1>5. DOMAIN R = DOMAIN W /\ \A x \in DOMAIN committed : R[x] = committed[x]
  BY <1>4, RolledToStart
<1>6. /\ DOMAIN W = Known /\ ToSet(created) \cap DOMAIN committed = {} /\ IsInjective(created)
  BY DEF Accounted, Known
<1> QED
  BY <1>1, <1>4, <1>5, <1>6, AllAreUncreated

--------------------------------------------------------------------------------
(* The default cache, and nobody asks for another size or switches caching *)
(* off with objects in memory: nothing is lost.                            *)

DefaultCache == Roomy /\ Limits = {} /\ ~MayFlush

WholeInv ==
  /\ Holds(bin, truth)
  /\ \E W : Accounted(W, truth, committed, created, changed, deleted)
  /\ ~inTransaction => created = << >> /\ changed = NoFunction /\ deleted = << >>
  /\ openedObject # Null => bin.object[openedObject] # Null

LEMMA OpenedHolds ==
  ASSUME Roomy, NEW input, IsFile(input), NEW caching, MayCache(caching),
         NEW t, t = Opened(input, caching, NoLimit),
         NEW T, DOMAIN T \subseteq Uuid,
         \A u \in DOMAIN T : T[u] \in Content /\ input[u] = T[u],
         \A u \in Uuid : u \notin DOMAIN T => input[u] = Null
  PROVE  Holds(t, T)
<1>1. Neat(t, Null) /\ t.fault = "none"
  BY OpenedNeat, ConstantsAssumption DEF IsOpened
<1>2. /\ t.location = [u \in Uuid |-> IF input[u] = Null THEN "none" ELSE "Input"]
      /\ t.object = [u \in Uuid |-> Null] /\ t.input = input /\ t.limit = NoLimit
  BY DEF Opened
<1> QED
  BY <1>1, <1>2 DEF Holds, InPlace, Roomy

LEMMA BlankAreMutual ==
  ASSUME NEW T, DOMAIN T \subseteq Uuid, \A u \in DOMAIN T : T[u] = Blank
  PROVE  Mutual(T)
BY BlankIsContent, ConstantsAssumption DEF Mutual, Blank

LEMMA InitWhole ==
  ASSUME DefaultCache, Init
  PROVE  WholeInv
<1>1. /\ inTransaction = FALSE /\ openedObject = Null /\ created = << >>
      /\ changed = NoFunction /\ deleted = << >> /\ committed = truth
  BY DEF Init
<1>2. /\ Saved \subseteq Uuid /\ Root \in Uuid /\ Null \notin Uuid /\ Roomy
      /\ Blank \in Content /\ Blank # Null
  BY ConstantsAssumption, BlankIsContent DEF DefaultCache, Roomy
<1>3. Holds(bin, truth) /\ Mutual(truth)
  <2> DEFINE in1 == [u \in Uuid |-> IF u \in Saved THEN Blank ELSE Null]
             in2 == [u \in Uuid |-> Null]
             yes == TRUE
             b1 == Opened(in1, yes, NoLimit)
             b2 == Opened(in2, yes, NoLimit)
  <2>y. MayCache(yes)
    BY DEF MayCache
  <2>1. CASE bin = b1 /\ truth = [u \in Saved |-> Blank]
    <3>1. DOMAIN truth = Saved /\ \A u \in DOMAIN truth : truth[u] = Blank
      BY <2>1
    <3>2. IsFile(in1)
      BY <1>2 DEF IsFile
    <3>3. /\ \A u \in Uuid : u \in Saved => in1[u] = Blank
          /\ \A u \in Uuid : u \notin Saved => in1[u] = Null
      OBVIOUS
    <3>4. bin = Opened(in1, yes, NoLimit)
      BY <2>1
    <3> HIDE DEF in1, yes
    <3>5. Holds(bin, truth)
      BY <1>2, <2>y, <3>1, <3>2, <3>3, <3>4, OpenedHolds
    <3> QED
      BY <1>2, <3>1, <3>5, BlankAreMutual
  <2>2. CASE bin = OnlyRoot /\ truth = [u \in {Root} |-> Blank]
    <3> DEFINE d == [uuid |-> Root, object |-> Blank, dirty |-> TRUE]
               T0 == [x \in {} |-> Blank]
    <3>1. DOMAIN truth = {Root} /\ \A u \in DOMAIN truth : truth[u] = Blank
      BY <2>2
    <3>2. bin = PutBack(b2, d)
      BY <2>2 DEF OnlyRoot, PutBack
    <3>3. IsFile(in2)
      BY DEF IsFile
    <3>4. \A u \in Uuid : in2[u] = Null
      OBVIOUS
    <3>5. /\ d \in Deleted /\ d.uuid = Root /\ d.object = Blank /\ d.dirty
      BY <1>2 DEF Deleted
    <3>6. b2 = Opened(in2, yes, NoLimit)
      OBVIOUS
    <3>7. DOMAIN T0 = {}
      OBVIOUS
    <3> HIDE DEF in2, yes, b2, d, T0
    <3>8. Holds(b2, T0)
      BY <1>2, <2>y, <3>3, <3>4, <3>6, <3>7, OpenedHolds
    <3>9. MayReturn(d, b2.input)
      BY <3>5 DEF MayReturn
    <3>10. Gains(truth, T0, d.uuid, d.object)
      BY <3>1, <3>5, <3>7 DEF Gains
    <3>11. Holds(bin, truth)
      BY <1>2, <3>2, <3>5, <3>7, <3>8, <3>9, <3>10, PutBackHolds
    <3> QED
      BY <1>2, <3>1, <3>11, BlankAreMutual
  <2> QED
    BY <2>1, <2>2 DEF Init
<1>4. Accounted(truth, truth, committed, created, changed, deleted)
  BY <1>1, <1>3, AccountedAfresh
<1> QED
  BY <1>1, <1>3, <1>4 DEF WholeInv

(* A transaction has ended. *)
LEMMA EndedWhole ==
  ASSUME ClearLists, Holds(bin', truth'), Mutual(truth'), committed' = truth'
  PROVE  WholeInv'
<1>1. /\ created' = << >> /\ changed' = NoFunction /\ deleted' = << >> /\ openedObject' = Null
  BY DEF ClearLists
<1>2. Accounted(truth', truth', committed', created', changed', deleted')
  BY <1>1, AccountedAfresh
<1> QED
  BY <1>1, <1>2 DEF WholeInv

LEMMA TruthMutual ==
  ASSUME WholeInv
  PROVE  Mutual(truth)
BY AccountedMutual DEF WholeInv

LEMMA BeginTransactionWhole == WholeInv /\ BeginTransaction => WholeInv'
<1> SUFFICES ASSUME WholeInv, BeginTransaction PROVE WholeInv'
  OBVIOUS
<1>1. /\ bin' = bin /\ truth' = truth /\ committed' = truth /\ openedObject' = Null
      /\ created' = << >> /\ changed' = NoFunction /\ deleted' = << >> /\ inTransaction'
  BY DEF BeginTransaction, WholeInv
<1>2. Accounted(truth', truth', committed', created', changed', deleted')
  BY <1>1, TruthMutual, AccountedAfresh
<1> QED
  BY <1>1, <1>2 DEF WholeInv

LEMMA CommitTransactionWhole == WholeInv /\ CommitTransaction => WholeInv'
<1> SUFFICES ASSUME WholeInv, CommitTransaction PROVE WholeInv'
  OBVIOUS
<1>1. bin' = bin /\ truth' = truth /\ committed' = truth /\ ClearLists
  BY DEF CommitTransaction
<1> QED
  BY <1>1, TruthMutual, EndedWhole DEF WholeInv

LEMMA AbortTransactionWhole ==
  ASSUME DefaultCache, CacheInv, WholeInv, AbortTransaction
  PROVE  WholeInv'
<1>1. Running /\ ClearLists /\ truth' = committed /\ committed' = committed
  BY DEF AbortTransaction
<1>2. PICK order \in SetToSeqs(DOMAIN changed) : bin' = Aborted(order)
  BY DEF AbortTransaction
<1>3. PICK W : Accounted(W, truth, committed, created, changed, deleted)
  BY DEF WholeInv
<1>4. Roomy /\ ListsInv /\ Holds(bin, truth)
  BY <1>1 DEF DefaultCache, CacheInv, WholeInv
<1>5. Holds(bin', committed)
  BY <1>2, <1>3, <1>4, AbortedHolds
<1>6. Mutual(committed)
  BY <1>3 DEF Accounted
<1> QED
  BY <1>1, <1>5, <1>6, EndedWhole

LEMMA OpenObjectWhole ==
  ASSUME DefaultCache, WholeInv, NEW u \in Uuid, OpenObject(u)
  PROVE  WholeInv'
<1>1. /\ bin' = FetchObject(bin, u) /\ openedObject' = IF bin.location[u] = "none" THEN Null ELSE u
      /\ inTransaction
      /\ UNCHANGED <<inTransaction, created, changed, deleted, truth, committed>>
  BY DEF OpenObject
<1>2. Roomy /\ Holds(bin, truth)
  BY DEF DefaultCache, WholeInv
<1>3. Holds(bin', truth) /\ (u \in DOMAIN truth => bin'.object[u] # Null)
  BY <1>1, <1>2, FetchHolds
<1>4. bin.location[u] # "none" => u \in DOMAIN truth
  BY <1>2 DEF Holds
<1> QED
  BY <1>1, <1>3, <1>4 DEF WholeInv

LEMMA CloseObjectWhole == WholeInv /\ CloseObject => WholeInv'
BY DEF WholeInv, CloseObject

LEMMA CreateObjectWhole ==
  ASSUME DefaultCache, CacheInv, WholeInv, NEW u \in Uuid, CreateObject(u)
  PROVE  WholeInv'
<1> DEFINE d == [uuid |-> u, object |-> Blank, dirty |-> TRUE]
<1>1. /\ Running /\ ListsInv /\ inTransaction
      /\ u \notin DOMAIN truth /\ u \notin Known
      /\ openedObject' = u /\ created' = <<u>> \o created
      /\ truth' = [x \in DOMAIN truth \cup {u} |-> IF x = u THEN Blank ELSE truth[x]]
      /\ UNCHANGED <<inTransaction, changed, deleted, committed>>
  BY DEF CreateObject, CacheInv, Known
<1>2. bin' = PutBack(bin, d)
  BY DEF CreateObject, PutBack
<1>3. /\ d \in Deleted /\ d.uuid = u /\ d.object = Blank /\ MayReturn(d, bin.input)
      /\ Blank # Null
  BY BlankIsContent DEF Deleted, MayReturn, DefaultCache, Roomy
<1> HIDE DEF d
<1>4. Roomy /\ Holds(bin, truth)
  BY DEF DefaultCache, WholeInv
<1>5. Gains(truth', truth, u, Blank)
  BY <1>1 DEF Gains
<1>6. Holds(bin', truth') /\ bin'.object[u] # Null
  BY <1>1, <1>2, <1>3, <1>4, <1>5, PutBackHolds
<1>7. PICK W : Accounted(W, truth, committed, created, changed, deleted)
  BY DEF WholeInv
<1>8. u \notin DOMAIN W /\ IsInjective(created) /\ u \notin ToSet(created)
  BY <1>1, <1>7 DEF Accounted, Known
<1>9. ToSet(created') = ToSet(created) \cup {u} /\ IsInjective(created')
  <2>1. created \in Seq(Uuid)
    BY <1>1 DEF ListsInv
  <2> QED
    BY <1>1, <1>8, <2>1, InFrontOf
<1>10. \E V : Accounted(V, truth', committed, created', changed, deleted)
  <2>1. WithBlank(truth', truth, u)
    BY <1>1 DEF WithBlank
  <2> QED
    BY <1>7, <1>8, <1>9, <2>1, AccountedCreation
<1> QED
  BY <1>1, <1>6, <1>10 DEF WholeInv

(* The object the client writes to is in memory. *)
LEMMA OpenedIsHeld ==
  ASSUME WholeInv, openedObject \in Writable
  PROVE  /\ openedObject \in Uuid /\ openedObject \in DOMAIN truth
         /\ truth[openedObject] = bin.object[openedObject] /\ OpenIsUsable
         /\ truth[openedObject] \in Content
<1>1. openedObject \in Uuid /\ openedObject # Null
  BY ConstantsAssumption
<1>2. bin.object[openedObject] # Null /\ Holds(bin, truth)
  BY <1>1 DEF WholeInv
<1> QED
  BY <1>1, <1>2 DEF Holds, InPlace, OpenIsUsable

LEMMA SetAttributeValueWhole ==
  ASSUME DefaultCache, WholeInv, NEW v \in Value, SetAttributeValue(v)
  PROVE  WholeInv'
<1> DEFINE u == openedObject
           now == bin.object[u]
           c == [now EXCEPT !.val = v]
<1>1. /\ u \in Uuid /\ u \in DOMAIN truth /\ truth[u] = now /\ now \in Content
      /\ OpenIsUsable
  BY OpenedIsHeld DEF SetAttributeValue
<1>2. /\ bin' = Modify(bin, u, c, "crash") /\ Record(<<u, "val">>, now.val)
      /\ truth' = [truth EXCEPT ![u].val = v] /\ now # Null /\ inTransaction
      /\ UNCHANGED <<inTransaction, openedObject, created, deleted, committed>>
  BY <1>1 DEF SetAttributeValue, OpenIsUsable
<1>3. c \in Content /\ truth' = [truth EXCEPT ![u] = c]
  BY <1>1, <1>2 DEF Content
<1>4. Roomy /\ Holds(bin, truth)
  BY DEF DefaultCache, WholeInv
<1>5. PICK W : Accounted(W, truth, committed, created, changed, deleted)
  BY DEF WholeInv
<1>6. Recorded(changed, changed', <<u, "val">>, truth[u].val)
  BY <1>1, <1>2, RecordIsRecorded
<1>7. \E V : Accounted(V, truth', committed, created, changed', deleted)
  <2>1. ValueSet(truth', truth, u, v)
    BY <1>2 DEF ValueSet
  <2> QED
    BY <1>1, <1>5, <1>6, <2>1, AccountedValue
<1>8. Holds(bin', truth') /\ Stays(bin, bin')
  <2> DEFINE Q == [truth EXCEPT ![u] = c]
  <2>1. truth' = Q
    BY <1>3
  <2> HIDE DEF c, now
  <2>2. bin.object[u] # Null /\ bin' = Modify(bin, u, c, "crash")
    BY <1>2 DEF now
  <2>3. Holds(bin', Q) /\ Stays(bin, bin')
    BY <1>1, <1>3, <1>4, <2>2, ModifyHolds
  <2> QED
    BY <2>1, <2>3
<1> QED
  BY <1>1, <1>2, <1>7, <1>8 DEF WholeInv, Stays

LEMMA SetPointerValueWhole ==
  ASSUME DefaultCache, WholeInv, NEW t \in Uuid \cup {Null}, SetPointerValue(t)
  PROVE  WholeInv'
<1> DEFINE u == openedObject
           now == bin.object[u]
<1>1. /\ u \in Uuid /\ u \in DOMAIN truth /\ truth[u] = now /\ now \in Content
      /\ OpenIsUsable
  BY OpenedIsHeld DEF SetPointerValue
<1>2. /\ bin' = MovePointer(bin, u, t) /\ Record(<<u, "ptr">>, now.ptr)
      /\ truth' = Repointed(truth, u, t) /\ now # Null /\ inTransaction
      /\ t \in DOMAIN truth \cup {Null}
      /\ UNCHANGED <<inTransaction, openedObject, created, deleted, committed>>
  BY <1>1 DEF SetPointerValue, OpenIsUsable
<1>3. Roomy /\ Holds(bin, truth)
  BY DEF DefaultCache, WholeInv
<1>4. PICK W : Accounted(W, truth, committed, created, changed, deleted)
  BY DEF WholeInv
<1>5. truth[u].ptr \in DOMAIN truth \cup {Null}
  BY <1>1, TruthMutual DEF Mutual
<1>6. Recorded(changed, changed', <<u, "ptr">>, truth[u].ptr)
  BY <1>1, <1>2, RecordIsRecorded
<1>7. \E V : Accounted(V, truth', committed, created, changed', deleted)
  BY <1>1, <1>2, <1>4, <1>6, AccountedPointer
<1>8. Holds(bin', truth') /\ Stays(bin, bin')
  BY <1>1, <1>2, <1>3, <1>5, MovePointerHolds
<1> QED
  BY <1>1, <1>2, <1>7, <1>8 DEF WholeInv, Stays

LEMMA DeleteObjectWhole ==
  ASSUME DefaultCache, CacheInv, WholeInv, DeleteObject
  PROVE  WholeInv'
<1> DEFINE u == openedObject
           ptr == bin.object[u].ptr
           nulled == IF ptr = Null THEN bin ELSE MovePointer(bin, u, Null)
           T1 == IF ptr = Null THEN truth ELSE Repointed(truth, u, Null)
           d == [uuid |-> u, object |-> nulled.object[u], dirty |-> nulled.dirty[u]]
<1>1. /\ u \in Uuid /\ u \in DOMAIN truth /\ truth[u] = bin.object[u] /\ truth[u] \in Content
      /\ OpenIsUsable /\ u # Null
  BY OpenedIsHeld, ConstantsAssumption DEF DeleteObject
<1>2. /\ bin' = IF nulled.fault = "none" THEN OutOfQueue(Gone(nulled, u), u) ELSE nulled
      /\ deleted' = <<d>> \o deleted
      /\ IF ptr = Null THEN UNCHANGED changed ELSE Record(<<u, "ptr">>, ptr)
      /\ truth' = Restrict(Repointed(truth, u, Null), DOMAIN truth \ {u})
      /\ bin.object[u] # Null /\ truth[u].back \subseteq {u}
      /\ openedObject' = Null /\ inTransaction
      /\ UNCHANGED <<inTransaction, created, committed>>
  BY <1>1 DEF DeleteObject, OpenIsUsable, Gone
<1>3. Roomy /\ Holds(bin, truth) /\ Mutual(truth) /\ truth[u].ptr = ptr
  BY <1>1, TruthMutual DEF DefaultCache, WholeInv
<1>4. PICK W : Accounted(W, truth, committed, created, changed, deleted)
  BY DEF WholeInv
<1>5. ptr \in DOMAIN truth \cup {Null}
  BY <1>1, <1>3 DEF Mutual
<1>6. IsRepointed(Repointed(truth, u, Null), truth, u, Null)
  BY <1>1, <1>3, RepointedFields DEF Mutual, Objects
<1>7. u \in truth[u].back <=> ptr = u
  BY <1>1, <1>3 DEF Mutual
<1>d. d.uuid = u /\ d.object = nulled.object[u] /\ d.dirty = nulled.dirty[u]
      /\ d = [uuid |-> u, object |-> nulled.object[u], dirty |-> nulled.dirty[u]]
  OBVIOUS
<1>n. /\ ptr = Null => nulled = bin /\ T1 = truth
      /\ ptr # Null => nulled = MovePointer(bin, u, Null) /\ T1 = Repointed(truth, u, Null)
  OBVIOUS
<1> HIDE DEF nulled, T1, ptr, d, u
<1>8. Holds(nulled, T1)
  <2>1. CASE ptr = Null
    BY <1>3, <1>n, <2>1
  <2>2. CASE ptr # Null
    <3>1. truth[u].ptr \in DOMAIN truth \cup {Null} /\ nulled = MovePointer(bin, u, Null)
      BY <1>3, <1>5, <1>n, <2>2
    <3>2. Holds(nulled, Repointed(truth, u, Null))
      BY <1>1, <1>2, <1>3, <3>1, MovePointerHolds
    <3> QED
      BY <1>n, <2>2, <3>2
  <2> QED
    BY <2>1, <2>2
<1>9. \E V : Accounted(V, T1, committed, created, changed', deleted)
  <2>1. CASE ptr = Null
    BY <1>2, <1>4, <1>n, <2>1
  <2>2. CASE ptr # Null
    <3>1. Recorded(changed, changed', <<u, "ptr">>, truth[u].ptr)
      BY <1>2, <1>3, <2>2, RecordIsRecorded
    <3>2. T1 = Repointed(truth, u, Null)
      BY <1>n, <2>2
    <3> QED
      BY <1>1, <1>4, <3>1, <3>2, AccountedPointer
  <2> QED
    BY <2>1, <2>2
<1>10. /\ DOMAIN T1 = DOMAIN truth /\ T1[u].ptr = Null /\ T1[u].back = {}
  <2>1. CASE ptr = Null
    BY <1>1, <1>2, <1>3, <1>7, <1>n, <2>1
  <2>2. CASE ptr # Null
    <3>1. /\ DOMAIN T1 = DOMAIN truth /\ T1[u].ptr = Null
          /\ T1[u].back = IF u = ptr THEN truth[u].back \ {u} ELSE truth[u].back
      BY <1>1, <1>3, <1>6, <1>n, <2>2 DEF IsRepointed
    <3> QED
      BY <1>2, <1>7, <3>1
  <2> QED
    BY <2>1, <2>2
<1>11. Loses(truth', T1, u)
  <2>1. /\ DOMAIN truth' = DOMAIN truth \ {u}
        /\ \A x \in DOMAIN truth' : truth'[x] = Repointed(truth, u, Null)[x]
    BY <1>2 DEF Restrict
  <2>2. CASE ptr # Null
    BY <1>10, <1>n, <2>1, <2>2 DEF Loses
  <2>3. CASE ptr = Null
    <3> SUFFICES ASSUME NEW x \in DOMAIN truth' PROVE truth'[x] = truth[x]
      BY <1>n, <2>1, <2>3 DEF Loses
    <3> DEFINE c == Repointed(truth, u, Null)[x]
    <3>1. x \in DOMAIN truth /\ x # u /\ x # Null /\ truth[x] \in Content /\ truth'[x] = c
      BY <1>3, <2>1, ConstantsAssumption DEF Mutual
    <3>2. c \in Content /\ c.val = truth[x].val /\ c.ptr = truth[x].ptr /\ c.back = truth[x].back
      BY <1>3, <1>6, <2>3, <3>1 DEF IsRepointed
    <3> HIDE DEF c
    <3> QED
      BY <3>1, <3>2, SameContent
  <2> QED
    BY <2>2, <2>3
<1>12. nulled.fault = "none"
  BY <1>8 DEF Holds
<1>13. Holds(bin', truth')
  BY <1>1, <1>2, <1>3, <1>8, <1>11, <1>12, TakenOutHolds
<1>14. /\ nulled.object[u] = T1[u] /\ nulled.object[u] \in Content /\ nulled.dirty[u] \in BOOLEAN
  <2>1. nulled.object[u] # Null
    <3>1. Stays(bin, nulled)
      <4>1. CASE ptr = Null
        BY <1>n, <4>1 DEF Stays
      <4>2. CASE ptr # Null
        <5>1. truth[u].ptr \in DOMAIN truth \cup {Null} /\ nulled = MovePointer(bin, u, Null)
          BY <1>3, <1>5, <1>n, <4>2
        <5> QED
          BY <1>1, <1>2, <1>3, <5>1, MovePointerHolds
      <4> QED
        BY <4>1, <4>2
    <3> QED
      BY <1>1, <1>2, <3>1 DEF Stays
  <2>2. u \in DOMAIN T1 /\ nulled \in BinState
    BY <1>1, <1>8, <1>10 DEF Holds, Neat, Placed
  <2> QED
    BY <1>1, <1>8, <2>1, <2>2 DEF Holds, InPlace, BinState
<1>15. WithOneMore(deleted, deleted', d)
  <2>1. deleted \in Seq(Deleted)
    BY DEF DeleteObject, CacheInv, ListsInv, DeletedAreAside
  <2>2. d \in Deleted
    BY <1>1, <1>14, <1>d DEF Deleted
  <2> QED
    BY <1>2, <2>1, <2>2, OneMoreInFront
<1>16. \E V : Accounted(V, truth', committed, created, changed', deleted')
  <2>1. u \in DOMAIN T1 /\ d.uuid = u /\ d.object = T1[u]
    BY <1>1, <1>10, <1>14, <1>d
  <2>2. /\ DOMAIN truth' = DOMAIN T1 \ {u}
        /\ \A x \in DOMAIN truth' : truth'[x] = T1[x]
    BY <1>11 DEF Loses
  <2> QED
    BY <1>9, <1>10, <1>15, <2>1, <2>2, AccountedDeletion
<1> QED
  BY <1>2, <1>13, <1>16 DEF WholeInv

LEMMA EnableCachingWhole ==
  ASSUME CacheInv', WholeInv, EnableCaching
  PROVE  WholeInv'
<1>1. /\ Neat(bin', Null) /\ bin' = [bin EXCEPT !.caching = TRUE]
      /\ UNCHANGED <<inTransaction, openedObject, created, changed, deleted, truth, committed>>
  BY DEF EnableCaching, CacheInv
<1>2. bin \in BinState
  BY DEF WholeInv, Holds, Neat, Placed
<1>3. /\ bin'.object = bin.object /\ bin'.location = bin.location /\ bin'.input = bin.input
      /\ bin'.limit = bin.limit /\ bin'.fault = bin.fault
  BY <1>1, <1>2 DEF BinState
<1>4. Holds(bin', truth)
  BY <1>1, <1>3 DEF WholeInv, Holds, InPlace
<1> QED
  BY <1>1, <1>3, <1>4 DEF WholeInv

LEMMA DisableCachingWhole ==
  ASSUME DefaultCache, CacheInv', WholeInv, DisableCaching
  PROVE  WholeInv'
<1> DEFINE ob == [u \in Uuid |-> IF u \in ToSet(bin.queue) THEN Null ELSE bin.object[u]]
<1>1. /\ Neat(bin', Null) /\ bin' = [FlushCache(bin) EXCEPT !.caching = FALSE]
      /\ bin.queue = << >>
      /\ UNCHANGED <<inTransaction, openedObject, created, changed, deleted, truth, committed>>
  BY DEF DisableCaching, CacheInv, DefaultCache
<1>2. bin \in BinState
  BY DEF WholeInv, Holds, Neat, Placed
<1>3. bin' = [bin EXCEPT !.object = ob, !.queue = << >>, !.caching = FALSE]
  BY <1>1 DEF FlushCache
<1>4. ToSet(bin.queue) = {}
  BY <1>1, EmptySeq DEF ToSet
<1>5. \A u \in Uuid : ob[u] = bin.object[u]
  BY <1>4
<1> HIDE DEF ob
<1>6. /\ bin'.object = ob /\ bin'.location = bin.location /\ bin'.input = bin.input
      /\ bin'.limit = bin.limit /\ bin'.fault = bin.fault
  BY <1>2, <1>3 DEF BinState
<1>7. Holds(bin', truth)
  BY <1>1, <1>5, <1>6 DEF WholeInv, Holds, InPlace
<1>8. openedObject # Null => openedObject \in Uuid
  BY <1>1 DEF CacheInv
<1> QED
  BY <1>1, <1>5, <1>6, <1>7, <1>8 DEF WholeInv

LEMMA SaveWhole ==
  ASSUME DefaultCache, CacheInv, WholeInv, Save
  PROVE  WholeInv'
<1> DEFINE file == [u \in Uuid |-> Written(bin, u)]
<1>1. /\ Holds(bin, truth) /\ Roomy /\ Mutual(truth)
      /\ ClearLists /\ truth' = truth /\ committed' = truth
  BY TruthMutual DEF Save, WholeInv, DefaultCache
<1>2. \A u \in Uuid : bin.location[u] = "Cache" => bin.object[u] # Null
  BY <1>1 DEF Holds, InPlace, Roomy
<1>3. bin' = Opened(file, bin.caching, NoLimit)
  BY <1>1, <1>2 DEF Save, Holds
<1>4. /\ \A u \in DOMAIN truth : file[u] = truth[u] /\ truth[u] \in Content
      /\ \A u \in Uuid : u \notin DOMAIN truth => file[u] = Null
      /\ DOMAIN truth \subseteq Uuid
  BY <1>1 DEF Holds, InPlace, Written
<1>5. IsFile(file)
  BY <1>4 DEF IsFile
<1>6. MayCache(bin.caching)
  BY <1>1 DEF MayCache, Holds, Neat, Placed, Lined, BinState
<1> HIDE DEF file
<1>7. Holds(bin', truth)
  BY <1>1, <1>3, <1>4, <1>5, <1>6, OpenedHolds
<1> QED
  BY <1>1, <1>7, EndedWhole

LEMMA NextWhole ==
  ASSUME DefaultCache, CacheInv, CacheInv', WholeInv, [Next]_vars
  PROVE  WholeInv'
<1>1. CASE UNCHANGED vars
  BY <1>1 DEF vars, WholeInv
<1>2. CASE BeginTransaction
  BY <1>2, BeginTransactionWhole
<1>3. CASE CommitTransaction
  BY <1>3, CommitTransactionWhole
<1>4. CASE AbortTransaction
  BY <1>4, AbortTransactionWhole
<1>5. CASE \E u \in Uuid : OpenObject(u)
  BY <1>5, OpenObjectWhole
<1>6. CASE \E u \in Uuid : CreateObject(u)
  BY <1>6, CreateObjectWhole
<1>7. CASE CloseObject
  BY <1>7, CloseObjectWhole
<1>8. CASE \E v \in Value : SetAttributeValue(v)
  BY <1>8, SetAttributeValueWhole
<1>9. CASE \E t \in Uuid \cup {Null} : SetPointerValue(t)
  BY <1>9, SetPointerValueWhole
<1>10. CASE DeleteObject
  BY <1>10, DeleteObjectWhole
<1>11. CASE \E l \in Limits : SetCacheSize(l)
  BY <1>11 DEF DefaultCache
<1>12. CASE DisableCaching
  BY <1>12, DisableCachingWhole
<1>13. CASE EnableCaching
  BY <1>13, EnableCachingWhole
<1>14. CASE Save
  BY <1>14, SaveWhole
<1> QED
  BY <1>1, <1>2, <1>3, <1>4, <1>5, <1>6, <1>7, <1>8, <1>9, <1>10, <1>11, <1>12, <1>13, <1>14
  DEF Next

LEMMA WholeInvariant ==
  ASSUME DefaultCache
  PROVE  Spec => []WholeInv
<1>1. Init => WholeInv
  BY InitWhole
<1>2. CacheInv /\ CacheInv' /\ WholeInv /\ [Next]_vars => WholeInv'
  BY NextWhole
<1> QED
  BY <1>1, <1>2, CacheInvariant, PTL DEF Spec

--------------------------------------------------------------------------------
(* The theorems about the default cache.                                   *)

(* Clients that leave the cache at BINFILE_DEFAULTCACHESIZE                *)
(* (Core/BinFile.cpp:16, the largest size there is) never lose a change:   *)
(* wherever an object is, what is kept of it is what the client wrote last *)
(* and, after TryAbortTransaction, what it was at the start, in whatever   *)
(* order the hash table gives the changes, for objects created, deleted or *)
(* pointed elsewhere in between too. The cache must have room for every    *)
(* object there can be: with a smaller one this is false (the run          *)
(* ScratchOverwrite).                                                      *)
THEOREM NothingIsLost ==
  ASSUME DefaultCache
  PROVE  Spec => []ContentPreserved
<1>1. WholeInv => ContentPreserved
  <2> SUFFICES ASSUME WholeInv PROVE ContentPreserved
    OBVIOUS
  <2>1. Holds(bin, truth)
    BY DEF WholeInv
  <2> QED
    BY <2>1 DEF Holds, InPlace, ContentPreserved, Running, Indexed, Written
<1> QED
  BY <1>1, WholeInvariant, PTL

--------------------------------------------------------------------------------
(* A cache of any size but zero, for clients that set no pointers.         *)

PlainClients == ~Pointers /\ ~MayFlush /\ 0 \notin Limits /\ NoLimit # 0 /\ Null \notin Content

IsPlain(c) == c = Null \/ c.ptr = Null

(* Nothing has failed; what is said to be in memory or in the input file   *)
(* is there; and no pointer is kept in any of the three places.            *)
Solid(s) ==
  /\ s.fault = "none" /\ s.limit # 0
  /\ \A u \in Uuid : s.location[u] = "Cache" => s.object[u] # Null
  /\ \A u \in Uuid : s.location[u] = "Input" => s.input[u] # Null
  /\ \A u \in Uuid : IsPlain(s.object[u]) /\ IsPlain(s.input[u])
  /\ \A i \in DOMAIN s.scratch : IsPlain(s.scratch[i])

(* u, if it is an object, is the one used last. *)
Ahead(s, u) == u = Null \/ (Len(s.queue) > 0 /\ s.queue[1] = u)

(* What an eviction leaves in the scratch file. *)
LEMMA EvictBackScratch ==
  ASSUME NEW s \in BinState, s.cursor \in 1 .. Len(s.scratch) + 1,
         s.fault = "none", Len(s.queue) > s.limit, s.object[Last(s.queue)] # Null,
         NEW t, t = EvictBack(s),
         \A i \in DOMAIN s.scratch : IsPlain(s.scratch[i]),
         IsPlain(s.object[Last(s.queue)])
  PROVE  \A i \in DOMAIN t.scratch : IsPlain(t.scratch[i])
<1> DEFINE u == Last(s.queue)
           c == s.scratch
           o == s.object[u]
           w == IF s.cursor > Len(c) THEN Append(c, o) ELSE [c EXCEPT ![s.cursor] = o]
<1>1. /\ s.queue \in Seq(Uuid) /\ s.limit \in Nat /\ s.scratch \in Seq(Content)
      /\ s.object \in [Uuid -> Content \cup {Null}] /\ s.cursor \in Nat
      /\ DOMAIN s = {"location", "object", "dirty", "position", "queue", "caching",
                     "limit", "input", "scratch", "cursor", "fault"}
  BY DEF BinState
<1>2. u \in Uuid
  BY <1>1, FrontLast, LenProperties
<1>3. o \in Content /\ IsPlain(o)
  BY <1>1, <1>2
<1>4. ~(s.fault # "none" \/ Len(s.queue) <= s.limit) /\ s.object[u] # Null
  BY <1>1, LenProperties
<1>5. t.scratch = IF s.dirty[u] THEN w ELSE c
  <2>1. CASE s.dirty[u]
    <3> DEFINE p == ToScratch(s, u)
    <3>1. p.scratch = w /\ DOMAIN p = DOMAIN s
      BY <1>1 DEF ToScratch
    <3>2. t = [p EXCEPT !.object[u] = Null, !.queue = Front(p.queue)]
      BY <1>4, <2>1 DEF EvictBack
    <3> HIDE DEF p, w
    <3> QED
      BY <1>1, <2>1, <3>1, <3>2
  <2>2. CASE ~s.dirty[u]
    <3> DEFINE p == [s EXCEPT !.location[u] = "Input"]
    <3>1. p.scratch = c /\ DOMAIN p = DOMAIN s
      BY <1>1
    <3>2. t = [p EXCEPT !.object[u] = Null, !.queue = Front(p.queue)]
      BY <1>4, <2>2 DEF EvictBack
    <3> HIDE DEF p, w
    <3> QED
      BY <1>1, <2>2, <3>1, <3>2
  <2> QED
    BY <2>1, <2>2
<1>6. \A i \in DOMAIN w : IsPlain(w[i])
  <2>1. Len(c) \in Nat /\ DOMAIN c = 1 .. Len(c)
    BY <1>1, LenProperties
  <2>2. CASE s.cursor > Len(c)
    <3>1. w = Append(c, o)
      BY <2>2
    <3> HIDE DEF w, o
    <3>2. /\ Len(w) = Len(c) + 1 /\ w \in Seq(Content)
          /\ \A i \in 1 .. Len(c) : w[i] = c[i]
          /\ w[Len(c) + 1] = o
      BY <1>1, <1>3, <3>1, AppendProperties
    <3>3. DOMAIN w = 1 .. Len(c) + 1
      BY <3>2, LenProperties
    <3> QED
      BY <1>3, <2>1, <3>2, <3>3
  <2>3. CASE ~(s.cursor > Len(c))
    <3>1. w = [c EXCEPT ![s.cursor] = o]
      BY <2>3
    <3> HIDE DEF w, o
    <3> QED
      BY <1>3, <3>1
  <2> QED
    BY <2>2, <2>3
<1> HIDE DEF w, c
<1> QED
  BY <1>5, <1>6 DEF c

(* An eviction takes another object than the one used last.                *)
LEMMA EvictBackSolid ==
  ASSUME NEW s, NEW u \in Uuid \cup {Null}, NEW x \in {u, Null},
         Neat(s, x), Solid(s), Ahead(s, u)
  PROVE  Solid(EvictBack(s)) /\ Ahead(EvictBack(s), u)
<1> DEFINE t == EvictBack(s)
           w == Last(s.queue)
<1>1. /\ s \in BinState /\ s.cursor \in 1 .. Len(s.scratch) + 1
      /\ s.fault = "none" /\ Lined(s) /\ CleanBut(s, x)
  BY DEF Neat, Placed, Solid
<1>2. /\ s.queue \in Seq(Uuid) /\ s.limit \in Nat /\ s.limit # 0 /\ Len(s.queue) \in Nat
      /\ s.object \in [Uuid -> Content \cup {Null}]
      /\ s.location \in [Uuid -> {"none", "Input", "Cache", "Scratch"}]
  BY <1>1, LenProperties DEF BinState, Solid
<1>3. CASE Len(s.queue) <= s.limit
  <2>1. t = s
    BY <1>3 DEF EvictBack
  <2> QED
    BY <2>1
<1>4. CASE ~(Len(s.queue) <= s.limit)
  <2>1. Len(s.queue) > s.limit /\ Len(s.queue) > 1
    BY <1>2, <1>4
  <2>2. /\ w \in Uuid /\ w \in ToSet(s.queue) /\ w \notin ToSet(Front(s.queue))
        /\ Front(s.queue) \in Seq(Uuid)
        /\ DOMAIN Front(s.queue) = 1 .. (Len(s.queue) - 1)
        /\ Len(Front(s.queue)) = Len(s.queue) - 1
        /\ \A i \in DOMAIN Front(s.queue) : Front(s.queue)[i] = s.queue[i]
    <3>1. IsInjective(s.queue) /\ Len(s.queue) > 0
      BY <1>1, <1>2, <2>1 DEF Lined
    <3> QED
      BY <1>2, <3>1, FrontLast
  <2>3. s.object[w] # Null /\ s.location[w] = "Cache"
    BY <1>1, <2>2 DEF Lined, Solid
  <2>4. 1 \in DOMAIN Front(s.queue) /\ Len(Front(s.queue)) > 0
    BY <1>2, <2>1, <2>2
  <2>5. Front(s.queue)[1] = s.queue[1] /\ s.queue[1] # w
    BY <2>2, <2>4 DEF ToSet
  <2> HIDE DEF t, w
  <2>6. /\ w \in Uuid
        /\ t \in BinState
        /\ t.object = [s.object EXCEPT ![w] = Null] /\ t.queue = Front(s.queue)
        /\ t.dirty = s.dirty /\ t.caching = s.caching /\ t.limit = s.limit
        /\ t.input = s.input /\ t.fault = "none"
        /\ \/ /\ s.dirty[w]
              /\ t.location = [s.location EXCEPT ![w] = "Scratch"]
              /\ t.position = [s.position EXCEPT ![w] = s.cursor]
              /\ t.cursor = s.cursor + 1
              /\ Len(t.scratch) >= Len(s.scratch) /\ s.cursor \in 1 .. Len(t.scratch)
           \/ /\ ~s.dirty[w]
              /\ t.location = [s.location EXCEPT ![w] = "Input"]
              /\ t.position = s.position /\ t.cursor = s.cursor /\ t.scratch = s.scratch
    BY <1>1, <2>1, <2>3, EvictBackFields DEF t, w
  <2>7. \A i \in DOMAIN t.scratch : IsPlain(t.scratch[i])
    BY <1>1, <2>1, <2>2, <2>3, EvictBackScratch DEF t, w, Solid
  <2>8. Ahead(t, u)
    BY <2>4, <2>5, <2>6 DEF Ahead
  <2>9. w # x
    BY <2>2, <2>5, ConstantsAssumption DEF Ahead
  <2>10. ~s.dirty[w] => s.input[w] # Null
    BY <1>1, <2>2, <2>3, <2>9 DEF CleanBut
  <2>11. /\ \A y \in Uuid : t.location[y] = "Cache" => t.object[y] # Null
         /\ \A y \in Uuid : t.location[y] = "Input" => t.input[y] # Null
         /\ \A y \in Uuid : IsPlain(t.object[y]) /\ IsPlain(t.input[y])
    BY <1>2, <2>2, <2>6, <2>10 DEF Solid, IsPlain
  <2> QED
    BY <1>2, <2>6, <2>7, <2>8, <2>11 DEF Solid, t
<1> QED
  BY <1>3, <1>4

LEMMA CheckCacheSizeSolid ==
  ASSUME NEW s, NEW u \in Uuid \cup {Null}, NEW x \in {u, Null},
         Neat(s, x), Solid(s), Ahead(s, u)
  PROVE  Solid(CheckCacheSize(s)) /\ Ahead(CheckCacheSize(s), u)
<1> DEFINE V == {t \in BinState : Neat(t, x) /\ Solid(t) /\ Ahead(t, u)}
<1>1. s \in V /\ s.queue \in Seq(Uuid)
  BY DEF Neat, Placed, BinState
<1>2. ASSUME NEW t \in V PROVE EvictBack(t) \in V
  <2>1. /\ Neat(EvictBack(t), x)
        /\ Solid(EvictBack(t)) /\ Ahead(EvictBack(t), u)
    BY EvictBackNeat, EvictBackSolid
  <2>2. EvictBack(t) \in BinState
    BY <2>1 DEF Neat, Placed
  <2> QED
    BY <2>1, <2>2
<1> HIDE DEF V
<1>3. CheckCacheSize(s) \in V
  BY <1>1, <1>2, CheckCacheSizeTurns
<1> QED
  BY <1>3 DEF V

(* An object read from a file is in memory after the cache is trimmed.     *)
LEMMA FromFileSolid ==
  ASSUME Null \notin Content, NEW s, Neat(s, Null), Solid(s), NEW u \in Uuid,
         s.location[u] \notin {"Cache", "none"}, NEW c \in Content, IsPlain(c), NEW x,
         (x = Null /\ c = s.input[u]) \/ x = u,
         NEW r, r = FromFile(s, u, c)
  PROVE  Solid(r) /\ r.object[u] # Null
<1> DEFINE d == FALSE
           p == PlaceIn(s, u, c, d, "Cache")
           t == InFront(p, u)
<1>1. s \in BinState /\ s.cursor \in 1 .. Len(s.scratch) + 1 /\ s.fault = "none"
  BY DEF Neat, Placed, Solid
<1>2. r = Trimmed(t)
  BY DEF FromFile, PlaceIn
<1>d. d \in BOOLEAN
  OBVIOUS
<1> HIDE DEF d, p
<1>3. IsPlacedIn(s, p, u, c, d, "Cache") /\ p.queue = s.queue /\ p.cursor = s.cursor
  BY <1>1, <1>d, PlaceFields DEF p
<1>p. p \in BinState /\ SameFiles(s, p)
  BY <1>3 DEF IsPlacedIn
<1>4. /\ t \in BinState /\ t.queue = Queued(p, u)
      /\ t.object = p.object /\ t.dirty = p.dirty /\ t.location = p.location
      /\ t.position = p.position /\ t.caching = p.caching /\ t.limit = p.limit
      /\ t.input = p.input /\ t.scratch = p.scratch /\ t.cursor = p.cursor
      /\ t.fault = p.fault
  BY <1>p, InFrontFields
<1> HIDE DEF t
<1>5. Queued(p, u) = Queued(s, u)
  BY <1>3, <1>p DEF Queued, SameFiles
<1>6. IsPlacedIn(s, t, u, c, d, "Cache")
  BY <1>3, <1>4 DEF IsPlacedIn, SameFiles
<1>7. Neat(t, x)
  <2>2. t.cursor \in 1 .. Len(t.scratch) + 1 /\ t.queue = Queued(s, u)
    BY <1>1, <1>3, <1>4, <1>5, <1>p DEF SameFiles
  <2>3. s.location[u] # "Cache" /\ s.location[u] # "none"
        /\ (x = Null \/ x = u) /\ (x = u \/ c = Null \/ d \/ c = s.input[u])
    OBVIOUS
  <2> QED
    BY <1>1, <1>d, <1>6, <2>2, <2>3, BroughtIn
<1>8. /\ s.object \in [Uuid -> Content \cup {Null}]
      /\ s.location \in [Uuid -> {"none", "Input", "Cache", "Scratch"}]
      /\ s.queue \in Seq(Uuid)
  BY <1>1 DEF BinState
<1>9. /\ t.location[u] = "Cache" /\ t.object[u] = c
      /\ \A w \in Uuid : w # u => t.location[w] = s.location[w] /\ t.object[w] = s.object[w]
  BY <1>6, <1>8 DEF IsPlacedIn
<1>10. Solid(t)
  BY <1>6, <1>9 DEF Solid, IsPlacedIn, SameFiles
<1>11. CASE t.caching
  <2>1. s.caching /\ t.queue = <<u>> \o s.queue
    BY <1>3, <1>4, <1>5, <1>11, <1>p DEF Queued, SameFiles
  <2>2. Ahead(t, u)
    <3>1. Len(s.queue) \in Nat /\ <<u>> \in Seq(Uuid) /\ Len(<<u>>) = 1
      BY <1>8, LenProperties
    <3>2. Len(t.queue) = 1 + Len(s.queue) /\ t.queue[1] = u
      BY <1>8, <2>1, <3>1
    <3> QED
      BY <3>1, <3>2 DEF Ahead
  <2>3. r = CheckCacheSize(t)
    BY <1>2, <1>11 DEF Trimmed
  <2>4. Solid(r) /\ Ahead(r, u) /\ Neat(r, x)
    BY <1>7, <1>10, <2>2, <2>3, CheckCacheSizeSolid, CheckCacheSizeNeat
  <2>5. r.object[u] # Null
    <3>1. r.queue \in Seq(Uuid) /\ Lined(r)
      BY <2>4 DEF Neat, Placed, Solid, BinState
    <3>2. Len(r.queue) > 0 /\ r.queue[1] = u /\ Len(r.queue) \in Nat
          /\ DOMAIN r.queue = 1 .. Len(r.queue)
      BY <2>4, <3>1, LenProperties, ConstantsAssumption DEF Ahead
    <3>3. u \in ToSet(r.queue)
      BY <3>2 DEF ToSet
    <3> QED
      BY <2>4, <3>1, <3>3 DEF Lined, Solid
  <2> QED
    BY <2>4, <2>5
<1>12. CASE ~t.caching
  <2>1. r = t
    BY <1>2, <1>12 DEF Trimmed
  <2> QED
    BY <1>9, <1>10, <2>1
<1> QED
  BY <1>11, <1>12

(* A fetch of an indexed object finds it, whatever has to leave for it.    *)
LEMMA FetchSolid ==
  ASSUME Null \notin Content, NEW s, Neat(s, Null), Solid(s), NEW u \in Uuid,
         NEW t, t = FetchObject(s, u)
  PROVE  /\ Solid(t)
         /\ s.location[u] # "none" => t.object[u] # Null
<1>1. s \in BinState /\ Placed(s) /\ s.fault = "none"
  BY DEF Neat, Placed, Solid
<1>2. /\ s.input \in [Uuid -> Content \cup {Null}]
      /\ s.location[u] \in {"none", "Input", "Cache", "Scratch"}
      /\ s.scratch \in Seq(Content) /\ s.position[u] \in Nat
  BY <1>1 DEF BinState
<1>3. CASE s.location[u] = "none"
  BY <1>3 DEF FetchObject
<1>4. CASE s.location[u] = "Cache"
  <2>1. t = InFront(OutOfQueue(s, u), u)
    BY <1>4 DEF FetchObject
  <2>2. /\ t.object = s.object /\ t.location = s.location /\ t.input = s.input
        /\ t.fault = "none"
    BY <1>1, <1>4, <2>1, RequeuedNeat
  <2>3. t.scratch = s.scratch /\ t.limit = s.limit
    <3> DEFINE p == OutOfQueue(s, u)
    <3>1. p \in BinState /\ p.scratch = s.scratch /\ p.limit = s.limit
      BY <1>1, OutOfQueueFields
    <3>2. t = InFront(p, u)
      BY <2>1
    <3> HIDE DEF p
    <3> QED
      BY <3>1, <3>2, InFrontFields
  <2> QED
    BY <1>4, <2>2, <2>3 DEF Solid
<1>5. CASE s.location[u] = "Input"
  <2>1. t = FromFile(s, u, s.input[u])
    BY <1>5 DEF FetchObject
  <2>2. s.input[u] \in Content /\ IsPlain(s.input[u]) /\ s.location[u] \notin {"Cache", "none"}
    BY <1>2, <1>5 DEF Solid
  <2> QED
    BY <2>1, <2>2, FromFileSolid
<1>6. CASE s.location[u] = "Scratch"
  <2> DEFINE p == s.position[u]
             r == [s EXCEPT !.cursor = p + 1]
             m == FromFile(r, u, s.scratch[p])
  <2>1. t = MarkDirty(m, u)
    BY <1>6 DEF FetchObject, FromScratch
  <2>2. /\ p \in 1 .. Len(s.scratch) /\ s.scratch[p] \in Content /\ Len(s.scratch) \in Nat
        /\ IsPlain(s.scratch[p])
    BY <1>1, <1>2, <1>6, LenProperties, ElementOfSeq DEF Placed, Solid
  <2>3. p + 1 \in Nat /\ p + 1 \in 1 .. Len(s.scratch) + 1
    BY <2>2
  <2> HIDE DEF p
  <2>4. /\ r \in BinState /\ r.cursor = p + 1 /\ r.queue = s.queue
        /\ r.object = s.object /\ r.dirty = s.dirty /\ r.location = s.location
        /\ r.position = s.position /\ r.caching = s.caching /\ r.limit = s.limit
        /\ r.input = s.input /\ r.scratch = s.scratch
        /\ r.fault = s.fault
    BY <1>1, <2>3, CursorFields
  <2> HIDE DEF r
  <2>5. Neat(r, Null) /\ Solid(r)
    BY <2>3, <2>4 DEF Neat, Placed, Lined, CleanBut, Solid
  <2>6. r.location[u] \notin {"Cache", "none"} /\ r.fault = "none"
    BY <1>1, <1>6, <2>4
  <2>7. Solid(m) /\ m.object[u] # Null
    BY <2>2, <2>5, <2>6, FromFileSolid
  <2>8. m \in BinState
    BY <2>2, <2>5, <2>6, FromFileNeat DEF Neat, Placed
  <2> HIDE DEF m
  <2>9. t = Dirtied(m, u)
    BY <2>1, <2>7 DEF MarkDirty, Dirtied
  <2>10. /\ t \in BinState /\ t.dirty = [m.dirty EXCEPT ![u] = TRUE]
         /\ t.cursor = m.cursor /\ t.queue = m.queue
         /\ t.object = m.object /\ t.location = m.location
         /\ t.position = m.position /\ t.caching = m.caching /\ t.limit = m.limit
         /\ t.input = m.input /\ t.scratch = m.scratch
         /\ t.fault = m.fault
    BY <2>8, <2>9, DirtyFields
  <2> QED
    BY <2>7, <2>10 DEF Solid
<1> QED
  BY <1>2, <1>3, <1>4, <1>5, <1>6

LEMMA PutBackSolid ==
  ASSUME NEW s, Neat(s, Null), Solid(s), NEW d \in Deleted,
         s.location[d.uuid] = "none", MayReturn(d, s.input),
         d.object # Null, IsPlain(d.object),
         NEW t, t = PutBack(s, d)
  PROVE  Solid(t)
<1> DEFINE u == d.uuid
           b == d.dirty
           c == d.object
           p == PlaceIn(s, u, c, b, "Cache")
<1>1. s \in BinState /\ s.fault = "none"
  BY DEF Neat, Placed, Solid
<1>2. u \in Uuid /\ c \in Content \cup {Null} /\ b \in BOOLEAN
  BY DEF Deleted
<1>3. t = InFront(p, u)
  BY DEF PutBack, PlaceIn
<1>4. /\ t.fault = "none" /\ t.input = s.input /\ t.limit = s.limit
      /\ t.location[u] = "Cache" /\ t.object[u] = c
      /\ \A w \in Uuid : w # u => t.location[w] = s.location[w] /\ t.object[w] = s.object[w]
  BY <1>1, PutBackNeat
<1>5. c # Null /\ IsPlain(c)
  OBVIOUS
<1> HIDE DEF u, b, c
<1>6. p = PlaceIn(s, u, c, b, "Cache") /\ "Cache" \in {"none", "Input", "Cache", "Scratch"}
  OBVIOUS
<1> HIDE DEF p
<1>7. IsPlacedIn(s, p, u, c, b, "Cache")
  BY <1>1, <1>2, <1>6, PlaceFields
<1>8. p \in BinState /\ p.scratch = s.scratch
  BY <1>7 DEF IsPlacedIn, SameFiles
<1>9. t.scratch = s.scratch
  BY <1>2, <1>3, <1>8, InFrontFields
<1> QED
  BY <1>4, <1>5, <1>9 DEF Solid

LEMMA TakenOutSolid ==
  ASSUME NEW s, Neat(s, Null), Solid(s), NEW u \in Uuid,
         NEW t, t = OutOfQueue(Gone(s, u), u)
  PROVE  Solid(t)
<1> DEFINE p == Gone(s, u)
<1>1. s \in BinState /\ s.fault = "none"
  BY DEF Neat, Placed, Solid
<1>2. /\ t.fault = "none" /\ t.input = s.input /\ t.limit = s.limit
      /\ t.location[u] = "none"
      /\ \A w \in Uuid : w # u => t.location[w] = s.location[w] /\ t.object[w] = s.object[w]
  BY <1>1, TakenOut
<1>3. /\ p \in BinState /\ SameFiles(s, p)
      /\ p.object = [s.object EXCEPT ![u] = Null]
      /\ p.location = [s.location EXCEPT ![u] = "none"]
      /\ p.dirty = s.dirty /\ p.queue = s.queue /\ p.cursor = s.cursor
  BY <1>1, GoneFields
<1>4. t = OutOfQueue(p, u)
  OBVIOUS
<1> HIDE DEF p
<1>5. t.scratch = p.scratch /\ t.object = p.object
  BY <1>3, <1>4, OutOfQueueFields
<1>6. t.scratch = s.scratch /\ t.object[u] = Null
  BY <1>1, <1>3, <1>5 DEF SameFiles, BinState
<1> QED
  BY <1>2, <1>6 DEF Solid, IsPlain

(* An object found in memory gets another plain content.                   *)
LEMMA ModifySolid ==
  ASSUME NEW s, Neat(s, Null), Solid(s), NEW u \in Uuid, s.object[u] # Null, NEW how,
         NEW c \in Content, c # Null, IsPlain(c),
         NEW t, t = Modify(s, u, c, how)
  PROVE  Solid(t) /\ Stays(s, t) /\ t.location = s.location
<1>1. s \in BinState /\ s.fault = "none"
  BY DEF Neat, Placed, Solid
<1>2. t = Rewritten(s, u, c)
  BY <1>1 DEF Modify, Rewritten
<1>3. /\ t \in BinState /\ SameFiles(s, t)
      /\ t.object = [s.object EXCEPT ![u] = c]
      /\ t.dirty = [s.dirty EXCEPT ![u] = TRUE]
      /\ t.location = s.location /\ t.queue = s.queue /\ t.cursor = s.cursor
  BY <1>1, <1>2, RewrittenFields
<1>4. \A w \in Uuid : t.object[w] = IF w = u THEN c ELSE s.object[w]
  BY <1>1, <1>3 DEF BinState
<1> QED
  BY <1>3, <1>4 DEF Solid, SameFiles, Stays

LEMMA RollBackSolid ==
  ASSUME Null \notin Content, ChangesAreTyped, NEW s, Neat(s, Null), Solid(s),
         NEW k \in DOMAIN changed, k[2] = "val", s.location[k[1]] # "none",
         NEW t, t = RollBack(s, k)
  PROVE  Solid(t)
<1> DEFINE u == k[1]
           f == FetchObject(s, u)
           c == [f.object[u] EXCEPT !.val = changed[k]]
<1>1. u \in Uuid /\ changed[k] \in Value /\ s.fault = "none"
  BY DEF ChangesAreTyped, Key, Solid
<1>2. Neat(f, Null)
  BY <1>1, FetchObjectNeat
<1>3. Solid(f) /\ f.object[u] # Null
  BY <1>1, FetchSolid
<1>4. t = Modify(f, u, c, "assert")
  BY <1>1, <1>3 DEF RollBack
<1>5. f.object[u] \in Content /\ IsPlain(f.object[u])
  BY <1>1, <1>2, <1>3 DEF Neat, Placed, BinState, Solid
<1>6. c \in Content /\ c.ptr = f.object[u].ptr
  BY <1>1, <1>5 DEF Content
<1> HIDE DEF c, f, u
<1>7. IsPlain(c) /\ c # Null
  BY <1>3, <1>5, <1>6 DEF IsPlain
<1> QED
  BY <1>1, <1>2, <1>3, <1>4, <1>6, <1>7, ModifySolid

LEMMA UncreateSolid ==
  ASSUME Null \notin Content, NEW s, Neat(s, Null), Solid(s), NEW u \in Uuid,
         s.location[u] # "none", NEW t, t = Uncreate(s, u)
  PROVE  Solid(t)
<1> DEFINE f == FetchObject(s, u)
<1>1. s.fault = "none"
  BY DEF Solid
<1>2. Neat(f, Null) /\ Solid(f) /\ f.object[u] # Null
  BY <1>1, FetchObjectNeat, FetchSolid
<1>3. t = OutOfQueue(Gone(f, u), u)
  BY <1>1, <1>2 DEF Uncreate, Gone
<1> HIDE DEF f
<1> QED
  BY <1>2, <1>3, TakenOutSolid

(* The objects put aside are whole and plain; a listed object is indexed   *)
(* or among them.                                                          *)
PutAside == \A i \in DOMAIN deleted : deleted[i].object # Null /\ IsPlain(deleted[i].object)
Found(u) == bin.location[u] # "none" \/ \E i \in DOMAIN deleted : deleted[i].uuid = u
ChangedFound == \A k \in DOMAIN changed : k[2] = "val" /\ Found(k[1])
CreatedFound == \A i \in DOMAIN created : Found(created[i])

SmallInv ==
  /\ Solid(bin)
  /\ ChangedFound /\ CreatedFound
  /\ IsInjective(created)
  /\ PutAside
  /\ openedObject # Null => bin.object[openedObject] # Null
  /\ ~inTransaction => openedObject = Null

LEMMA PutBackLoopSolid ==
  ASSUME Neat(bin, Null), Solid(bin), ListsInv, PutAside,
         NEW t, t = AllBack(bin, deleted)
  PROVE  Solid(t) /\ \A u \in Uuid : Found(u) => t.location[u] # "none"
<1> DEFINE n == Len(deleted)
           q == deleted
           W == [k \in 0 .. n |->
                  {s \in BinState :
                     /\ Neat(s, Null) /\ Solid(s) /\ s.input = bin.input
                     /\ \A i \in 1 .. n : i > k => s.location[q[i].uuid] = "none"
                     /\ \A i \in 1 .. n : i <= k => s.location[q[i].uuid] # "none"
                     /\ \A u \in Uuid : bin.location[u] # "none" => s.location[u] # "none"}]
<1>1. n \in Nat /\ DOMAIN q = 1 .. n /\ \A k \in 1 .. n : q[k] \in Deleted
  BY LenProperties, ElementOfSeq DEF ListsInv, DeletedAreAside
<1>2. bin \in BinState
  BY DEF Neat, Placed
<1>3. ASSUME NEW k \in 1 .. n, NEW s \in BinState
      PROVE  PutBack(s, q[k]) \in BinState
  <2> DEFINE u == q[k].uuid
             c == q[k].object
             b == q[k].dirty
             p == PlaceIn(s, u, c, b, "Cache")
  <2>1. u \in Uuid /\ c \in Content \cup {Null} /\ b \in BOOLEAN
    BY <1>1 DEF Deleted
  <2>2. PutBack(s, q[k]) = InFront(p, u)
    BY DEF PutBack, PlaceIn
  <2> HIDE DEF u, c, b
  <2>3. p = PlaceIn(s, u, c, b, "Cache") /\ "Cache" \in {"none", "Input", "Cache", "Scratch"}
    OBVIOUS
  <2> HIDE DEF p
  <2>4. IsPlacedIn(s, p, u, c, b, "Cache")
    BY <2>1, <2>3, PlaceFields
  <2>5. p \in BinState
    BY <2>4 DEF IsPlacedIn
  <2> QED
    BY <2>1, <2>2, <2>5, InFrontFields
<1> HIDE DEF n
<1>q. t = AllBack(bin, q)
  OBVIOUS
<1>i. /\ \A i, j \in 1 .. n : q[i].uuid = q[j].uuid => i = j
      /\ \A i \in 1 .. n : /\ bin.location[q[i].uuid] = "none"
                           /\ MayReturn(q[i], bin.input)
                           /\ q[i].object # Null /\ IsPlain(q[i].object)
      /\ \A u \in Uuid : Found(u) => bin.location[u] # "none" \/ \E i \in 1 .. n : q[i].uuid = u
  BY <1>1 DEF ListsInv, DeletedAreAside, PutAside, Found
<1> HIDE DEF q
<1>4. PICK h : /\ h \in [0 .. n -> BinState]
               /\ h[0] = bin
               /\ \A k \in 1 .. n : h[k] = PutBack(h[k - 1], q[k])
               /\ t = h[n]
  <2> HIDE DEF W
  <2>1. n \in Nat /\ DOMAIN q = 1 .. n
    BY <1>1
  <2>2. \A k \in 1 .. n, r \in BinState : PutBack(r, q[k]) \in BinState
    BY <1>3
  <2>3. \E h : PutBackRun(h, n, BinState, bin, q) /\ AllBack(bin, q) = h[n]
    BY <1>2, <2>1, <2>2, PutBackTurns
  <2> QED
    BY <1>q, <2>3 DEF PutBackRun
<1>5. h[0] \in W[0]
  <2>1. 0 \in 0 .. n /\ \A i \in 1 .. n : ~(i <= 0)
    BY <1>1
  <2> QED
    BY <1>1, <1>2, <1>4, <1>i, <2>1
<1>6. ASSUME NEW k \in 1 .. n, h[k - 1] \in W[k - 1]
      PROVE  h[k] \in W[k]
  <2> DEFINE s == h[k - 1]
             r == h[k]
             d == q[k]
  <2>1. k - 1 \in 0 .. n /\ k \in 0 .. n /\ k > k - 1 /\ k \in Nat
    BY <1>1
  <2>2. /\ Neat(s, Null) /\ Solid(s) /\ s.input = bin.input
        /\ \A i \in 1 .. n : i > k - 1 => s.location[q[i].uuid] = "none"
        /\ \A i \in 1 .. n : i <= k - 1 => s.location[q[i].uuid] # "none"
        /\ \A u \in Uuid : bin.location[u] # "none" => s.location[u] # "none"
    BY <1>6, <2>1
  <2>3. r = PutBack(s, d) /\ d \in Deleted /\ r \in BinState
    BY <1>1, <1>4, <2>1
  <2>4. /\ s.location[d.uuid] = "none" /\ MayReturn(d, s.input)
        /\ d.object # Null /\ IsPlain(d.object) /\ s.fault = "none"
    BY <1>i, <2>1, <2>2 DEF Solid
  <2> HIDE DEF s, d, r, W
  <2>5. /\ Neat(r, Null)
        /\ r.fault = "none" /\ r.input = s.input /\ r.limit = s.limit /\ r.caching = s.caching
        /\ r.location[d.uuid] = "Cache" /\ r.object[d.uuid] = d.object
        /\ \A w \in Uuid : w # d.uuid => /\ r.location[w] = s.location[w]
                                        /\ r.object[w] = s.object[w]
    BY <2>2, <2>3, <2>4, PutBackNeat
  <2>6. Solid(r)
    BY <2>2, <2>3, <2>4, PutBackSolid
  <2>7. \A i \in 1 .. n : i > k => r.location[q[i].uuid] = "none"
    <3> SUFFICES ASSUME NEW i \in 1 .. n, i > k PROVE r.location[q[i].uuid] = "none"
      OBVIOUS
    <3>1. q[i].uuid # d.uuid /\ i > k - 1 /\ q[i].uuid \in Uuid
      BY <1>1, <1>i, <2>1 DEF d, Deleted
    <3> QED
      BY <2>2, <2>5, <3>1
  <2>8. \A i \in 1 .. n : i <= k => r.location[q[i].uuid] # "none"
    <3> SUFFICES ASSUME NEW i \in 1 .. n, i <= k PROVE r.location[q[i].uuid] # "none"
      OBVIOUS
    <3>1. CASE i = k
      BY <2>5, <3>1 DEF d
    <3>2. CASE i # k
      <4>1. i <= k - 1 /\ q[i].uuid \in Uuid
        BY <1>1, <2>1, <3>2 DEF Deleted
      <4> QED
        BY <2>2, <2>5, <4>1
    <3> QED
      BY <3>1, <3>2
  <2>9. \A u \in Uuid : bin.location[u] # "none" => r.location[u] # "none"
    BY <2>2, <2>5
  <2>10. r \in W[k]
    BY <2>1, <2>2, <2>3, <2>5, <2>6, <2>7, <2>8, <2>9 DEF W
  <2> QED
    BY <2>10 DEF r
<1> HIDE DEF W
<1>7. \A k \in 0 .. n : h[k] \in W[k]
  BY <1>1, <1>5, <1>6, TurnsKeep
<1>8. n \in 0 .. n /\ \A i \in 1 .. n : i <= n
  BY <1>1
<1>9. t \in W[n]
  BY <1>4, <1>7, <1>8
<1>10. /\ Solid(t) /\ \A i \in 1 .. n : t.location[q[i].uuid] # "none"
       /\ \A u \in Uuid : bin.location[u] # "none" => t.location[u] # "none"
  BY <1>8, <1>9 DEF W
<1> QED
  BY <1>10, <1>i

LEMMA RollBackLoopSolid ==
  ASSUME Null \notin Content, ChangesAreTyped, NEW s, Neat(s, Null), Solid(s),
         \A k \in DOMAIN changed : k[2] = "val" /\ s.location[k[1]] # "none",
         NEW order \in SetToSeqs(DOMAIN changed),
         NEW t, t = AllRolledBack(s, order)
  PROVE  Solid(t)
<1> DEFINE n == Cardinality(DOMAIN changed)
           V == {r \in BinState : Neat(r, Null) /\ Moved(s, r) /\ Solid(r)}
<1>1. n \in Nat
  BY FS_CardinalityType DEF ChangesAreTyped
<1>2. order \in [1 .. n -> DOMAIN changed]
  BY DEF SetToSeqs
<1>3. DOMAIN order = 1 .. n /\ \A k \in 1 .. n : order[k] \in DOMAIN changed
  BY <1>2
<1>4. s \in V
  BY DEF Neat, Placed, Moved
<1>5. ASSUME NEW r \in V, NEW k \in 1 .. n
      PROVE  RollBack(r, order[k]) \in V
  <2> DEFINE m == RollBack(r, order[k])
             e == order[k]
  <2>1. Neat(r, Null) /\ Moved(s, r) /\ Solid(r) /\ e \in DOMAIN changed
    BY <1>3
  <2>2. e[2] = "val" /\ r.location[e[1]] # "none"
    <3>1. e[1] \in Uuid /\ e[2] = "val" /\ s.location[e[1]] # "none"
      BY <2>1 DEF ChangesAreTyped, Key
    <3> QED
      BY <2>1, <3>1 DEF Moved, Solid
  <2>3. m = RollBack(r, e)
    OBVIOUS
  <2> HIDE DEF m, e
  <2>4. Neat(m, Null) /\ Moved(r, m) /\ Solid(m)
    BY <2>1, <2>2, <2>3, RollBackNeat, RollBackSolid
  <2>5. Moved(s, m) /\ m \in BinState
    BY <2>1, <2>4, MovedTwice DEF Neat, Placed
  <2>6. m \in V
    BY <2>4, <2>5
  <2> HIDE DEF V
  <2> QED
    BY <2>6 DEF m
<1> HIDE DEF n, V
<1>6. PICK h : RollBackRun(h, n, V, s, order) /\ AllRolledBack(s, order) = h[n]
  BY <1>1, <1>3, <1>4, <1>5, RollBackTurns
<1>7. t \in V
  BY <1>1, <1>6 DEF RollBackRun
<1> QED
  BY <1>7 DEF V

LEMMA UncreateLoopSolid ==
  ASSUME Null \notin Content, NEW s, Neat(s, Null), Solid(s),
         created \in Seq(Uuid), IsInjective(created),
         \A i \in DOMAIN created : s.location[created[i]] # "none",
         NEW t, t = AllUncreated(s, created)
  PROVE  Solid(t)
<1> DEFINE n == Len(created)
           q == created
           V == {r \in BinState : Neat(r, Null)}
           W == [k \in 0 .. n |->
                  {r \in V : /\ Solid(r)
                             /\ \A i \in 1 .. n : i > k => r.location[q[i]] # "none"}]
<1>1. n \in Nat /\ DOMAIN q = 1 .. n /\ \A k \in 1 .. n : q[k] \in Uuid
  BY LenProperties, ElementOfSeq
<1>2. s \in V
  BY DEF Neat, Placed
<1>3. ASSUME NEW k \in 1 .. n, NEW r \in V
      PROVE  Uncreate(r, q[k]) \in V
  BY <1>1, UncreateNeat DEF Neat, Placed
<1>i. /\ \A i \in 1 .. n : s.location[q[i]] # "none"
      /\ \A i, j \in 1 .. n : q[i] = q[j] => i = j
  BY <1>1 DEF IsInjective
<1>q. t = AllUncreated(s, q)
  OBVIOUS
<1> HIDE DEF n, q
<1>4. PICK h : /\ h \in [0 .. n -> V]
               /\ h[0] = s
               /\ \A k \in 1 .. n : h[k] = Uncreate(h[k - 1], q[k])
               /\ t = h[n]
  <2> HIDE DEF W, V
  <2>1. n \in Nat /\ DOMAIN q = 1 .. n
    BY <1>1
  <2>2. \A k \in 1 .. n, r \in V : Uncreate(r, q[k]) \in V
    BY <1>3
  <2>3. \E h : UncreateRun(h, n, V, s, q) /\ AllUncreated(s, q) = h[n]
    BY <1>2, <2>1, <2>2, UncreateTurns
  <2> QED
    BY <1>q, <2>3 DEF UncreateRun
<1>5. h[0] \in W[0]
  <2>1. 0 \in 0 .. n
    BY <1>1
  <2> HIDE DEF V
  <2> QED
    BY <1>1, <1>2, <1>4, <1>i, <2>1
<1>6. ASSUME NEW k \in 1 .. n, h[k - 1] \in W[k - 1]
      PROVE  h[k] \in W[k]
  <2> DEFINE r == h[k - 1]
             m == h[k]
             u == q[k]
  <2>1. k - 1 \in 0 .. n /\ k \in 0 .. n /\ k \in Nat /\ k > k - 1
    BY <1>1
  <2>2. /\ r \in V /\ Solid(r)
        /\ \A i \in 1 .. n : i > k - 1 => r.location[q[i]] # "none"
    BY <1>6, <2>1
  <2>3. m = Uncreate(r, u) /\ u \in Uuid /\ m \in V /\ Neat(r, Null)
    BY <1>1, <1>4, <2>1, <2>2
  <2>4. r.location[u] # "none"
    BY <2>1, <2>2
  <2>a. u = q[k]
    OBVIOUS
  <2> HIDE DEF r, m, u, W
  <2>5. Solid(m)
    BY <2>2, <2>3, <2>4, UncreateSolid
  <2>6. \A w \in Uuid : w # u => (m.location[w] = "none" <=> r.location[w] = "none")
    BY <2>3, <2>5, UncreateNeat DEF Solid
  <2>7. ASSUME NEW i \in 1 .. n, i > k PROVE m.location[q[i]] # "none"
    <3>1. i > k - 1 /\ i # k /\ q[i] # u /\ q[i] \in Uuid
      BY <1>1, <1>i, <2>1, <2>7, <2>a
    <3> QED
      BY <2>2, <2>6, <3>1
  <2>8. m \in W[k]
    <3> HIDE DEF V
    <3> QED
      BY <2>1, <2>3, <2>5, <2>7 DEF W
  <2> QED
    BY <2>8 DEF m
<1> HIDE DEF W
<1>7. \A k \in 0 .. n : h[k] \in W[k]
  BY <1>1, <1>5, <1>6, TurnsKeep
<1>8. n \in 0 .. n
  BY <1>1
<1>9. t \in W[n]
  BY <1>4, <1>7, <1>8
<1> QED
  BY <1>8, <1>9 DEF W

(* An abort finds all it has to roll back and to take away.                *)
LEMMA AbortedSolid ==
  ASSUME Null \notin Content, Neat(bin, Null), ListsInv, SmallInv,
         NEW order \in SetToSeqs(DOMAIN changed), NEW t, t = Aborted(order)
  PROVE  Solid(t)
<1> DEFINE s1 == AllBack(bin, deleted)
           s2 == AllRolledBack(s1, order)
<1>1. t = AllUncreated(s2, created)
  BY DEF Aborted, AllBack, AllRolledBack, AllUncreated
<1>2. /\ Neat(s1, Null) /\ Solid(s1)
      /\ \A u \in Uuid : Found(u) => s1.location[u] # "none"
  BY PutBackLoop, PutBackLoopSolid DEF SmallInv, Solid, Running
<1> HIDE DEF s1
<1>3. /\ ChangesAreTyped /\ created \in Seq(Uuid)
      /\ \A k \in DOMAIN changed : k[1] \in Uuid
      /\ \A i \in DOMAIN created : created[i] \in Uuid
  <2>1. ChangesAreTyped /\ created \in Seq(Uuid)
    BY DEF ListsInv
  <2> QED
    BY <2>1, LenProperties, ElementOfSeq DEF ChangesAreTyped, Key
<1>4. Neat(s2, Null) /\ Moved(s1, s2) /\ Solid(s2)
  <2>1. \A k \in DOMAIN changed : k[2] = "val" /\ s1.location[k[1]] # "none"
    BY <1>2, <1>3 DEF SmallInv, ChangedFound, CreatedFound
  <2> QED
    BY <1>2, <1>3, <2>1, RollBackLoop, RollBackLoopSolid
<1> HIDE DEF s2
<1>5. \A i \in DOMAIN created : s2.location[created[i]] # "none"
  BY <1>2, <1>3, <1>4 DEF SmallInv, CreatedFound, Moved, Solid
<1> QED
  BY <1>1, <1>3, <1>4, <1>5, UncreateLoopSolid DEF SmallInv

(* The file opened holds plain objects. *)
LEMMA OpenedSolid ==
  ASSUME NEW input, NEW caching, NEW limit, limit # 0,
         \A u \in Uuid : IsPlain(input[u]),
         NEW t, t = Opened(input, caching, limit)
  PROVE  Solid(t) /\ \A u \in Uuid : t.object[u] = Null
<1>1. /\ t.location = [u \in Uuid |-> IF input[u] = Null THEN "none" ELSE "Input"]
      /\ t.object = [u \in Uuid |-> Null]
      /\ t.limit = limit /\ t.input = input /\ t.scratch = << >> /\ t.fault = "none"
  BY DEF Opened
<1>2. DOMAIN t.scratch = {}
  BY <1>1, EmptySeq
<1> QED
  BY <1>1, <1>2 DEF Solid, IsPlain

(* Between transactions there is nothing to find. *)
LEMMA NothingListed ==
  ASSUME created' = << >>, changed' = NoFunction, deleted' = << >>, openedObject' = Null,
         Solid(bin')
  PROVE  SmallInv'
<1>1. DOMAIN created' = {} /\ DOMAIN deleted' = {} /\ DOMAIN changed' = {}
  BY EmptySeq DEF NoFunction
<1>2. IsInjective(created')
  BY <1>1 DEF IsInjective
<1> QED
  BY <1>1, <1>2 DEF SmallInv, ChangedFound, CreatedFound, PutAside

LEMMA InitSmall ==
  ASSUME PlainClients, Init
  PROVE  SmallInv
<1>1. /\ inTransaction = FALSE /\ openedObject = Null /\ created = << >>
      /\ changed = NoFunction /\ deleted = << >>
  BY DEF Init
<1>2. /\ NoLimit \in Nat /\ Root \in Uuid /\ Null \notin Uuid
      /\ Blank \in Content /\ Blank # Null /\ IsPlain(Blank) /\ NoLimit # 0
  <2>1. Blank.ptr = Null
    BY DEF Blank
  <2> QED
    BY <2>1, ConstantsAssumption, BlankIsContent DEF PlainClients, IsPlain
<1>3. Solid(bin)
  <2> DEFINE in1 == [u \in Uuid |-> IF u \in Saved THEN Blank ELSE Null]
             in2 == [u \in Uuid |-> Null]
             yes == TRUE
             b2 == Opened(in2, yes, NoLimit)
  <2>0. /\ IsFile(in2) /\ MayCache(yes)
        /\ \A u \in Uuid : IsPlain(in1[u]) /\ IsPlain(in2[u])
    BY <1>2 DEF IsFile, MayCache, IsPlain
  <2>1. CASE bin = Opened(in1, yes, NoLimit)
    <3> HIDE DEF in1, yes
    <3> QED
      BY <1>2, <2>0, <2>1, OpenedSolid
  <2>2. CASE bin = OnlyRoot
    <3> DEFINE d == [uuid |-> Root, object |-> Blank, dirty |-> TRUE]
    <3>1. bin = PutBack(b2, d)
      BY <2>2 DEF OnlyRoot, PutBack
    <3>2. /\ d \in Deleted /\ d.uuid = Root /\ MayReturn(d, b2.input)
          /\ d.object # Null /\ IsPlain(d.object)
      BY <1>2 DEF Deleted, MayReturn
    <3>3. \A u \in Uuid : in2[u] = Null
      OBVIOUS
    <3>4. b2 = Opened(in2, yes, NoLimit)
      OBVIOUS
    <3> HIDE DEF in1, in2, b2, d, yes
    <3>5. Solid(b2)
      BY <1>2, <2>0, <3>4, OpenedSolid
    <3>6. Neat(b2, Null) /\ \A u \in Uuid : b2.location[u] = "none"
      BY <1>2, <2>0, <3>3, <3>4, OpenedNeat DEF IsOpened
    <3> QED
      BY <1>2, <3>1, <3>2, <3>5, <3>6, PutBackSolid
  <2> QED
    BY <2>1, <2>2 DEF Init
<1>4. DOMAIN created = {} /\ DOMAIN deleted = {} /\ DOMAIN changed = {}
  BY <1>1, EmptySeq DEF NoFunction
<1>5. IsInjective(created)
  BY <1>4 DEF IsInjective
<1> QED
  BY <1>1, <1>3, <1>4, <1>5 DEF SmallInv, ChangedFound, CreatedFound, PutAside

(* Calls that change no list and lose no object from the index.            *)
LEMMA MovedSmall ==
  ASSUME SmallInv, Solid(bin'),
         \A u \in Uuid : bin.location[u] # "none" => bin'.location[u] # "none",
         DOMAIN changed \subseteq Key, created \in Seq(Uuid),
         UNCHANGED <<created, changed, deleted>>,
         openedObject' # Null => bin'.object[openedObject'] # Null,
         ~inTransaction' => openedObject' = Null
  PROVE  SmallInv'
<1>1. /\ \A k \in DOMAIN changed : k[1] \in Uuid
      /\ \A i \in DOMAIN created : created[i] \in Uuid
  BY LenProperties, ElementOfSeq DEF Key
<1>2. \A u \in Uuid : Found(u) => Found(u)'
  BY DEF Found
<1>3. ChangedFound'
  BY <1>1, <1>2 DEF SmallInv, ChangedFound
<1>4. CreatedFound'
  BY <1>1, <1>2 DEF SmallInv, CreatedFound
<1>5. IsInjective(created') /\ PutAside'
  BY DEF SmallInv, PutAside
<1> QED
  BY <1>3, <1>4, <1>5 DEF SmallInv, Found

(* What the proofs of the steps start from. *)
LEMMA SmallFacts ==
  ASSUME PlainClients, CacheInv, SmallInv
  PROVE  /\ Null \notin Content /\ Neat(bin, Null) /\ bin \in BinState /\ Solid(bin)
         /\ ListsInv /\ Running /\ bin.fault = "none"
         /\ DOMAIN changed \subseteq Key /\ created \in Seq(Uuid)
         /\ inTransaction \in BOOLEAN /\ openedObject \in Uuid \cup {Null}
<1>1. Running
  BY DEF SmallInv, Solid, Running
<1> QED
  BY <1>1 DEF PlainClients, CacheInv, SmallInv, Neat, Placed, Running, ListsInv, ChangesAreTyped

LEMMA AbortTransactionSmall ==
  ASSUME PlainClients, CacheInv, SmallInv, AbortTransaction
  PROVE  SmallInv'
<1>1. PICK order \in SetToSeqs(DOMAIN changed) : bin' = Aborted(order)
  BY DEF AbortTransaction
<1>2. Solid(bin')
  BY <1>1, SmallFacts, AbortedSolid
<1>3. /\ created' = << >> /\ changed' = NoFunction /\ deleted' = << >> /\ openedObject' = Null
  BY DEF AbortTransaction, ClearLists
<1> QED
  BY <1>2, <1>3, NothingListed

LEMMA OpenObjectSmall ==
  ASSUME PlainClients, CacheInv, SmallInv, NEW u \in Uuid, OpenObject(u)
  PROVE  SmallInv'
<1>1. /\ bin' = FetchObject(bin, u) /\ inTransaction
      /\ openedObject' = IF bin.location[u] = "none" THEN Null ELSE u
      /\ UNCHANGED <<inTransaction, created, changed, deleted>>
  BY DEF OpenObject
<1>2. Solid(bin') /\ (bin.location[u] # "none" => bin'.object[u] # Null)
  BY <1>1, SmallFacts, FetchSolid
<1>3. \A w \in Uuid : bin'.location[w] = "none" <=> bin.location[w] = "none"
  BY <1>1, <1>2, SmallFacts, FetchObjectNeat DEF Moved, Solid
<1> QED
  BY <1>1, <1>2, <1>3, SmallFacts, MovedSmall

LEMMA CreateObjectSmall ==
  ASSUME PlainClients, CacheInv, SmallInv, NEW u \in Uuid, CreateObject(u)
  PROVE  SmallInv'
<1> DEFINE d == [uuid |-> u, object |-> Blank, dirty |-> TRUE]
<1>1. /\ u \notin DOMAIN truth /\ u \notin ToSet(created) /\ inTransaction
      /\ openedObject' = u /\ created' = <<u>> \o created
      /\ UNCHANGED <<inTransaction, changed, deleted>>
  BY DEF CreateObject
<1>2. bin' = PutBack(bin, d)
  BY DEF CreateObject, PutBack
<1>3. /\ d \in Deleted /\ d.uuid = u /\ d.object = Blank /\ MayReturn(d, bin.input)
      /\ Blank # Null /\ IsPlain(Blank)
  <2>1. Blank.ptr = Null
    BY DEF Blank
  <2> QED
    BY <2>1, BlankIsContent DEF Deleted, MayReturn, PlainClients, IsPlain
<1> HIDE DEF d
<1>4. bin.location[u] = "none"
  BY <1>1, SmallFacts DEF ListsInv
<1>5. Solid(bin')
  BY <1>2, <1>3, <1>4, SmallFacts, PutBackSolid
<1>6. /\ bin'.location[u] = "Cache" /\ bin'.object[u] = Blank
      /\ \A w \in Uuid : w # u => bin'.location[w] = bin.location[w]
  BY <1>2, <1>3, <1>4, SmallFacts, PutBackNeat
<1>7. ToSet(created') = ToSet(created) \cup {u} /\ IsInjective(created')
  BY <1>1, SmallFacts, InFrontOf DEF SmallInv
<1>8. \A w \in Uuid : w = u \/ Found(w) => Found(w)'
  BY <1>1, <1>4, <1>6 DEF Found
<1>9. \A w \in ToSet(created') : Found(w)'
  <2>1. \A w \in ToSet(created) : w \in Uuid /\ Found(w)
    BY SmallFacts, LenProperties, ElementOfSeq DEF SmallInv, CreatedFound, ToSet
  <2> QED
    BY <1>7, <1>8, <2>1
<1>10. CreatedFound'
  BY <1>9 DEF ToSet, CreatedFound
<1>11. ChangedFound'
  BY <1>1, <1>8, SmallFacts DEF SmallInv, ChangedFound, Key
<1> QED
  BY <1>1, <1>3, <1>5, <1>6, <1>7, <1>10, <1>11 DEF SmallInv, PutAside, Found

LEMMA SetAttributeValueSmall ==
  ASSUME PlainClients, CacheInv, SmallInv, NEW v \in Value, SetAttributeValue(v)
  PROVE  SmallInv'
<1> DEFINE u == openedObject
           now == bin.object[u]
           c == [now EXCEPT !.val = v]
<1>1. u \in Uuid /\ u # Null /\ now # Null /\ OpenIsUsable
  BY ConstantsAssumption DEF SetAttributeValue, SmallInv, OpenIsUsable
<1>2. /\ bin' = Modify(bin, u, c, "crash") /\ Record(<<u, "val">>, now.val) /\ inTransaction
      /\ UNCHANGED <<inTransaction, openedObject, created, deleted>>
  BY <1>1 DEF SetAttributeValue
<1>3. now \in Content /\ IsPlain(now) /\ bin.location[u] # "none"
  BY <1>1, SmallFacts DEF BinState, Solid, Neat, Placed
<1>4. c \in Content /\ c.ptr = now.ptr
  BY <1>3 DEF Content
<1> HIDE DEF c
<1>5. IsPlain(c) /\ c # Null
  BY <1>1, <1>3, <1>4, SmallFacts DEF IsPlain
<1>6. Solid(bin') /\ Stays(bin, bin') /\ bin'.location = bin.location
  BY <1>1, <1>2, <1>4, <1>5, SmallFacts, ModifySolid
<1>7. DOMAIN changed' = DOMAIN changed \cup {<<u, "val">>}
  BY <1>2 DEF Record
<1>8. \A w : Found(w)' <=> Found(w)
  BY <1>2, <1>6 DEF Found
<1>9. ChangedFound'
  <2>1. Found(u)
    BY <1>3 DEF Found
  <2> QED
    BY <1>7, <1>8, <2>1 DEF SmallInv, ChangedFound
<1>10. CreatedFound'
  BY <1>2, <1>8 DEF SmallInv, CreatedFound
<1> QED
  BY <1>1, <1>2, <1>6, <1>9, <1>10 DEF SmallInv, PutAside, Found, Stays

LEMMA DeleteObjectSmall ==
  ASSUME PlainClients, CacheInv, SmallInv, DeleteObject
  PROVE  SmallInv'
<1> DEFINE u == openedObject
           now == bin.object[u]
           d == [uuid |-> u, object |-> now, dirty |-> bin.dirty[u]]
<1>1. u \in Uuid /\ u # Null /\ now # Null /\ OpenIsUsable
  BY ConstantsAssumption DEF DeleteObject, SmallInv, OpenIsUsable
<1>2. now \in Content /\ IsPlain(now) /\ now.ptr = Null /\ bin.dirty[u] \in BOOLEAN
  BY <1>1, SmallFacts DEF BinState, Solid, IsPlain
<1>3. /\ bin' = OutOfQueue(Gone(bin, u), u) /\ deleted' = <<d>> \o deleted
      /\ UNCHANGED <<inTransaction, created, changed>> /\ openedObject' = Null
  BY <1>1, <1>2, SmallFacts DEF DeleteObject, Gone
<1>4. Solid(bin')
  BY <1>1, <1>3, SmallFacts, TakenOutSolid
<1>5. \A w \in Uuid : w # u => bin'.location[w] = bin.location[w]
  BY <1>1, <1>3, SmallFacts, TakenOut
<1>6. WithOneMore(deleted, deleted', d)
  <2>1. deleted \in Seq(Deleted) /\ d \in Deleted
    BY <1>1, <1>2, SmallFacts DEF ListsInv, DeletedAreAside, Deleted
  <2> HIDE DEF d
  <2> QED
    BY <1>3, <2>1, OneMoreInFront
<1>7. d.uuid = u /\ d.object # Null /\ IsPlain(d.object)
  BY <1>1, <1>2
<1> HIDE DEF d
<1>8. PutAside'
  <2>1. \A i \in DOMAIN deleted' : deleted'[i] = d \/ \E j \in DOMAIN deleted : deleted'[i] = deleted[j]
    BY <1>6 DEF WithOneMore
  <2> QED
    BY <1>7, <2>1 DEF SmallInv, PutAside
<1>9. ASSUME NEW w \in Uuid, w = u \/ Found(w) PROVE Found(w)'
  <2>1. CASE w = u
    BY <1>6, <1>7, <2>1 DEF WithOneMore, Found
  <2>2. CASE w # u /\ bin.location[w] # "none"
    BY <1>5, <2>2 DEF Found
  <2>3. CASE \E j \in DOMAIN deleted : deleted[j].uuid = w
    BY <1>6, <2>3 DEF WithOneMore, Found
  <2> QED
    BY <1>9, <2>1, <2>2, <2>3 DEF Found
<1>10. ChangedFound'
  BY <1>3, <1>9, SmallFacts DEF SmallInv, ChangedFound, Key
<1>11. CreatedFound'
  <2>1. \A i \in DOMAIN created : created[i] \in Uuid /\ Found(created[i])
    BY SmallFacts, LenProperties, ElementOfSeq DEF SmallInv, CreatedFound
  <2> QED
    BY <1>3, <1>9, <2>1 DEF CreatedFound
<1> QED
  BY <1>3, <1>4, <1>8, <1>10, <1>11 DEF SmallInv, Found

(* A smaller cache keeps at least one object, and the cursor is on none.   *)
LEMMA SetCacheSizeSmall ==
  ASSUME PlainClients, CacheInv, SmallInv, NEW l \in Limits, SetCacheSize(l)
  PROVE  SmallInv'
<1> DEFINE s == [bin EXCEPT !.limit = l]
<1>1. /\ bin' = CheckCacheSize(s) /\ ~inTransaction /\ openedObject = Null
      /\ UNCHANGED <<inTransaction, openedObject, created, changed, deleted>>
  BY DEF SetCacheSize, SmallInv
<1>2. l \in Nat /\ l # 0
  BY ConstantsAssumption DEF PlainClients
<1>3. /\ s \in BinState /\ s.limit = l
      /\ s.object = bin.object /\ s.dirty = bin.dirty /\ s.location = bin.location
      /\ s.queue = bin.queue
      /\ s.position = bin.position /\ s.caching = bin.caching
      /\ s.input = bin.input /\ s.scratch = bin.scratch /\ s.cursor = bin.cursor
      /\ s.fault = bin.fault
  BY <1>2, SmallFacts DEF BinState
<1> HIDE DEF s
<1>4. Neat(s, Null) /\ Solid(s)
  BY <1>2, <1>3, SmallFacts DEF Neat, Placed, Lined, CleanBut, Solid
<1>5. Solid(bin')
  <2>1. Ahead(s, Null)
    BY DEF Ahead
  <2> QED
    BY <1>1, <1>4, <2>1, CheckCacheSizeSolid
<1>6. \A w \in Uuid : bin'.location[w] = "none" <=> bin.location[w] = "none"
  <2>1. Moved(s, bin')
    BY <1>1, <1>4, CheckCacheSizeNeat
  <2> QED
    BY <1>3, <1>5, <2>1 DEF Moved, Solid
<1> QED
  BY <1>1, <1>5, <1>6, SmallFacts, MovedSmall

LEMMA EnableCachingSmall ==
  ASSUME PlainClients, CacheInv, SmallInv, EnableCaching
  PROVE  SmallInv'
<1>1. /\ bin' = [bin EXCEPT !.caching = TRUE] /\ ~inTransaction
      /\ UNCHANGED <<inTransaction, openedObject, created, changed, deleted>>
  BY DEF EnableCaching
<1>2. /\ bin'.object = bin.object /\ bin'.location = bin.location /\ bin'.input = bin.input
      /\ bin'.limit = bin.limit /\ bin'.fault = bin.fault /\ bin'.scratch = bin.scratch
  BY <1>1, SmallFacts DEF BinState
<1>3. Solid(bin')
  BY <1>2, SmallFacts DEF Solid
<1> QED
  BY <1>1, <1>2, <1>3, SmallFacts, MovedSmall DEF SmallInv

LEMMA DisableCachingSmall ==
  ASSUME PlainClients, CacheInv, SmallInv, DisableCaching
  PROVE  SmallInv'
<1> DEFINE ob == [u \in Uuid |-> IF u \in ToSet(bin.queue) THEN Null ELSE bin.object[u]]
<1>1. /\ bin' = [FlushCache(bin) EXCEPT !.caching = FALSE] /\ bin.queue = << >>
      /\ ~inTransaction
      /\ UNCHANGED <<inTransaction, openedObject, created, changed, deleted>>
  BY DEF DisableCaching, PlainClients
<1>2. bin' = [bin EXCEPT !.object = ob, !.queue = << >>, !.caching = FALSE]
  BY <1>1 DEF FlushCache
<1>3. ToSet(bin.queue) = {}
  BY <1>1, EmptySeq DEF ToSet
<1>4. \A u \in Uuid : ob[u] = bin.object[u]
  BY <1>3
<1> HIDE DEF ob
<1>5. /\ bin'.object = ob /\ bin'.location = bin.location /\ bin'.input = bin.input
      /\ bin'.limit = bin.limit /\ bin'.fault = bin.fault /\ bin'.scratch = bin.scratch
  BY <1>2, SmallFacts DEF BinState
<1>6. Solid(bin')
  BY <1>4, <1>5, SmallFacts DEF Solid
<1> QED
  BY <1>1, <1>5, <1>6, SmallFacts, MovedSmall DEF SmallInv

LEMMA SaveSmall ==
  ASSUME PlainClients, CacheInv, SmallInv, Save
  PROVE  SmallInv'
<1> DEFINE file == [u \in Uuid |-> Written(bin, u)]
<1>1. /\ created' = << >> /\ changed' = NoFunction /\ deleted' = << >> /\ openedObject' = Null
  BY DEF Save, ClearLists
<1>2. \A u \in Uuid : bin.location[u] = "Cache" => bin.object[u] # Null
  BY SmallFacts DEF Solid
<1>3. bin' = Opened(file, bin.caching, bin.limit)
  BY <1>2 DEF Save
<1>4. \A u \in Uuid : IsPlain(file[u])
  <2> SUFFICES ASSUME NEW u \in Uuid PROVE IsPlain(Written(bin, u))
    OBVIOUS
  <2>1. IsPlain(bin.object[u]) /\ IsPlain(bin.input[u])
    BY SmallFacts DEF Solid
  <2>2. bin.location[u] = "Scratch" => IsPlain(bin.scratch[bin.position[u]])
    BY SmallFacts DEF Solid, Neat, Placed
  <2> QED
    BY <2>1, <2>2 DEF Written, IsPlain
<1>5. bin.limit # 0
  BY SmallFacts DEF Solid
<1> HIDE DEF file
<1>6. Solid(bin')
  BY <1>3, <1>4, <1>5, OpenedSolid
<1> QED
  BY <1>1, <1>6, NothingListed

(* The steps that move nothing. *)
LEMMA NothingMoves ==
  ASSUME PlainClients, CacheInv, SmallInv,
         \/ BeginTransaction \/ CommitTransaction \/ CloseObject \/ UNCHANGED vars
  PROVE  SmallInv'
<1>1. CASE CommitTransaction
  <2>1. /\ created' = << >> /\ changed' = NoFunction /\ deleted' = << >>
        /\ openedObject' = Null /\ bin' = bin
    BY <1>1 DEF CommitTransaction, ClearLists
  <2> QED
    BY <2>1, SmallFacts, NothingListed
<1>2. CASE \/ BeginTransaction \/ CloseObject \/ UNCHANGED vars
  <2>1. /\ bin' = bin /\ UNCHANGED <<created, changed, deleted>>
        /\ openedObject' = Null \/ UNCHANGED <<openedObject, inTransaction>>
    BY <1>2 DEF BeginTransaction, CloseObject, vars
  <2> QED
    BY <2>1, SmallFacts, MovedSmall DEF SmallInv
<1> QED
  BY <1>1, <1>2

LEMMA NextSmall ==
  ASSUME PlainClients, CacheInv, SmallInv, [Next]_vars
  PROVE  SmallInv'
<1>1. CASE \/ BeginTransaction \/ CommitTransaction \/ CloseObject \/ UNCHANGED vars
  BY <1>1, NothingMoves
<1>2. CASE AbortTransaction
  BY <1>2, AbortTransactionSmall
<1>3. CASE \E u \in Uuid : OpenObject(u)
  BY <1>3, OpenObjectSmall
<1>4. CASE \E u \in Uuid : CreateObject(u)
  BY <1>4, CreateObjectSmall
<1>5. CASE \E v \in Value : SetAttributeValue(v)
  BY <1>5, SetAttributeValueSmall
<1>6. CASE \E t \in Uuid \cup {Null} : SetPointerValue(t)
  BY <1>6 DEF SetPointerValue, PlainClients
<1>7. CASE DeleteObject
  BY <1>7, DeleteObjectSmall
<1>8. CASE \E l \in Limits : SetCacheSize(l)
  BY <1>8, SetCacheSizeSmall
<1>9. CASE DisableCaching
  BY <1>9, DisableCachingSmall
<1>10. CASE EnableCaching
  BY <1>10, EnableCachingSmall
<1>11. CASE Save
  BY <1>11, SaveSmall
<1> QED
  BY <1>1, <1>2, <1>3, <1>4, <1>5, <1>6, <1>7, <1>8, <1>9, <1>10, <1>11 DEF Next

LEMMA SmallInvariant ==
  ASSUME PlainClients
  PROVE  Spec => []SmallInv
<1>1. Init => SmallInv
  BY InitSmall
<1>2. CacheInv /\ SmallInv /\ [Next]_vars => SmallInv'
  BY NextSmall
<1> QED
  BY <1>1, <1>2, CacheInvariant, PTL DEF Spec

(* Whatever the size of the cache, as long as it is not zero, the object   *)
(* the cursor is on stays in memory from OpenObject on: reading an object  *)
(* in evicts others (CheckCacheSize, Core/BinFile.cpp), never the one just *)
(* read, and the size is changed only outside transactions, when no object *)
(* is open. For clients that set no pointers: the fetches of PointerUpdate *)
(* do evict the open object if the cache is small enough.                  *)
THEOREM OpenStaysInMemory ==
  ASSUME PlainClients
  PROVE  Spec => []OpenIsCached
<1>1. SmallInv => OpenIsCached
  BY DEF SmallInv, OpenIsCached
<1> QED
  BY <1>1, SmallInvariant, PTL

(* For the same clients no call uses an object that was evicted, and no    *)
(* assertion of TryAbortTransaction fails: an abort finds everything it    *)
(* has to put back, to roll back or to take away, in memory or in one of   *)
(* the two files, in whatever order the hash table gives the changes --    *)
(* though what it finds may be another object's content (the run           *)
(* ScratchOverwrite).                                                      *)
THEOREM NothingFreedIsUsed ==
  ASSUME PlainClients
  PROVE  Spec => []NeverUsesFreed
<1>1. SmallInv => NeverUsesFreed
  BY DEF SmallInv, Solid, NeverUsesFreed
<1> QED
  BY <1>1, SmallInvariant, PTL

================================================================================

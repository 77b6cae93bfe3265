---------------------------- MODULE AlgorithmProofs ----------------------------
(***************************************************************************)
(* Proofs about the algorithms the stores and the tools run, for every     *)
(* input: the bodies of a document search fit the budget (BodiesFit), the  *)
(* paragraphs of a text cover it and stand under its headings              *)
(* (ParagraphsSafe), a context pack has what fits its budget, each         *)
(* declaration once (PackFits), and what a search answers is ranked        *)
(* (HitsRanked of documents, SearchRanked of code).                        *)
(*                                                                         *)
(* They go through lists of any length, by an induction that needs no      *)
(* operator as a parameter: a set of naturals that has 0, and n + 1 with   *)
(* every n, is Nat (Induction).  It comes from the library's fact that the *)
(* finite subsets of a set are well founded by inclusion.  FoldLeft and    *)
(* MapThenSumSet are tables chosen to satisfy an equation; the lemmas show *)
(* that there is such a table, and so that the fold satisfies it.          *)
(***************************************************************************)
EXTENDS Integers, DocumentSearch, CodeSearch, ContextPack, Paragraphs,
        FiniteSetTheorems, WellFoundedInduction, TLAPS

\* Every set of naturals has a least element.
LEMMA LeastExists == \A T \in SUBSET Nat : T # {} => \E n \in T : \A m \in T : n <= m
  <1> DEFINE R == StrictSubsetOrdering(Nat)
             F == FiniteSubsetsOf(Nat)
  <1>1. IsWellFoundedOn(R, F)
    BY FS_StrictSubsetOrderingWellFounded
  <1>2. ASSUME NEW T \in SUBSET Nat, T # {} PROVE \E n \in T : \A m \in T : n <= m
    <2> DEFINE C == {0..n : n \in T}
    <2>0. C \subseteq F /\ C # {}
      <3>1. \A n \in T : IsFiniteSet(0..n)
        BY FS_Interval
      <3>2. \A n \in T : 0..n \in SUBSET Nat
        BY <1>2
      <3>3. \A n \in T : 0..n \in F
        BY <3>1, <3>2 DEF FiniteSubsetsOf
      <3>4. C \subseteq F
        <4> HIDE DEF F
        <4>1. QED
          BY <3>3
      <3>5. C # {}
        BY <1>2
      <3>6. QED
        BY <3>4, <3>5
    <2> HIDE DEF F, R
    <2>1. PICK c \in C : \A y \in C : ~(<<y, c>> \in R)
      <3> HIDE DEF C
      <3>1. QED
        BY <1>1, <2>0, WFMin, Zenon
    <2>2. PICK n \in T : c = 0..n
      BY <2>1
    <2>3. \A m \in T : ~(m < n)
      <3> SUFFICES ASSUME NEW m \in T, m < n PROVE FALSE
        OBVIOUS
      <3>1. 0..m \subseteq 0..n /\ 0..m # 0..n /\ 0..n \subseteq Nat
        <4>1. m \in Nat /\ n \in Nat
          BY <1>2
        <4>2. n \in 0..n /\ n \notin 0..m
          BY <4>1
        <4>3. 0..m \subseteq 0..n /\ 0..n \subseteq Nat
          BY <4>1
        <4>4. QED
          BY <4>2, <4>3
      <3>2. <<0..m, c>> \in R
        BY <2>2, <3>1 DEF R, StrictSubsetOrdering
      <3>3. QED
        BY <3>2, <2>1
    <2>4. QED
      BY <2>3, <1>2
  <1>3. QED
    BY <1>2

\* Induction, for a set of numbers.
LEMMA Induction ==
    ASSUME NEW S, 0 \in S, \A n \in Nat : n \in S => n + 1 \in S PROVE Nat \subseteq S
  <1> SUFFICES ASSUME ~(Nat \subseteq S) PROVE FALSE
    OBVIOUS
  <1>1. PICK n \in Nat \ S : \A m \in Nat \ S : n <= m
    <2>1. Nat \ S # {} /\ Nat \ S \in SUBSET Nat
      OBVIOUS
    <2>2. QED
      BY <2>1, LeastExists
  <1>2. n # 0 /\ n - 1 \in Nat
    BY <1>1
  <1>3. n - 1 \in S
    BY <1>1, <1>2
  <1>4. (n - 1) + 1 \in S
    BY <1>2, <1>3
  <1>5. QED
    BY <1>1, <1>4

\* And up to a number.
LEMMA InductionTo ==
    ASSUME NEW N \in Nat, NEW S, 0 \in S, \A n \in 0..N : n # N /\ n \in S => n + 1 \in S
    PROVE  0..N \subseteq S
  <1> DEFINE T == {n \in Nat : n <= N => n \in S}
  <1>1. 0 \in T
    OBVIOUS
  <1>2. \A n \in Nat : n \in T => n + 1 \in T
    OBVIOUS
  <1>3. Nat \subseteq T
    <2> HIDE DEF T
    <2>1. QED
      BY <1>1, <1>2, Induction, Zenon
  <1>4. QED
    BY <1>3

\* The function a fold over a finite set computes exists: it takes an element c[T] out of
\* T and combines it with what it has for the rest.
Foldable(S, V, base, c, h) ==
    /\ IsFiniteSet(S) /\ base \in V
    /\ \A T \in SUBSET S : T # {} => c[T] \in T
    /\ \A v \in V, x \in S : h[<<v, x>>] \in V
IsFold(g, S, V, base, c, h) ==
    /\ g \in [SUBSET S -> V]
    /\ \A T \in SUBSET S : g[T] = IF T = {} THEN base ELSE h[<<g[T \ {c[T]}], c[T]>>]

\* Over a finite set there is a table of the folds of its subsets.
LEMMA FoldExists ==
    ASSUME NEW S, NEW V, NEW base, NEW c, NEW h, Foldable(S, V, base, c, h)
    PROVE  \E g : IsFold(g, S, V, base, c, h)
  <1> USE DEF Foldable
  <1> DEFINE Good(g, n) == \A T \in SUBSET S : Cardinality(T) <= n =>
                 g[T] = IF T = {} THEN base ELSE h[<<g[T \ {c[T]}], c[T]>>]
             P == {n \in Nat : \E g \in [SUBSET S -> V] : Good(g, n)}
  <1>0. \A T \in SUBSET S : IsFiniteSet(T) /\ Cardinality(T) \in Nat
    BY FS_Subset, FS_CardinalityType
  <1>1. 0 \in P
    <2>1. [T \in SUBSET S |-> base] \in [SUBSET S -> V]
      OBVIOUS
    <2>2. Good([T \in SUBSET S |-> base], 0)
      BY <1>0, FS_EmptySet
    <2>3. QED
      BY <2>1, <2>2
  <1>2. \A n \in Nat : n \in P => n + 1 \in P
    <2> SUFFICES ASSUME NEW n \in Nat, n \in P PROVE n + 1 \in P
      OBVIOUS
    <2>1. PICK g \in [SUBSET S -> V] : Good(g, n)
      OBVIOUS
    <2> DEFINE g1 == [T \in SUBSET S |-> IF T = {} THEN base
                                         ELSE h[<<g[T \ {c[T]}], c[T]>>]]
    <2>2. g1 \in [SUBSET S -> V]
      <3>1. \A T \in SUBSET S : T # {} => /\ T \ {c[T]} \in SUBSET S /\ c[T] \in S
        OBVIOUS
      <3>2. QED
        BY <3>1
    <2>3. ASSUME NEW T \in SUBSET S, Cardinality(T) <= n + 1
          PROVE  g1[T] = IF T = {} THEN base ELSE h[<<g1[T \ {c[T]}], c[T]>>]
      <3>1. CASE T = {}
        BY <3>1
      <3>2. CASE T # {}
        <4> DEFINE U == T \ {c[T]}
        <4>1. Cardinality(U) = Cardinality(T) - 1 /\ U \in SUBSET S
          BY <3>2, <1>0, FS_RemoveElement
        <4>2. Cardinality(U) <= n
          BY <4>1, <1>0, <2>3
        <4>3. g[U] = g1[U]
          BY <4>1, <4>2, <2>1
        <4>4. QED
          BY <4>3, <3>2
      <3>3. QED
        BY <3>1, <3>2
    <2>4. Good(g1, n + 1)
      BY <2>3
    <2> HIDE DEF g1, Good
    <2>5. QED
      BY <2>2, <2>4
  <1>3. Nat \subseteq P
    <2> HIDE DEF P
    <2>1. QED
      BY <1>1, <1>2, Induction, Zenon
  <1>4. Cardinality(S) \in P
    BY <1>3, <1>0
  <1>5. PICK g \in [SUBSET S -> V] : Good(g, Cardinality(S))
    BY <1>4
  <1>6. \A T \in SUBSET S : Cardinality(T) <= Cardinality(S)
    BY FS_Subset
  <1>7. QED
    BY <1>5, <1>6 DEF IsFold

\* Intervals, and their last element.
LEMMA Intervals ==
    ASSUME NEW n \in Nat
    PROVE  /\ 1..0 = {} /\ IsFiniteSet(1..n)
           /\ \A k \in 1..n : /\ Max(1..k) = k /\ (1..k) \ {k} = 1..(k - 1)
                              /\ 1..k # {} /\ 1..k \in SUBSET (1..n)
           /\ \A T \in SUBSET (1..n) : T # {} => Max(T) \in T /\ \A m \in T : m <= Max(T)
  <1>1. 1..0 = {} /\ IsFiniteSet(1..n)
    BY FS_Interval
  <1>2. ASSUME NEW T \in SUBSET (1..n), T # {} PROVE Max(T) \in T /\ \A m \in T : m <= Max(T)
    <2> DEFINE W == {n - t : t \in T}
    <2>0. \A t \in T : t \in Nat /\ n - t \in Nat
      BY <1>2
    <2>1. W \in SUBSET Nat /\ W # {}
      BY <2>0, <1>2
    <2>2. PICK w \in W : \A m \in W : w <= m
      <3> HIDE DEF W
      <3>1. QED
        BY <2>1, LeastExists
    <2>3. PICK t \in T : w = n - t
      BY <2>2
    <2>4. \A m \in T : t >= m
      <3> TAKE m \in T
      <3>1. n - m \in W
        OBVIOUS
      <3>2. n - t <= n - m
        BY <3>1, <2>2, <2>3
      <3>3. QED
        BY <3>2, <2>0
    <2>5. Max(T) \in T /\ \A m \in T : Max(T) >= m
      BY <2>3, <2>4, Zenon DEF Max
    <2>6. QED
      BY <2>5, <1>2
  <1>3. ASSUME NEW k \in 1..n
        PROVE  /\ Max(1..k) = k /\ (1..k) \ {k} = 1..(k - 1)
               /\ 1..k # {} /\ 1..k \in SUBSET (1..n)
    <2>1. 1..k # {} /\ 1..k \in SUBSET (1..n) /\ k \in 1..k
      BY <1>3
    <2>2. Max(1..k) \in 1..k /\ k <= Max(1..k)
      BY <1>2, <2>1
    <2>3. Max(1..k) = k
      BY <2>1, <2>2
    <2>4. (1..k) \ {k} = 1..(k - 1)
      OBVIOUS
    <2>5. QED
      BY <2>1, <2>3, <2>4
  <1>4. QED
    BY <1>1, <1>2, <1>3

\* The same for a fold over a sequence of n elements, from the first to the last.
IsFoldLeft(g, n, V, base, h) ==
    /\ g \in [SUBSET (1..n) -> V]
    /\ \A T \in SUBSET (1..n) :
         g[T] = IF T = {} THEN base ELSE h[<<g[T \ {Max(T)}], Max(T)>>]

\* For a list there is the table FoldLeft picks out with CHOOSE: the folds of the
\* sets of its indices, each by its largest.
LEMMA FoldLeftExists ==
    ASSUME NEW n \in Nat, NEW V, NEW base \in V, NEW h, \A v \in V, k \in 1..n : h[<<v, k>>] \in V
    PROVE  \E g : IsFoldLeft(g, n, V, base, h)
  <1> DEFINE c == [T \in SUBSET (1..n) |-> Max(T)]
  <1>1. \A T \in SUBSET (1..n) : T # {} => c[T] \in T
    BY Intervals
  <1>2. IsFiniteSet(1..n)
    BY Intervals
  <1>3. \A T \in SUBSET (1..n) : c[T] = Max(T)
    OBVIOUS
  <1> HIDE DEF c
  <1>4. PICK g : IsFold(g, 1..n, V, base, c, h)
    <2>1. Foldable(1..n, V, base, c, h)
      BY <1>1, <1>2 DEF Foldable
    <2>2. QED
      BY <2>1, FoldExists
  <1>5. IsFoldLeft(g, n, V, base, h)
    BY <1>3, <1>4 DEF IsFold, IsFoldLeft
  <1>6. QED
    BY <1>5

\* A function that computes the fold, from first to last.
Computes(G, n, V, base, h) ==
    /\ G[{}] = base
    /\ \A T \in SUBSET (1..n) : T # {} /\ G[T \ {Max(T)}] \in V
                                => G[T] = h[<<G[T \ {Max(T)}], Max(T)>>]

Steps(f, n, V, base, h, result) ==
    /\ f \in [0..n -> V] /\ f[0] = base /\ f[n] = result
    /\ \A k \in 1..n : f[k - 1] \in V /\ f[k] = h[<<f[k - 1], k>>]

\* So FoldLeft goes through the list step by step: from base, by one element each.
LEMMA FoldLeftSteps ==
    ASSUME NEW n \in Nat, NEW V, NEW base \in V, NEW h, \A v \in V, k \in 1..n : h[<<v, k>>] \in V,
           NEW G, Computes(G, n, V, base, h)
    PROVE  \E f : Steps(f, n, V, base, h, G[1..n])
  <1> DEFINE f == [k \in 0..n |-> G[1..k]]
             S == {k \in 0..n : f[k] \in V}
  <1>1. f[0] = base /\ f[n] = G[1..n]
    BY Intervals DEF Computes
  <1>2. ASSUME NEW k \in 1..n, f[k - 1] \in V PROVE f[k] = h[<<f[k - 1], k>>]
    <2>1. f[k] = G[1..k] /\ f[k - 1] = G[1..(k - 1)]
      OBVIOUS
    <2>2. /\ Max(1..k) = k /\ (1..k) \ {k} = 1..(k - 1)
          /\ 1..k # {} /\ 1..k \in SUBSET (1..n)
      BY Intervals
    <2> HIDE DEF f
    <2>3. G[(1..k) \ {Max(1..k)}] \in V
      BY <1>2, <2>1, <2>2
    <2>4. G[1..k] = h[<<G[(1..k) \ {Max(1..k)}], Max(1..k)>>]
      BY <2>2, <2>3 DEF Computes
    <2>5. QED
      BY <2>1, <2>2, <2>4
  <1> HIDE DEF f
  <1>3. 0 \in S
    BY <1>1
  <1>4. ASSUME NEW k \in 0..n, k # n, k \in S PROVE k + 1 \in S
    <2>1. k + 1 \in 1..n /\ k + 1 \in 0..n /\ (k + 1) - 1 = k
      BY <1>4
    <2>2. f[k + 1] = h[<<f[k], k + 1>>]
      BY <1>2, <1>4, <2>1
    <2>3. QED
      BY <1>4, <2>1, <2>2
  <1>5. 0..n \subseteq S
    <2> HIDE DEF S
    <2>1. QED
      BY <1>3, <1>4, InductionTo
  <1>6. f \in [0..n -> V]
    BY <1>5 DEF f
  <1>7. \A k \in 1..n : f[k - 1] \in V /\ f[k] = h[<<f[k - 1], k>>]
    <2> TAKE k \in 1..n
    <2>1. k - 1 \in S
      BY <1>5
    <2>2. QED
      BY <1>2, <2>1
  <1>8. QED
    BY <1>1, <1>6, <1>7 DEF Steps

\* A sum over a sequence of numbers.
Total(s) == FoldLeft(LAMBDA a, b : a + b, 0, s)

\* A sum over a list, step by step.
LEMMA TotalSteps ==
    ASSUME NEW s \in Seq(Nat)
    PROVE  \E f \in [0..Len(s) -> Nat] :
              /\ f[0] = 0 /\ f[Len(s)] = Total(s)
              /\ \A k \in 1..Len(s) : f[k] = f[k - 1] + s[k]
  <1> DEFINE n == Len(s)
             h == [p \in Nat \X (1..n) |-> p[1] + s[p[2]]]
             Eq(g) == g = [T \in SUBSET (1..n) |->
                             IF T = {} THEN 0 ELSE g[T \ {Max(T)}] + s[Max(T)]]
             G == CHOOSE g : Eq(g)
  <1>1. n \in Nat /\ DOMAIN s = 1..n /\ \A k \in 1..n : s[k] \in Nat
    OBVIOUS
  <1>2. \A v \in Nat, k \in 1..n : h[<<v, k>>] = v + s[k] /\ h[<<v, k>>] \in Nat
    BY <1>1
  <1>3. Total(s) = G[1..n]
    BY <1>1 DEF Total, FoldLeft, MapThenFoldSet
  <1> HIDE DEF h, n
  <1>4. \A T \in SUBSET (1..n) : T # {} => Max(T) \in 1..n /\ T \ {Max(T)} \in SUBSET (1..n)
    BY <1>1, Intervals
  <1>5. \E g : Eq(g)
    <2>1. PICK g : IsFoldLeft(g, n, Nat, 0, h)
      BY <1>1, <1>2, FoldLeftExists
    <2>2. ASSUME NEW T \in SUBSET (1..n), T # {}
          PROVE  g[T] = g[T \ {Max(T)}] + s[Max(T)]
      BY <1>2, <1>4, <2>1, <2>2 DEF IsFoldLeft
    <2>3. Eq(g)
      BY <2>1, <2>2 DEF IsFoldLeft
    <2>4. QED
      BY <2>3
  <1>6. Eq(G)
    BY <1>5
  <1> HIDE DEF G
  <1>7. Computes(G, n, Nat, 0, h)
    BY <1>2, <1>4, <1>6 DEF Computes
  <1>8. PICK f : Steps(f, n, Nat, 0, h, G[1..n])
    BY <1>1, <1>2, <1>7, FoldLeftSteps
  <1>9. \A k \in 1..n : f[k] = f[k - 1] + s[k]
    BY <1>1, <1>2, <1>8 DEF Steps
  <1>10. QED
    BY <1>3, <1>8, <1>9 DEF n, Steps

\* The sum of no numbers is 0.
LEMMA TotalOfNone == Total(<<>>) = 0
  <1>1. <<>> \in Seq(Nat) /\ Len(<<>>) = 0
    OBVIOUS
  <1>2. QED
    BY <1>1, TotalSteps

\* A number more adds itself to the sum.
LEMMA Totals ==
    ASSUME NEW s \in Seq(Nat), NEW x \in Nat
    PROVE  Total(s) \in Nat /\ Total(Append(s, x)) = Total(s) + x
  <1>2. PICK f \in [0..Len(s) -> Nat] :
              /\ f[0] = 0 /\ f[Len(s)] = Total(s)
              /\ \A k \in 1..Len(s) : f[k] = f[k - 1] + s[k]
    BY TotalSteps
  <1> DEFINE t == Append(s, x)
             n == Len(s)
  <1>3. t \in Seq(Nat) /\ Len(t) = n + 1 /\ n \in Nat /\ t[n + 1] = x
        /\ \A k \in 1..n : t[k] = s[k]
    OBVIOUS
  <1> HIDE DEF t, n
  <1>4. PICK g \in [0..(n + 1) -> Nat] :
              /\ g[0] = 0 /\ g[n + 1] = Total(t)
              /\ \A k \in 1..(n + 1) : g[k] = g[k - 1] + t[k]
    <2>1. \E g \in [0..Len(t) -> Nat] :
              /\ g[0] = 0 /\ g[Len(t)] = Total(t)
              /\ \A k \in 1..Len(t) : g[k] = g[k - 1] + t[k]
      BY <1>3, TotalSteps
    <2>2. QED
      BY <1>3, <2>1
  <1>5. 0..n \subseteq {k \in 0..n : f[k] = g[k]}
    <2> DEFINE S == {k \in 0..n : f[k] = g[k]}
    <2>1. 0 \in S
      BY <1>2, <1>3, <1>4
    <2>2. ASSUME NEW k \in 0..n, k # n, k \in S PROVE k + 1 \in S
      <3>1. k + 1 \in 1..n /\ k + 1 \in 1..(n + 1) /\ (k + 1) - 1 = k
        BY <1>3, <2>2
      <3>2. f[k + 1] = f[k] + s[k + 1]
        BY <3>1, <1>2 DEF n
      <3>3. g[k + 1] = g[k] + t[k + 1]
        BY <3>1, <1>4
      <3>4. QED
        BY <3>1, <3>2, <3>3, <2>2, <1>3, SMTT(30)
    <2>3. QED
      <3> HIDE DEF S
      <3>1. 0..n \subseteq S
        BY <1>3, <2>1, <2>2, InductionTo
      <3>2. QED
        BY <3>1 DEF S
  <1>6. f[n] = g[n] /\ g[n + 1] = g[n] + x
    <2>1. n \in 0..n /\ n + 1 \in 1..(n + 1) /\ (n + 1) - 1 = n
      BY <1>3
    <2>2. QED
      BY <2>1, <1>3, <1>4, <1>5
  <1>7. Total(s) \in Nat /\ Total(t) = Total(s) + x
    BY <1>2, <1>3, <1>4, <1>6 DEF n
  <1>8. QED
    BY <1>7 DEF t

\* The sums of c over the subsets of S, as MapThenSumSet computes them.
IsSum(G, S, c) ==
    /\ G \in [SUBSET S -> Nat] /\ G[{}] = 0
    /\ \A T \in SUBSET S : T # {} =>
         G[T] = c[CHOOSE x \in T : TRUE] + G[T \ {CHOOSE x \in T : TRUE}]
Adds(G, S, c) == \A T \in SUBSET S : \A y \in S \ T : G[T \cup {y}] = c[y] + G[T]
Same(c, d, R) == \A x \in R : c[x] = d[x]

\* The sums over the subsets of a finite set exist.
LEMMA SumExists ==
    ASSUME NEW S, IsFiniteSet(S), NEW c \in [S -> Nat] PROVE \E G : IsSum(G, S, c)
  <1> DEFINE ch == [T \in SUBSET S |-> CHOOSE x \in T : TRUE]
             h == [p \in Nat \X S |-> c[p[2]] + p[1]]
  <1>1. \A T \in SUBSET S : T # {} => ch[T] \in T /\ ch[T] = CHOOSE x \in T : TRUE
    OBVIOUS
  <1>2. \A v \in Nat, x \in S : h[<<v, x>>] = c[x] + v /\ h[<<v, x>>] \in Nat
    OBVIOUS
  <1> HIDE DEF ch, h
  <1>3. Foldable(S, Nat, 0, ch, h)
    BY <1>1, <1>2 DEF Foldable
  <1>4. PICK G : IsFold(G, S, Nat, 0, ch, h)
    BY <1>3, FoldExists
  <1>5. ASSUME NEW T \in SUBSET S, T # {}
        PROVE  G[T] = c[CHOOSE x \in T : TRUE] + G[T \ {CHOOSE x \in T : TRUE}]
    <2>1. G[T] = h[<<G[T \ {ch[T]}], ch[T]>>] /\ G[T \ {ch[T]}] \in Nat
      BY <1>4, <1>5 DEF IsFold
    <2>2. G[T] = c[ch[T]] + G[T \ {ch[T]}]
      BY <1>1, <1>2, <1>5, <2>1
    <2>3. QED
      BY <1>1, <1>5, <2>2
  <1>6. G \in [SUBSET S -> Nat] /\ G[{}] = 0
    BY <1>4 DEF IsFold
  <1>7. QED
    BY <1>5, <1>6 DEF IsSum

\* In whatever order it adds them, one element more adds its number.
LEMMA SumAdds ==
    ASSUME NEW S, IsFiniteSet(S), NEW c \in [S -> Nat], NEW G, IsSum(G, S, c)
    PROVE  Adds(G, S, c)
  <1> DEFINE P == {n \in Nat : \A T \in SUBSET S : \A y \in S \ T :
                     Cardinality(T) <= n => G[T \cup {y}] = c[y] + G[T]}
  <1>0. \A T \in SUBSET S : IsFiniteSet(T) /\ Cardinality(T) \in Nat
    BY FS_Subset, FS_CardinalityType
  <1>g. /\ \A T \in SUBSET S : G[T] \in Nat
        /\ G[{}] = 0 /\ \A x \in S : c[x] \in Nat
    BY DEF IsSum
  <1>z. ASSUME NEW T \in SUBSET S, T # {} PROVE \E z \in T : G[T] = c[z] + G[T \ {z}]
    <2> DEFINE z == CHOOSE x \in T : TRUE
    <2>1. z \in T
      BY <1>z
    <2>2. G[T] = c[z] + G[T \ {z}]
      BY <1>z DEF IsSum
    <2>3. QED
      BY <2>1, <2>2
  <1>1. 0 \in P
    <2> SUFFICES ASSUME NEW T \in SUBSET S, NEW y \in S \ T, Cardinality(T) <= 0
                 PROVE  G[T \cup {y}] = c[y] + G[T]
      OBVIOUS
    <2>1. T = {}
      BY <1>0, FS_EmptySet
    <2>2. PICK z \in {y} : G[{y}] = c[z] + G[{y} \ {z}]
      <3>1. {y} \in SUBSET S /\ {y} # {}
        OBVIOUS
      <3>2. QED
        BY <3>1, <1>z
    <2>3. z = y /\ {y} \ {z} = {} /\ T \cup {y} = {y}
      BY <2>1
    <2>4. QED
      BY <2>1, <2>2, <2>3
  <1>2. \A n \in Nat : n \in P => n + 1 \in P
    <2> SUFFICES ASSUME NEW n \in Nat, n \in P PROVE n + 1 \in P
      OBVIOUS
    <2> SUFFICES ASSUME NEW T \in SUBSET S, NEW y \in S \ T, Cardinality(T) <= n + 1
                 PROVE  G[T \cup {y}] = c[y] + G[T]
      OBVIOUS
    <2>1. PICK z \in T \cup {y} : G[T \cup {y}] = c[z] + G[(T \cup {y}) \ {z}]
      <3>1. T \cup {y} \in SUBSET S /\ T \cup {y} # {}
        OBVIOUS
      <3>2. QED
        BY <3>1, <1>z
    <2>2. CASE z = y
      <3>1. (T \cup {y}) \ {z} = T
        BY <2>2
      <3>2. QED
        BY <2>1, <2>2, <3>1
    <2>3. CASE z # y
      <3> DEFINE R == T \ {z}
      <3>1. z \in T /\ R \in SUBSET S /\ y \in S \ R /\ z \in S \ R
            /\ (T \cup {y}) \ {z} = R \cup {y} /\ R \cup {z} = T
        BY <2>3
      <3>2. Cardinality(R) <= n
        <4>1. Cardinality(R) = Cardinality(T) - 1
          BY <3>1, <1>0, FS_RemoveElement
        <4>2. QED
          BY <4>1, <1>0
      <3> HIDE DEF R
      <3>3. G[R \cup {y}] = c[y] + G[R] /\ G[R \cup {z}] = c[z] + G[R]
        BY <3>1, <3>2
      <3>4. c[y] \in Nat /\ c[z] \in Nat /\ G[R] \in Nat
        BY <1>g, <3>1
      <3>5. G[T \cup {y}] = c[z] + (c[y] + G[R]) /\ G[T] = c[z] + G[R]
        BY <2>1, <3>1, <3>3
      <3>6. QED
        BY <3>4, <3>5
    <2>4. QED
      BY <2>2, <2>3
  <1>3. Nat \subseteq P
    <2> HIDE DEF P
    <2>1. QED
      BY <1>1, <1>2, Induction, Zenon
  <1>4. \A T \in SUBSET S : Cardinality(T) \in P /\ Cardinality(T) <= Cardinality(T)
    BY <1>0, <1>3
  <1>5. QED
    BY <1>4 DEF Adds

\* The sum over a set does not depend on what it is a subset of.
LEMMA SumsAgree ==
    ASSUME NEW S, IsFiniteSet(S), NEW R \in SUBSET S, NEW c, NEW d, NEW G, NEW H,
           IsSum(G, S, c), IsSum(H, R, d), Same(c, d, R)
    PROVE  G[R] = H[R]
  <1> DEFINE P == {n \in Nat : \A T \in SUBSET R : Cardinality(T) <= n => G[T] = H[T]}
  <1>0. \A T \in SUBSET R : IsFiniteSet(T) /\ Cardinality(T) \in Nat /\ T \in SUBSET S
    BY FS_Subset, FS_CardinalityType
  <1>1. 0 \in P
    <2> SUFFICES ASSUME NEW T \in SUBSET R, Cardinality(T) <= 0 PROVE G[T] = H[T]
      OBVIOUS
    <2>1. T = {}
      BY <1>0, FS_EmptySet
    <2>2. QED
      BY <2>1 DEF IsSum
  <1>2. \A n \in Nat : n \in P => n + 1 \in P
    <2> SUFFICES ASSUME NEW n \in Nat, n \in P, NEW T \in SUBSET R, Cardinality(T) <= n + 1
                 PROVE  G[T] = H[T]
      OBVIOUS
    <2>1. CASE T = {}
      BY <2>1 DEF IsSum
    <2>2. CASE T # {}
      <3> DEFINE z == CHOOSE x \in T : TRUE
      <3>1. z \in T /\ z \in R
        BY <2>2
      <3>2. G[T] = c[z] + G[T \ {z}] /\ H[T] = d[z] + H[T \ {z}]
        BY <1>0, <2>2 DEF IsSum
      <3> HIDE DEF z
      <3>3. Cardinality(T \ {z}) = Cardinality(T) - 1
        BY <3>1, <1>0, FS_RemoveElement
      <3>4. Cardinality(T \ {z}) <= n
        BY <3>3, <1>0
      <3>5. G[T \ {z}] = H[T \ {z}]
        BY <3>4
      <3>6. QED
        BY <3>1, <3>2, <3>5 DEF Same
    <2>3. QED
      BY <2>1, <2>2
  <1>3. Nat \subseteq P
    <2> HIDE DEF P
    <2>1. QED
      BY <1>1, <1>2, Induction, Zenon
  <1>4. \A T \in SUBSET R : Cardinality(T) \in P /\ Cardinality(T) <= Cardinality(T)
    BY <1>0, <1>3
  <1>5. QED
    BY <1>4

DocStages == {"none", "asked", "words", "vectors", "read", "expand", "check", "answered", "failed"}
DocQuery == [stage : DocStages, mode : {"text", "vector", "hybrid"}, k : Nat, tags : Seq(Tag),
             top : Nat, budget : Nat]
Paras == UNION {{t[x] : x \in DOMAIN t} : t \in Contents}

\* found has its fields.
FoundShape == found = [text |-> found.text, vector |-> found.vector, hits |-> found.hits,
                       texts |-> found.texts, bodies |-> found.bodies, cut |-> found.cut]

\* The hits are rows of a database that has not changed.
HitsAreRows ==
    reindexed = 0 => \A n \in DOMAIN found.hits : \E x \in DOMAIN passages :
                        found.hits[n] = passages[x]

\* The bodies so far: all but the last whole, and the last too unless it is the one that
\* used the budget up.
BodiesOK ==
    /\ query \in DocQuery /\ passages \in Contents /\ reindexed \in Nat
    /\ FoundShape
    /\ found.hits \in Seq(Paras) /\ found.texts \in Seq(Paras)
    /\ found.bodies \in Seq(Nat) /\ Len(found.texts) = Len(found.bodies) /\ found.cut \in BOOLEAN
    /\ query.stage \in {"none", "asked", "words", "vectors", "read"} =>
         found.bodies = <<>> /\ ~found.cut
    /\ HitsAreRows
    /\ BodiesFitBudget
    /\ found.cut => UsedBudget = query.budget

\* What ExpandHitBodies has used so far (store.go) is the sum of the bodies.
LEMMA UsedIsTotal == UsedBudget = Total(found.bodies)
  BY DEF UsedBudget, Total

\* The same of the next state.
LEMMA UsedIsTotalNext == UsedBudget' = Total(found'.bodies)
  <1>1. (UsedBudget = Total(found.bodies))'
    BY UsedIsTotal, PTL
  <1>2. QED
    BY <1>1

\* The paragraphs of a database.
LEMMA ParaIs ==
    ASSUME BodiesOK, NEW x \in DOMAIN passages
    PROVE  /\ passages[x] \in Paras /\ passages[x].length \in Nat
           /\ \A y \in DOMAIN passages :
                passages[x].doc = passages[y].doc /\ passages[x].seq = passages[y].seq => x = y
  BY DocSearchAssumption DEF BodiesOK, Paras

\* Before the request there are no bodies.
LEMMA BodiesInit == DocSearchInit => BodiesOK
  <1> SUFFICES ASSUME DocSearchInit PROVE BodiesOK
    OBVIOUS
  <1>1. query \in DocQuery /\ passages \in Contents /\ reindexed \in Nat
    <2>1. <<>> \in Seq(Tag)
      OBVIOUS
    <2>2. QED
      BY <2>1 DEF DocSearchInit, DocQuery, DocStages
  <1>2. /\ found.bodies = <<>> /\ found.cut = FALSE /\ found.hits = <<>> /\ found.texts = <<>>
        /\ query.budget = 1 /\ query.top = 0
    BY DEF DocSearchInit, NothingFound
  <1>3. UsedBudget = 0
    BY <1>2, UsedIsTotal, TotalOfNone
  <1>4. /\ <<>> \in Seq(Nat) /\ <<>> \in Seq(Paras) /\ Len(<<>>) = 0 /\ DOMAIN <<>> = {}
    OBVIOUS
  <1>5. BodiesFitBudget /\ HitsAreRows
    BY <1>2, <1>3, <1>4 DEF BodiesFitBudget, HitsAreRows
  <1>6. FoundShape
    BY DEF DocSearchInit, NothingFound, FoundShape
  <1>7. QED
    BY <1>1, <1>2, <1>4, <1>5, <1>6 DEF BodiesOK

\* Without bodies there is nothing to fit.
LEMMA NoBodies ==
    ASSUME found'.bodies = <<>>, query' \in DocQuery, found'.hits \in Seq(Paras)
    PROVE  BodiesFitBudget'
  <1>1. UsedBudget' = 0
    BY UsedIsTotalNext, TotalOfNone
  <1>2. Len(<<>>) = 0 /\ DOMAIN <<>> = {} /\ Len(found'.hits) \in Nat
    OBVIOUS
  <1>3. query'.top \in Nat /\ query'.budget \in Nat
    BY DEF DocQuery
  <1>4. QED
    BY <1>1, <1>2, <1>3 DEF BodiesFitBudget

\* A step that adds no body keeps the others within the budget.
LEMMA BodiesSame ==
    ASSUME BodiesOK, query' \in DocQuery, passages' \in Contents, reindexed' \in Nat,
           reindexed' = 0 => reindexed = 0 /\ passages' = passages,
           FoundShape', found'.hits = found.hits, found'.texts = found.texts,
           found'.bodies = found.bodies, found'.cut = found.cut,
           \/ found.bodies = <<>> /\ ~found.cut
           \/ /\ query'.top = query.top /\ query'.budget = query.budget
              /\ query'.stage \in {"expand", "check", "answered", "failed"}
    PROVE  BodiesOK'
  <1>1. UsedBudget' = UsedBudget
    BY UsedIsTotal, UsedIsTotalNext
  <1>2. HitsAreRows'
    BY DEF BodiesOK, HitsAreRows
  <1>3. CASE found.bodies = <<>> /\ ~found.cut
    BY <1>2, <1>3, NoBodies DEF BodiesOK
  <1>4. CASE /\ query'.top = query.top /\ query'.budget = query.budget
             /\ query'.stage \in {"expand", "check", "answered", "failed"}
    <2>1. BodiesFitBudget'
      BY <1>1, <1>4 DEF BodiesOK, BodiesFitBudget
    <2>2. QED
      BY <1>1, <1>2, <1>4, <2>1 DEF BodiesOK
  <1>5. QED
    BY <1>3, <1>4

\* Only the stage changes.
LEMMA BodiesGo ==
    ASSUME BodiesOK, NEW s \in DocStages, Enters(s), UNCHANGED <<passages, found, reindexed>>,
           \/ found.bodies = <<>> /\ ~found.cut
           \/ s \in {"expand", "check", "answered", "failed"}
    PROVE  BodiesOK'
  <1>1. /\ query' \in DocQuery /\ query'.top = query.top /\ query'.budget = query.budget
        /\ query'.stage = s
    BY DEF BodiesOK, DocQuery, Enters
  <1>2. FoundShape'
    BY DEF BodiesOK, FoundShape
  <1>3. QED
    BY <1>1, <1>2, BodiesSame DEF BodiesOK

\* One row more is read.
LEMMA BodiesRead == ASSUME BodiesOK, ReadHit PROVE BodiesOK'
  <1> DEFINE n == Len(found.hits) + 1
             row == passages[Ids[n]]
  <1>1. /\ query.stage = "read" /\ passages' = passages /\ reindexed' = reindexed
        /\ found.bodies = <<>> /\ ~found.cut
    BY DEF ReadHit, BodiesOK
  <1>2. CASE Ids[n] \notin DOMAIN passages
    <2>1. Enters("failed") /\ found' = found
      BY <1>2 DEF ReadHit
    <2>2. QED
      BY <1>1, <2>1, BodiesGo DEF DocStages
  <1>3. CASE Ids[n] \in DOMAIN passages
    <2>1. found' = [found EXCEPT !.hits = Append(@, row)] /\ query' = query
      BY <1>3 DEF ReadHit
    <2>2. row \in Paras
      BY <1>3, ParaIs
    <2> HIDE DEF row
    <2>3. /\ found'.hits = Append(found.hits, row) /\ found'.texts = found.texts
          /\ found'.bodies = found.bodies /\ found'.cut = found.cut /\ FoundShape'
      BY <2>1 DEF BodiesOK, FoundShape
    <2>4. /\ found'.hits \in Seq(Paras)
          /\ \A i \in DOMAIN found'.hits :
               \/ found'.hits[i] = row
               \/ i \in DOMAIN found.hits /\ found'.hits[i] = found.hits[i]
      BY <2>2, <2>3 DEF BodiesOK
    <2>5. HitsAreRows'
      BY <1>1, <1>3, <2>4 DEF BodiesOK, HitsAreRows, row
    <2>6. BodiesFitBudget'
      BY <1>1, <2>1, <2>3, <2>4, NoBodies DEF BodiesOK
    <2>7. QED
      BY <1>1, <2>1, <2>3, <2>4, <2>5, <2>6 DEF BodiesOK
  <1>4. QED
    BY <1>2, <1>3

\* One hit's body: what stands at its place, whole, or what the budget has left
\* of it, and then the budget is used up.
LEMMA BodiesExpand == ASSUME BodiesOK, ExpandHit PROVE BodiesOK'
  <1> DEFINE b == found.bodies
             n == Len(b) + 1
             used == UsedBudget
             left == query.budget - used
             hit == found.hits[n]
  <1>1. /\ b \in Seq(Nat) /\ n \in Nat /\ used \in Nat /\ used <= query.budget /\ ~found.cut
        /\ query.budget \in Nat /\ query.top \in Nat /\ left \in Nat /\ n <= query.top
        /\ Len(found.hits) \in Nat /\ n <= Len(found.hits) /\ n \in DOMAIN found.hits
        /\ query.stage = "expand" /\ passages' = passages /\ reindexed' = reindexed
    <2>1. used \in Nat /\ used <= query.budget
      BY UsedIsTotal, Totals DEF BodiesOK, BodiesFitBudget
    <2>2. /\ query.stage = "expand" /\ passages' = passages /\ reindexed' = reindexed
          /\ ~found.cut /\ n <= query.top /\ n <= Len(found.hits)
      BY DEF ExpandHit
    <2>3. query.budget \in Nat /\ query.top \in Nat /\ b \in Seq(Nat)
      BY DEF BodiesOK, DocQuery
    <2>4. n \in Nat /\ n >= 1 /\ left \in Nat
      <3> HIDE DEF used
      <3>1. QED
        BY <2>1, <2>3
    <2>5. Len(found.hits) \in Nat /\ n \in DOMAIN found.hits
      BY <2>2, <2>4 DEF BodiesOK
    <2>6. QED
      BY <2>1, <2>2, <2>3, <2>4, <2>5
  <1>2. \A i \in DOMAIN b : /\ b[i] = found.texts[i].length
                            /\ found.texts[i].doc = found.hits[i].doc
                            /\ found.texts[i].seq = found.hits[i].seq
                            /\ reindexed = 0 => found.texts[i] = found.hits[i]
    BY <1>1 DEF BodiesOK, BodiesFitBudget
  <1>3. CASE RowsOf(hit) = {}
    <2>1. Enters("failed") /\ found' = found
      BY <1>3 DEF ExpandHit
    <2>2. QED
      BY <1>1, <2>1, BodiesGo DEF DocStages
  <1>4. ASSUME NEW x \in RowsOf(hit), Enters("check"),
               found' = [found EXCEPT !.texts = Append(@, passages[x]),
                                      !.bodies = Append(@, IF passages[x].length > left THEN left
                                                           ELSE passages[x].length),
                                      !.cut = passages[x].length > left]
        PROVE  BodiesOK'
    <2> DEFINE text == passages[x]
               len == text.length
               y == IF len > left THEN left ELSE len
               b1 == Append(b, y)
               t1 == Append(found.texts, text)
    <2>1. /\ text \in Paras /\ len \in Nat /\ text.doc = hit.doc /\ text.seq = hit.seq
          /\ x \in DOMAIN passages
      <3>1. x \in DOMAIN passages /\ text.doc = hit.doc /\ text.seq = hit.seq
        BY <1>4 DEF RowsOf
      <3>2. QED
        BY <3>1, ParaIs
    <2>2. reindexed = 0 => text = hit
      <3> SUFFICES ASSUME reindexed = 0 PROVE text = hit
        OBVIOUS
      <3>1. PICK z \in DOMAIN passages : hit = passages[z]
        BY <1>1 DEF BodiesOK, HitsAreRows
      <3>2. x = z
        BY <2>1, <3>1, ParaIs
      <3>3. QED
        BY <3>1, <3>2
    <2>3. /\ y \in Nat /\ used + y <= query.budget /\ (y # len => used + y = query.budget)
          /\ (len > left => used + y = query.budget) /\ (y # len => len > left)
      <3> HIDE DEF len, left, used
      <3>1. left = query.budget - used /\ len \in Nat
        BY <2>1 DEF left
      <3>2. QED
        BY <1>1, <3>1
    <2> HIDE DEF text, len, y
    <2>4. /\ found'.bodies = b1 /\ found'.texts = t1 /\ found'.hits = found.hits
          /\ found'.cut = (len > left) /\ FoundShape'
      <3>1. found' = [found EXCEPT !.texts = t1, !.bodies = b1, !.cut = (len > left)]
        BY <1>4 DEF y, text, len
      <3> HIDE DEF b1, t1, left
      <3>2. QED
        BY <3>1 DEF BodiesOK, FoundShape
    <2>5. UsedBudget' = used + y
      <3>1. UsedBudget' = Total(b1)
        BY <2>4, UsedIsTotalNext
      <3>2. Total(b1) = Total(b) + y
        BY <1>1, <2>3, Totals
      <3>3. QED
        BY <3>1, <3>2, UsedIsTotal
    <2>6. /\ b1 \in Seq(Nat) /\ Len(b1) = n /\ DOMAIN b1 = 1..n /\ b1[n] = y
          /\ \A i \in 1..n : i # n => i \in DOMAIN b /\ b1[i] = b[i]
      BY <1>1, <2>3
    <2>7. /\ t1 \in Seq(Paras) /\ Len(t1) = n /\ t1[n] = text
          /\ \A i \in 1..n : i # n => t1[i] = found.texts[i]
      <3>1. found.texts \in Seq(Paras) /\ Len(found.texts) = Len(b)
        BY DEF BodiesOK
      <3>2. QED
        BY <1>1, <2>1, <3>1
    <2>8. /\ query' \in DocQuery /\ query'.top = query.top /\ query'.budget = query.budget
          /\ query'.stage = "check"
      BY <1>4 DEF BodiesOK, DocQuery, Enters, DocStages
    <2> HIDE DEF b, n, used, left, b1, t1, hit
    <2>9. BodiesFitBudget'
      <3>1. ASSUME NEW i \in 1..n
            PROVE  /\ t1[i].doc = found.hits[i].doc /\ t1[i].seq = found.hits[i].seq
                   /\ reindexed = 0 => t1[i] = found.hits[i]
                   /\ b1[i] # t1[i].length => i = n /\ y # len
        <4>1. CASE i = n
          BY <4>1, <2>1, <2>2, <2>6, <2>7 DEF hit, len
        <4>2. CASE i # n
          BY <4>2, <1>2, <2>6, <2>7
        <4>3. QED
          BY <4>1, <4>2
      <3>2. QED
        BY <1>1, <2>3, <2>4, <2>5, <2>6, <2>7, <2>8, <3>1 DEF BodiesFitBudget
    <2>10. HitsAreRows'
      BY <1>1, <2>4 DEF BodiesOK, HitsAreRows
    <2>11. passages' \in Contents /\ reindexed' \in Nat /\ found'.hits \in Seq(Paras)
      BY <1>1, <2>4 DEF BodiesOK
    <2>12. found'.cut => UsedBudget' = query'.budget
      BY <2>3, <2>4, <2>5, <2>8
    <2>13. found'.cut \in BOOLEAN /\ Len(found'.texts) = Len(found'.bodies)
      BY <2>4, <2>6, <2>7
    <2>14. QED
      BY <2>4, <2>6, <2>7, <2>8, <2>9, <2>10, <2>11, <2>12, <2>13 DEF BodiesOK
  <1>5. QED
    BY <1>3, <1>4 DEF ExpandHit

\* Every step of a search keeps the bodies within the budget.
LEMMA BodiesStep == ASSUME BodiesOK, [DocSearchNext]_docSearchVars PROVE BodiesOK'
  <1>f. FoundShape /\ query \in DocQuery /\ query.stage \in DocStages
    BY DEF BodiesOK, DocQuery
  <1>1. CASE AskDocuments
    <2>1. PICK mode \in {"text", "vector", "hybrid"}, k \in 1..MaxHits, top \in 0..2,
               budget \in 1..MaxBudget, n \in 0..2 :
            \E own \in [1..n -> Tag] :
              query' = [stage |-> "asked", mode |-> mode, k |-> k, tags |-> own, top |-> top,
                        budget |-> budget]
      BY <1>1 DEF AskDocuments
    <2>t. PICK own \in [1..n -> Tag] :
            query' = [stage |-> "asked", mode |-> mode, k |-> k, tags |-> own, top |-> top,
                      budget |-> budget]
      BY <2>1
    <2>2. own \in Seq(Tag) /\ k \in Nat /\ top \in Nat /\ budget \in Nat
      BY DocSearchAssumption
    <2>3. query' \in DocQuery
      BY <2>t, <2>2 DEF DocQuery, DocStages
    <2>4. /\ UNCHANGED <<passages, found, reindexed>> /\ FoundShape'
          /\ found.bodies = <<>> /\ ~found.cut
      BY <1>1, <1>f DEF AskDocuments, FoundShape, BodiesOK
    <2>5. QED
      BY <2>3, <2>4, BodiesSame DEF BodiesOK
  <1>2. CASE EmbedQuery
    <2>1. PICK s \in {"words", "vectors"} : Enters(s)
      BY <1>2 DEF EmbedQuery
    <2>2. found.bodies = <<>> /\ ~found.cut /\ s \in DocStages
      BY <1>2 DEF EmbedQuery, BodiesOK, DocStages
    <2>3. QED
      BY <1>2, <2>1, <2>2, BodiesGo DEF EmbedQuery
  <1>3. CASE RankText \/ RankVectors
    <2>1. PICK s \in {"vectors", "read"} : Enters(s)
      BY <1>3 DEF RankText, RankVectors
    <2>2. query' \in DocQuery
      BY <2>1, <1>f DEF Enters, DocQuery, DocStages
    <2>3. /\ found'.bodies = found.bodies /\ found'.cut = found.cut /\ found'.hits = found.hits
          /\ found'.texts = found.texts /\ FoundShape'
      BY <1>3, <1>f DEF RankText, RankVectors, FoundShape
    <2>4. /\ passages' = passages /\ reindexed' = reindexed
          /\ found.bodies = <<>> /\ ~found.cut
      BY <1>3 DEF RankText, RankVectors, BodiesOK
    <2>5. QED
      BY <2>2, <2>3, <2>4, BodiesSame DEF BodiesOK
  <1>4. CASE ReadHit
    BY <1>4, BodiesRead
  <1>5. CASE AnswerHits
    <2>1. PICK s \in {"expand", "answered"} : Enters(s)
      BY <1>5 DEF AnswerHits
    <2>2. QED
      BY <1>5, <2>1, BodiesGo DEF AnswerHits, DocStages
  <1>6. CASE ExpandHit
    BY <1>6, BodiesExpand
  <1>7. CASE CheckBody
    <2>1. PICK s \in {"expand", "failed"} : Enters(s)
      BY <1>7 DEF CheckBody
    <2>2. QED
      BY <1>7, <2>1, BodiesGo DEF CheckBody, DocStages
  <1>8. CASE ExpandEnds
    BY <1>8, BodiesGo DEF ExpandEnds, DocStages
  <1>9. CASE SearchFails
    BY <1>9, BodiesGo DEF SearchFails, DocStages
  <1>10. CASE Reindex
    <2>1. /\ query' = query /\ found' = found /\ passages' \in Contents
          /\ reindexed' = reindexed + 1 /\ reindexed \in Nat
      BY <1>10 DEF Reindex, BodiesOK
    <2>2. FoundShape'
      BY <1>f, <2>1 DEF FoundShape
    <2>3. \/ found.bodies = <<>> /\ ~found.cut
          \/ query.stage \in {"expand", "check", "answered", "failed"}
      BY <1>f DEF BodiesOK, DocStages
    <2>4. reindexed' \in Nat /\ reindexed' # 0
      BY <2>1
    <2>5. QED
      BY <1>f, <2>1, <2>2, <2>3, <2>4, BodiesSame
  <1>11. CASE UNCHANGED docSearchVars
    <2>1. query' = query /\ passages' = passages /\ found' = found /\ reindexed' = reindexed
      BY <1>11 DEF docSearchVars
    <2>2. UsedBudget' = UsedBudget
      BY <2>1, UsedIsTotal, UsedIsTotalNext
    <2>3. QED
      BY <2>1, <2>2 DEF BodiesOK, BodiesFitBudget, HitsAreRows, FoundShape
  <1>12. QED
    BY <1>1, <1>2, <1>3, <1>4, <1>5, <1>6, <1>7, <1>8, <1>9, <1>10, <1>11 DEF DocSearchNext

DocSearchSpec == DocSearchInit /\ [][DocSearchNext]_docSearchVars

\* The bodies of a document search (ExpandHitBodies, store.go) are together no longer than
\* the budget and whole but for the last, whatever the database does meanwhile; they are the
\* texts of the hits as long as it does not change.
THEOREM BodiesFit == DocSearchSpec => []BodiesFitBudget
  <1>1. BodiesOK => BodiesFitBudget
    BY DEF BodiesOK
  <1>2. QED
    BY BodiesInit, BodiesStep, <1>1, PTL DEF DocSearchSpec

-------------------------------------------------------------------------------
\* Paragraphs


LineOK == lines \in Seq(Line)

\* A line of the text is blank, a rule, text, or a heading of level 1 or more.
LEMMA LevelOK == ASSUME LineOK, NEW i \in DOMAIN lines
                 PROVE  /\ lines[i] \in Line /\ lines[i].level \in Nat /\ i \in Nat /\ i >= 1
                        /\ Is(i, "heading") => lines[i].level >= 1
  <1>1. lines[i] \in Line /\ i \in Nat /\ i >= 1
    BY DEF LineOK
  <1>2. lines[i].level \in Nat /\ (lines[i].kind = "heading" => lines[i].level >= 1)
    BY <1>1, ParaAssumption DEF Line
  <1>3. QED
    BY <1>1, <1>2 DEF Is

\* The front matter ends at a line, if there is any.
LEMMA FrontMatterOK ==
    ASSUME LineOK PROVE FrontMatter \in Nat
  <1>1. DOMAIN lines = 1..Len(lines) /\ Len(lines) \in Nat
    BY DEF LineOK
  <1>2. Rules \subseteq Nat
    BY <1>1 DEF Rules
  <1>3. CASE 1 \in Rules /\ Cardinality(Rules) > 1
    <2>1. Rules \ {1} # {}
      <3> SUFFICES ASSUME Rules \subseteq {1} PROVE FALSE
        OBVIOUS
      <3>1. Rules = {1}
        BY <1>3
      <3>2. Cardinality({1}) = 1
        BY FS_Singleton
      <3>3. QED
        BY <1>3, <3>1, <3>2
    <2> DEFINE W == Rules \ {1}
    <2>2. W \in SUBSET Nat /\ W # {}
      BY <1>2, <2>1
    <2>3. \E i \in W : \A j \in W : i <= j
      <3> HIDE DEF W
      <3>1. QED
        BY <2>2, LeastExists
    <2>4. FrontMatter \in W
      BY <2>3, <1>3 DEF FrontMatter
    <2>5. QED
      BY <2>2, <2>4
  <1>4. CASE ~(1 \in Rules /\ Cardinality(Rules) > 1)
    BY <1>4 DEF FrontMatter
  <1>5. QED
    BY <1>3, <1>4

\* The tags are among the lines of the front matter, and are items or the key's own.
LEMMA TagsOK ==
    ASSUME LineOK
    PROVE  \A i \in ParseTags : InFront(i) /\ lines[i].kind \in {"tags", "item"}
  <1>1. FrontMatter \in Nat
    BY FrontMatterOK
  <1>2. TagKey \in SUBSET Nat /\ \A i \in TagKey : i <= FrontMatter
    BY <1>1 DEF TagKey
  <1>3. CASE TagKey # {}
    <2> DEFINE k == CHOOSE i \in TagKey : \A j \in TagKey : i <= j
    <2>1. k \in TagKey
      BY <1>2, <1>3, LeastExists
    <2>2. k \in Nat /\ k <= FrontMatter
      BY <2>1, <1>2
    <2>3. ParseTags = IF Is(k, "tags") THEN {k}
                      ELSE {i \in k + 1..FrontMatter - 1 : \A j \in k + 1..i : Is(j, "item")}
      BY <1>3 DEF ParseTags
    <2> HIDE DEF k
    <2>4. CASE Is(k, "tags")
      BY <2>2, <2>3, <2>4 DEF Is, InFront
    <2>5. CASE ~Is(k, "tags")
      <3> SUFFICES ASSUME NEW i \in ParseTags
                   PROVE  InFront(i) /\ lines[i].kind \in {"tags", "item"}
        OBVIOUS
      <3>1. i \in k + 1..FrontMatter - 1 /\ \A j \in k + 1..i : Is(j, "item")
        BY <2>3, <2>5
      <3>2. i \in k + 1..i /\ i <= FrontMatter
        BY <3>1, <2>2, <1>1
      <3>3. QED
        BY <3>1, <3>2 DEF Is, InFront
    <2>6. QED
      BY <2>4, <2>5
  <1>4. CASE TagKey = {}
    BY <1>4 DEF ParseTags
  <1>5. QED
    BY <1>3, <1>4

\* What splitParas has after a number of lines, and one line more.
ParaRow == [first : Nat, last : Nat, heading : Seq(Nat)]
SplitState == [start : Nat, out : Seq(ParaRow), crumbs : Seq(Nat)]
NoParas == [start |-> 0, out |-> <<>>, crumbs |-> <<>>]
SplitLine(s, i) ==
    IF IsBlank(i) THEN Flush(s, i - 1)
    ELSE [s EXCEPT !.start = IF @ = 0 THEN i ELSE @, !.crumbs = Crumb(@, i)]

\* flush: the block, if one is open, is a row more; none is open afterwards.
LEMMA FlushOK ==
    ASSUME NEW s \in SplitState, NEW e \in Nat
    PROVE  /\ Flush(s, e) \in SplitState /\ Flush(s, e).start = 0 /\ Flush(s, e).crumbs = s.crumbs
           /\ s.start = 0 => Flush(s, e).out = s.out
           /\ s.start # 0 => Flush(s, e).out =
                Append(s.out, [first |-> s.start, last |-> e, heading |-> s.crumbs])
  <1>1. s = [start |-> s.start, out |-> s.out, crumbs |-> s.crumbs]
        /\ s.start \in Nat /\ s.out \in Seq(ParaRow) /\ s.crumbs \in Seq(Nat)
    BY DEF SplitState
  <1> DEFINE r == [first |-> s.start, last |-> e, heading |-> s.crumbs]
             t == [s EXCEPT !.start = 0, !.out = Append(@, r)]
  <1>2. r \in ParaRow
    BY <1>1 DEF ParaRow
  <1>3. Append(s.out, r) \in Seq(ParaRow)
    <2> HIDE DEF r
    <2>1. QED
      BY <1>1, <1>2
  <1>4. CASE s.start # 0
    <2>1. Flush(s, e) = t
      BY <1>4 DEF Flush
    <2> HIDE DEF r
    <2>2. t.start = 0 /\ t.out = Append(s.out, r) /\ t.crumbs = s.crumbs /\ t \in SplitState
      BY <1>1, <1>3 DEF SplitState
    <2> HIDE DEF t
    <2>3. QED
      BY <2>1, <2>2, <1>4 DEF r
  <1>5. CASE s.start = 0
    BY <1>1, <1>5 DEF Flush
  <1>6. QED
    BY <1>4, <1>5

\* A heading cuts the headings it stands under to its level, and is the last of them.
LEMMA CrumbOK ==
    ASSUME NEW c \in Seq(Nat), NEW i \in Nat, LineOK, i \in DOMAIN lines
    PROVE  /\ Crumb(c, i) \in Seq(Nat)
           /\ ~Is(i, "heading") => Crumb(c, i) = c
           /\ Is(i, "heading") /\ lines[i].level - 1 <= Len(c) =>
                /\ Len(Crumb(c, i)) = lines[i].level /\ Crumb(c, i)[lines[i].level] = i
                /\ \A j \in 1..(lines[i].level - 1) : Crumb(c, i)[j] = c[j]
  <1>1. lines[i].level \in Nat /\ (Is(i, "heading") => lines[i].level >= 1)
    BY LevelOK
  <1> DEFINE m == lines[i].level - 1
             d == IF m < Len(c) THEN SubSeq(c, 1, m) ELSE c
  <1>2. CASE Is(i, "heading")
    <2>1. Crumb(c, i) = Append(d, i) /\ m \in Nat
      BY <1>1, <1>2, SMTT(30) DEF Crumb
    <2>2. d \in Seq(Nat) /\ (m <= Len(c) => Len(d) = m /\ \A j \in 1..m : d[j] = c[j])
      BY <2>1, SMTT(30)
    <2>3. lines[i].level = m + 1
      BY <1>1
    <2> HIDE DEF d, m
    <2>4. Append(d, i) \in Seq(Nat) /\ Len(Append(d, i)) = Len(d) + 1
          /\ Append(d, i)[Len(d) + 1] = i /\ \A j \in 1..Len(d) : Append(d, i)[j] = d[j]
      BY <2>2
    <2>5. ASSUME m <= Len(c)
          PROVE  /\ Len(Append(d, i)) = m + 1 /\ Append(d, i)[m + 1] = i
                 /\ \A j \in 1..m : Append(d, i)[j] = c[j]
      BY <2>5, <2>2, <2>4
    <2>6. QED
      BY <2>1, <2>3, <2>4, <2>5, <1>2 DEF m
  <1>3. CASE ~Is(i, "heading")
    BY <1>3 DEF Crumb
  <1>4. QED
    BY <1>2, <1>3

\* One line of the text: a blank one closes the block, any other opens one or is in it.
LEMMA SplitLineOK ==
    ASSUME NEW s \in SplitState, NEW i \in Nat, LineOK, i \in DOMAIN lines
    PROVE  /\ SplitLine(s, i) \in SplitState
           /\ IsBlank(i) => SplitLine(s, i) = Flush(s, i - 1)
           /\ ~IsBlank(i) => /\ SplitLine(s, i).start = IF s.start = 0 THEN i ELSE s.start
                             /\ SplitLine(s, i).crumbs = Crumb(s.crumbs, i)
                             /\ SplitLine(s, i).out = s.out
  <1>0. i >= 1
    BY LevelOK
  <1>1. CASE IsBlank(i)
    <2>1. SplitLine(s, i) = Flush(s, i - 1) /\ i - 1 \in Nat
      BY <1>0, <1>1 DEF SplitLine
    <2>2. Flush(s, i - 1) \in SplitState
      BY <2>1, FlushOK
    <2>3. QED
      BY <2>1, <2>2, <1>1
  <1>2. CASE ~IsBlank(i)
    <2>1. s = [start |-> s.start, out |-> s.out, crumbs |-> s.crumbs]
          /\ s.start \in Nat /\ s.out \in Seq(ParaRow) /\ s.crumbs \in Seq(Nat)
      BY DEF SplitState
    <2> DEFINE c == Crumb(s.crumbs, i)
               b == IF s.start = 0 THEN i ELSE s.start
    <2>2. c \in Seq(Nat) /\ b \in Nat
      BY <2>1, CrumbOK
    <2>3. SplitLine(s, i) = [s EXCEPT !.start = b, !.crumbs = c]
      BY <1>2 DEF SplitLine
    <2> HIDE DEF c, b
    <2>4. SplitLine(s, i) = [start |-> b, out |-> s.out, crumbs |-> c]
      BY <2>1, <2>3
    <2>5. [start |-> b, out |-> s.out, crumbs |-> c] \in SplitState
      BY <2>1, <2>2 DEF SplitState
    <2>6. QED
      BY <2>4, <2>5, <1>2 DEF b, c
  <1>3. QED
    BY <1>1, <1>2

\* Split goes through the lines with FoldLeft.
LEMMA SplitIsFold ==
    ASSUME NEW q
    PROVE  FoldLeft(LAMBDA s, i : IF IsBlank(i) THEN Flush(s, i - 1)
                                  ELSE [s EXCEPT !.start = IF @ = 0 THEN i ELSE @,
                                                 !.crumbs = Crumb(@, i)],
                    [start |-> 0, out |-> <<>>, crumbs |-> <<>>], q)
           = (CHOOSE g : g = [T \in SUBSET DOMAIN q |->
                IF T = {} THEN NoParas ELSE SplitLine(g[T \ {Max(T)}], q[Max(T)])])[DOMAIN q]
  BY DEF FoldLeft, MapThenFoldSet, SplitLine, NoParas

\* The states splitParas goes through, a line after the other.
LEMMA SplitSteps ==
    ASSUME LineOK
    PROVE  \E f \in [0..Len(lines) -> SplitState] :
              /\ f[0] = NoParas /\ Split = Flush(f[Len(lines)], Len(lines)).out
              /\ \A k \in 1..Len(lines) : f[k] = SplitLine(f[k - 1], k)
  <1> DEFINE n == Len(lines)
             V == SplitState
             h == [p \in V \X (1..n) |-> SplitLine(p[1], p[2])]
             q == [i \in 1..n |-> i]
             Eq(g) == g = [T \in SUBSET DOMAIN q |->
                             IF T = {} THEN NoParas ELSE SplitLine(g[T \ {Max(T)}], q[Max(T)])]
             G == CHOOSE g : Eq(g)
  <1>1. n \in Nat /\ DOMAIN lines = 1..n /\ NoParas \in V
    <2>1. NoParas \in V
      BY DEF NoParas, SplitState
    <2>2. QED
      BY <2>1 DEF LineOK
  <1>2. \A v \in V, k \in 1..n : SplitLine(v, k) \in V
    BY <1>1, SplitLineOK
  <1>3. \A v \in V, k \in 1..n : h[<<v, k>>] = SplitLine(v, k) /\ h[<<v, k>>] \in V
    BY <1>2
  <1>q. DOMAIN q = 1..n /\ \A i \in 1..n : q[i] = i
    OBVIOUS
  <1>4. Split = Flush(G[DOMAIN q], n).out
    <2> HIDE DEF q
    <2>1. QED
      BY SplitIsFold DEF Split, q
  <1> HIDE DEF h, n, V, q
  <1>5. \A T \in SUBSET (1..n) : T # {} => Max(T) \in 1..n /\ T \ {Max(T)} \in SUBSET (1..n)
                                           /\ q[Max(T)] = Max(T)
    BY <1>1, <1>q, Intervals
  <1>6. \E g : Eq(g)
    <2>1. PICK g : IsFoldLeft(g, n, V, NoParas, h)
      BY <1>1, <1>3, FoldLeftExists
    <2>2. ASSUME NEW T \in SUBSET (1..n), T # {}
          PROVE  g[T] = SplitLine(g[T \ {Max(T)}], q[Max(T)])
      <3>1. Max(T) \in 1..n /\ q[Max(T)] = Max(T) /\ T \ {Max(T)} \in SUBSET (1..n)
        BY <1>5, <2>2
      <3>2. g[T \ {Max(T)}] \in V /\ g[T] = h[<<g[T \ {Max(T)}], Max(T)>>]
        BY <2>1, <2>2, <3>1 DEF IsFoldLeft
      <3>3. QED
        BY <1>3, <3>1, <3>2
    <2>3. Eq(g)
      BY <1>q, <2>1, <2>2 DEF IsFoldLeft
    <2>4. QED
      BY <2>3
  <1>7. Eq(G)
    BY <1>6
  <1> HIDE DEF G
  <1>8. Computes(G, n, V, NoParas, h)
    <2>1. G[{}] = NoParas
      BY <1>7, <1>q
    <2>2. ASSUME NEW T \in SUBSET (1..n), T # {}, G[T \ {Max(T)}] \in V
          PROVE  G[T] = h[<<G[T \ {Max(T)}], Max(T)>>]
      <3>1. G[T] = SplitLine(G[T \ {Max(T)}], q[Max(T)])
        BY <1>q, <1>7, <2>2
      <3>2. q[Max(T)] = Max(T) /\ Max(T) \in 1..n
        BY <1>5, <2>2
      <3> HIDE DEF Eq
      <3>3. h[<<G[T \ {Max(T)}], Max(T)>>] = SplitLine(G[T \ {Max(T)}], Max(T))
        BY <1>3, <2>2, <3>2
      <3>4. QED
        BY <3>1, <3>2, <3>3
    <2>3. QED
      BY <2>1, <2>2 DEF Computes
  <1>9. PICK f : Steps(f, n, V, NoParas, h, G[1..n])
    BY <1>1, <1>3, <1>8, FoldLeftSteps
  <1>10. \A k \in 1..n : f[k] = SplitLine(f[k - 1], k)
    BY <1>1, <1>3, <1>9 DEF Steps
  <1>11. QED
    BY <1>q, <1>4, <1>9, <1>10 DEF n, V, Steps

\* The headings a line is under, one line further.
LEMMA AboveNext ==
    ASSUME LineOK, NEW i \in DOMAIN lines
    PROVE  /\ ~Is(i, "heading") \/ InFront(i) => Enclosing(i) = Enclosing(i - 1)
           /\ Is(i, "heading") /\ ~InFront(i) =>
                Enclosing(i) = {j \in Enclosing(i - 1) : lines[j].level < lines[i].level} \cup {i}
           /\ Enclosing(0) = {} /\ i \notin Enclosing(i - 1)
           /\ Enclosing(i - 1) \subseteq 1..(i - 1) /\ Enclosing(i - 1) \subseteq DOMAIN lines
  <1>1. i \in Nat /\ i >= 1 /\ DOMAIN lines = 1..Len(lines) /\ Len(lines) \in Nat /\ i <= Len(lines)
    BY LevelOK DEF LineOK
  <1>2. \A j \in 1..i : j \in DOMAIN lines /\ lines[j].level \in Nat
    BY <1>1, LevelOK
  <1>3. Above(i) = Above(i - 1) \cup {j \in {i} : Is(i, "heading") /\ ~InFront(i)}
    BY <1>1 DEF Above
  <1>4. Above(i - 1) \subseteq 1..(i - 1) /\ Above(0) = {}
    BY <1>1 DEF Above
  <1>5. CASE ~Is(i, "heading") \/ InFront(i)
    <2>1. Above(i) = Above(i - 1)
      BY <1>3, <1>5
    <2>2. Enclosing(i) = Enclosing(i - 1)
      BY <2>1 DEF Enclosing
    <2>3. QED
      BY <2>2, <1>1, <1>4, <1>5 DEF Enclosing
  <1>6. CASE Is(i, "heading") /\ ~InFront(i)
    <2>1. Above(i) = Above(i - 1) \cup {i}
      BY <1>3, <1>6
    <2>2. \A j \in Above(i - 1) : j \in Nat /\ j < i /\ lines[j].level \in Nat
      BY <1>1, <1>2, <1>4
    <2>3. ASSUME NEW j \in Above(i - 1)
          PROVE  j \in Enclosing(i) <=> j \in Enclosing(i - 1) /\ lines[j].level < lines[i].level
      BY <2>1, <2>2, <2>3, <1>1, <1>2 DEF Enclosing
    <2>4. i \in Enclosing(i)
      BY <2>1, <2>2, <1>1 DEF Enclosing
    <2>5. Enclosing(i) = {j \in Enclosing(i - 1) : lines[j].level < lines[i].level} \cup {i}
      BY <2>1, <2>3, <2>4 DEF Enclosing
    <2>6. QED
      BY <2>5, <1>1, <1>4, <1>6 DEF Enclosing
  <1>7. QED
    BY <1>5, <1>6

\* The headings so far, in a document that skips no level: those the line is under, the
\* j-th of level j.
CrumbsOK(c, e) ==
    /\ ToSet(c) = Enclosing(e)
    /\ \A j \in DOMAIN c : c[j] \in DOMAIN lines /\ lines[c[j]].level = j
    /\ \A j, m \in DOMAIN c : j < m => c[j] < c[m]

\* In a text that skips no level a heading's parent levels are all there.
LEMMA NoneSkipped ==
    ASSUME LineOK, WellNested, NEW c \in Seq(Nat), NEW i \in DOMAIN lines, CrumbsOK(c, i - 1),
           Is(i, "heading"), ~InFront(i)
    PROVE  lines[i].level - 1 <= Len(c)
  <1> DEFINE l == lines[i].level
             B == {j \in Enclosing(i - 1) : lines[j].level < l}
             n == Len(c)
             S == {c[j] : j \in 1..n}
  <1>1. i \in Nat /\ i >= 1 /\ i <= Len(lines) /\ l \in Nat /\ Len(lines) \in Nat
    BY LevelOK DEF LineOK
  <1>2. Enclosing(i) \ {i} = B
    BY AboveNext
  <1>3. i \in Above(Len(lines))
    BY <1>1 DEF Above
  <1>4. l <= 1 + Cardinality(B)
    BY <1>2, <1>3 DEF WellNested
  <1>5. n \in Nat /\ DOMAIN c = 1..n
    OBVIOUS
  <1>6. B \subseteq S
    BY <1>5 DEF CrumbsOK, ToSet
  <1>7. IsFiniteSet(S) /\ Cardinality(S) <= n /\ Cardinality(S) \in Nat
    <2>1. IsFiniteSet(1..n) /\ Cardinality(1..n) = n
      <3> HIDE DEF n
      <3>1. QED
        BY <1>5, FS_Interval
    <2> DEFINE f == [j \in 1..n |-> c[j]]
    <2>2. f \in Surjection(1..n, S)
      BY DEF Surjection
    <2>3. IsFiniteSet(S) /\ Cardinality(S) <= Cardinality(1..n)
      <3> HIDE DEF f, S
      <3>1. QED
        BY <2>1, <2>2, FS_Surjection
    <2>4. QED
      BY <2>1, <2>3, FS_CardinalityType
  <1>8. Cardinality(B) <= Cardinality(S) /\ Cardinality(B) \in Nat
    BY <1>6, <1>7, FS_Subset, FS_CardinalityType
  <1>9. QED
    <2> HIDE DEF B, S, l, n
    <2>1. l - 1 <= n
      BY <1>1, <1>4, <1>5, <1>7, <1>8
    <2>2. QED
      BY <2>1 DEF l, n

\* The headings so far are those the next line stands under.
LEMMA CrumbsNext ==
    ASSUME LineOK, WellNested, NEW c \in Seq(Nat), NEW i \in DOMAIN lines, CrumbsOK(c, i - 1)
    PROVE  /\ InFront(i) => CrumbsOK(c, i)
           /\ ~InFront(i) => CrumbsOK(Crumb(c, i), i)
           /\ ~Is(i, "heading") => CrumbsOK(c, i)
  <1>0. i \in Nat /\ lines[i].level \in Nat /\ lines[i].level >= 0
    BY LevelOK
  <1>1. CASE ~Is(i, "heading") \/ InFront(i)
    <2>1. Enclosing(i) = Enclosing(i - 1)
      BY <1>1, AboveNext
    <2>2. CrumbsOK(c, i)
      BY <2>1 DEF CrumbsOK
    <2>3. ~Is(i, "heading") => Crumb(c, i) = c
      BY <1>0, CrumbOK
    <2>4. QED
      BY <1>1, <2>2, <2>3
  <1>2. CASE Is(i, "heading") /\ ~InFront(i)
    <2> DEFINE l == lines[i].level
               d == Crumb(c, i)
    <2>0. l \in Nat /\ l >= 1 /\ Len(c) \in Nat /\ DOMAIN c = 1..Len(c)
      BY <1>2, LevelOK
    <2>1. l - 1 <= Len(c)
      BY <1>2, NoneSkipped
    <2>2. d \in Seq(Nat) /\ Len(d) = l /\ d[l] = i /\ \A j \in 1..(l - 1) : d[j] = c[j]
      BY <1>0, <1>2, <2>1, CrumbOK
    <2>3. DOMAIN d = 1..l
      BY <2>2
    <2>4. Enclosing(i) = {j \in Enclosing(i - 1) : lines[j].level < l} \cup {i}
          /\ Enclosing(i - 1) \subseteq 1..(i - 1)
      BY <1>2, AboveNext
    <2> HIDE DEF l, d
    <2>5. \A j \in 1..l : j = l \/ (j \in 1..(l - 1) /\ j \in DOMAIN c)
      BY <2>0, <2>1
    <2>6. \A j \in 1..l : d[j] \in DOMAIN lines /\ lines[d[j]].level = j
      <3> TAKE j \in 1..l
      <3>1. CASE j = l
        BY <3>1, <2>2 DEF l
      <3>2. CASE j \in 1..(l - 1) /\ j \in DOMAIN c
        BY <3>2, <2>2 DEF CrumbsOK
      <3>3. QED
        BY <3>1, <3>2, <2>5
    <2>7. ToSet(d) = Enclosing(i)
      <3>1. \A j \in 1..(l - 1) : j \in DOMAIN c /\ j < l
        BY <2>0, <2>1
      <3>2. {j \in Enclosing(i - 1) : lines[j].level < l} = {c[j] : j \in 1..(l - 1)}
        <4>1. ASSUME NEW x \in Enclosing(i - 1), lines[x].level < l
              PROVE  \E j \in 1..(l - 1) : x = c[j]
          <5>1. PICK j \in DOMAIN c : x = c[j]
            BY <4>1 DEF CrumbsOK, ToSet
          <5>2. j < l
            BY <5>1, <4>1 DEF CrumbsOK
          <5>3. j \in 1..(l - 1)
            BY <5>2, <2>0
          <5>4. QED
            BY <5>1, <5>3
        <4>2. ASSUME NEW j \in 1..(l - 1)
              PROVE  c[j] \in Enclosing(i - 1) /\ lines[c[j]].level < l
          BY <3>1 DEF CrumbsOK, ToSet
        <4>3. QED
          BY <4>1, <4>2
      <3>3. {d[j] : j \in 1..l} = {d[j] : j \in 1..(l - 1)} \cup {d[l]}
        BY <2>0
      <3>4. {d[j] : j \in 1..(l - 1)} = {c[j] : j \in 1..(l - 1)}
        BY <2>2
      <3>5. QED
        BY <2>2, <2>3, <2>4, <3>2, <3>3, <3>4 DEF ToSet
    <2>8. ASSUME NEW j \in 1..l, NEW m \in 1..l, j < m PROVE d[j] < d[m]
      <3>1. j \in 1..(l - 1) /\ j \in DOMAIN c
        BY <2>8, <2>5, <2>0
      <3>2. CASE m = l
        <4>1. c[j] \in Enclosing(i - 1)
          BY <3>1 DEF CrumbsOK, ToSet
        <4>2. c[j] \in 1..(i - 1)
          BY <4>1, <2>4
        <4>3. QED
          BY <4>2, <3>1, <3>2, <2>2, <1>0
      <3>3. CASE m \in 1..(l - 1) /\ m \in DOMAIN c
        BY <2>8, <3>1, <3>3, <2>2 DEF CrumbsOK
      <3>4. QED
        BY <3>2, <3>3, <2>5
    <2>9. CrumbsOK(d, i)
      BY <2>3, <2>6, <2>7, <2>8 DEF CrumbsOK
    <2>10. QED
      BY <1>2, <2>9 DEF d
  <1>3. QED
    BY <1>1, <1>2

\* What splitParas keeps after k lines: its rows are apart and in order, what is not
\* blank is in one of them or in the paragraph that has begun, and the headings are
\* those the line is under.
Covers(row, i) == i \in row.first..row.last
RowsApart(out, k) ==
    /\ \A n \in DOMAIN out : 1 <= out[n].first /\ out[n].first <= out[n].last /\ out[n].last <= k
    /\ \A n, m \in DOMAIN out : n < m => out[n].last + 1 < out[m].first
HeadOK(row) == /\ ToSet(row.heading) = Enclosing(row.last)
               /\ \A i, j \in DOMAIN row.heading : i < j => row.heading[i] < row.heading[j]
SplitInv(s, k) ==
    /\ RowsApart(s.out, k) /\ s.start \in 0..k
    /\ s.start = 0 => \A n \in DOMAIN s.out : s.out[n].last < k
    /\ s.start # 0 => /\ \A n \in DOMAIN s.out : s.out[n].last + 1 < s.start
                      /\ \A i \in s.start..k : ~IsBlank(i)
    /\ \A i \in 1..k : IF IsBlank(i) THEN ~\E n \in DOMAIN s.out : Covers(s.out[n], i)
                       ELSE \/ s.start # 0 /\ s.start <= i
                            \/ \E n \in DOMAIN s.out : Covers(s.out[n], i)
    /\ WellNested => CrumbsOK(s.crumbs, k) /\ \A n \in DOMAIN s.out : HeadOK(s.out[n])

\* Closing a block keeps the rows apart, and every line so far is in a row or blank.
LEMMA FlushInv ==
    ASSUME NEW s \in SplitState, NEW k \in Nat, SplitInv(s, k), s.start # 0
    PROVE  LET out == Flush(s, k).out
           IN /\ RowsApart(out, k)
              /\ \A i \in 1..k : IF IsBlank(i) THEN ~\E n \in DOMAIN out : Covers(out[n], i)
                                 ELSE \E n \in DOMAIN out : Covers(out[n], i)
              /\ WellNested => \A n \in DOMAIN out : HeadOK(out[n])
  <1> DEFINE out == Flush(s, k).out
             r == [first |-> s.start, last |-> k, heading |-> s.crumbs]
             b == s.out
             m == Len(b)
             a == s.start
  <1>1. b \in Seq(ParaRow) /\ a \in Nat /\ a >= 1 /\ a <= k /\ s.crumbs \in Seq(Nat)
    BY DEF SplitState, SplitInv
  <1>2. out = Append(b, r)
    BY FlushOK
  <1>3. m \in Nat /\ DOMAIN b = 1..m /\ \A n \in 1..m : b[n] \in ParaRow
    BY <1>1
  <1>4. r.first = a /\ r.last = k /\ r.heading = s.crumbs
    OBVIOUS
  <1>i. /\ RowsApart(b, k) /\ \A n \in DOMAIN b : b[n].last + 1 < a
        /\ \A i \in a..k : ~IsBlank(i)
        /\ \A i \in 1..k : IF IsBlank(i) THEN ~\E n \in DOMAIN b : Covers(b[n], i)
                           ELSE a <= i \/ \E n \in DOMAIN b : Covers(b[n], i)
        /\ WellNested => CrumbsOK(s.crumbs, k) /\ \A n \in DOMAIN b : HeadOK(b[n])
    BY <1>1 DEF SplitInv
  <1> HIDE DEF out, r, b, m, a
  <1>5. DOMAIN out = 1..(m + 1) /\ out[m + 1] = r /\ \A n \in 1..m : out[n] = b[n]
    BY <1>1, <1>2, <1>3 DEF m
  <1>6. \A n \in 1..(m + 1) : n = m + 1 \/ n \in 1..m
    BY <1>3
  <1>7. RowsApart(out, k)
    <2>1. \A n \in 1..m : b[n].first \in Nat /\ b[n].last \in Nat
      BY <1>3 DEF ParaRow
    <2>2. \A n \in DOMAIN out : /\ 1 <= out[n].first /\ out[n].first <= out[n].last
                                /\ out[n].last <= k
      BY <1>1, <1>3, <1>4, <1>5, <1>6, <1>i, <2>1 DEF RowsApart
    <2>3. ASSUME NEW n \in DOMAIN out, NEW p \in DOMAIN out, n < p
          PROVE  out[n].last + 1 < out[p].first
      <3>1. n \in 1..m
        BY <2>3, <1>3, <1>5
      <3>2. CASE p = m + 1
        BY <3>1, <3>2, <1>3, <1>4, <1>5, <1>i
      <3>3. CASE p \in 1..m
        BY <3>1, <3>3, <2>3, <1>3, <1>5, <1>i DEF RowsApart
      <3>4. QED
        BY <3>2, <3>3, <1>5, <1>6
    <2>4. QED
      BY <2>2, <2>3 DEF RowsApart
  <1>8. ASSUME NEW i \in 1..k
        PROVE  IF IsBlank(i) THEN ~\E n \in DOMAIN out : Covers(out[n], i)
               ELSE \E n \in DOMAIN out : Covers(out[n], i)
    <2>1. Covers(r, i) <=> a <= i
      BY <1>1, <1>4 DEF Covers
    <2>2. (\E n \in DOMAIN out : Covers(out[n], i)) <=>
              (a <= i \/ \E n \in DOMAIN b : Covers(b[n], i))
      <3>1. m + 1 \in 1..(m + 1) /\ \A n \in 1..m : n \in 1..(m + 1)
        BY <1>3
      <3>2. QED
        BY <2>1, <1>3, <1>5, <1>6, <3>1
    <2>3. a <= i => i \in a..k
      BY <1>1
    <2>4. QED
      BY <2>2, <2>3, <1>i
  <1>9. ASSUME WellNested, NEW n \in DOMAIN out PROVE HeadOK(out[n])
    <2>1. CASE n = m + 1
      BY <2>1, <1>4, <1>5, <1>9, <1>i DEF HeadOK, CrumbsOK
    <2>2. CASE n \in 1..m
      BY <2>2, <1>3, <1>5, <1>9, <1>i
    <2>3. QED
      BY <2>1, <2>2, <1>5, <1>6
  <1>10. QED
    BY <1>7, <1>8, <1>9 DEF out

\* One line more keeps what Split has.
LEMMA SplitInvNext ==
    ASSUME LineOK, NEW s \in SplitState, NEW k \in Nat, k + 1 \in DOMAIN lines, SplitInv(s, k)
    PROVE  SplitInv(SplitLine(s, k + 1), k + 1)
  <1> DEFINE i == k + 1
             t == SplitLine(s, i)
             out == s.out
  <1>1. i \in Nat /\ i - 1 = k /\ i \in DOMAIN lines
    OBVIOUS
  <1>2. s.start \in Nat /\ out \in Seq(ParaRow) /\ s.crumbs \in Seq(Nat)
        /\ \A n \in DOMAIN out : out[n].first \in Nat /\ out[n].last \in Nat
    <2>1. s.start \in Nat /\ out \in Seq(ParaRow) /\ s.crumbs \in Seq(Nat)
      BY DEF SplitState
    <2>2. \A n \in DOMAIN out : out[n] \in ParaRow
      BY <2>1
    <2>3. QED
      BY <2>1, <2>2 DEF ParaRow
  <1>3. \A j \in 1..i : j = i \/ j \in 1..k
    OBVIOUS
  <1>4. CASE ~IsBlank(i)
    <2>1. t.start = IF s.start = 0 THEN i ELSE s.start
      BY <1>1, <1>4, SplitLineOK
    <2>2. t.crumbs = Crumb(s.crumbs, i) /\ t.out = out
      BY <1>1, <1>4, SplitLineOK
    <2> HIDE DEF t, out, i
    <2>3. ~InFront(i)
      BY <1>4 DEF IsBlank
    <2>4. WellNested => CrumbsOK(t.crumbs, i) /\ \A n \in DOMAIN out : HeadOK(out[n])
      BY <1>1, <1>2, <2>2, <2>3, CrumbsNext DEF SplitInv, out
    <2>5. RowsApart(out, i) /\ t.start \in 0..i /\ t.start # 0
      BY <1>1, <1>2, <2>1 DEF SplitInv, RowsApart, out, i
    <2>6. \A n \in DOMAIN out : out[n].last + 1 < t.start
      BY <1>1, <1>2, <2>1 DEF SplitInv, out, i
    <2>7. \A j \in t.start..i : ~IsBlank(j)
      <3> SUFFICES ASSUME NEW j \in t.start..i PROVE ~IsBlank(j)
        OBVIOUS
      <3>1. j = i \/ (s.start # 0 /\ j \in s.start..k)
        BY <1>1, <1>2, <2>1
      <3>2. QED
        BY <3>1, <1>4 DEF SplitInv
    <2>8. ASSUME NEW j \in 1..i
          PROVE  IF IsBlank(j) THEN ~\E n \in DOMAIN out : Covers(out[n], j)
                 ELSE (t.start # 0 /\ t.start <= j) \/ \E n \in DOMAIN out : Covers(out[n], j)
      <3>1. CASE j = i
        <4>1. t.start # 0 /\ t.start <= j
          BY <3>1, <2>5
        <4>2. QED
          BY <3>1, <4>1, <1>4
      <3>2. CASE j \in 1..k
        BY <3>2, <2>1 DEF SplitInv, out
      <3>3. QED
        BY <3>1, <3>2, <1>3 DEF i
    <2>9. QED
      <3>1. SplitInv(t, i)
        BY <2>2, <2>4, <2>5, <2>6, <2>7, <2>8 DEF SplitInv
      <3>2. QED
        BY <3>1 DEF t, i
  <1>5. CASE IsBlank(i)
    <2>1. t = Flush(s, k)
      BY <1>1, <1>5, SplitLineOK
    <2>2. t.start = 0 /\ t.crumbs = s.crumbs
      <3>1. Flush(s, k).start = 0 /\ Flush(s, k).crumbs = s.crumbs
        BY <1>1, FlushOK
      <3> HIDE DEF t
      <3>2. QED
        BY <2>1, <3>1
    <2> HIDE DEF t, out, i
    <2>3. InFront(i) \/ ~Is(i, "heading")
      BY <1>5 DEF IsBlank, Is
    <2>4. WellNested => CrumbsOK(t.crumbs, i)
      BY <1>1, <1>2, <2>2, <2>3, CrumbsNext DEF SplitInv
    <2>5. /\ RowsApart(t.out, k)
          /\ \A j \in 1..k : IF IsBlank(j) THEN ~\E n \in DOMAIN t.out : Covers(t.out[n], j)
                             ELSE \E n \in DOMAIN t.out : Covers(t.out[n], j)
          /\ WellNested => \A n \in DOMAIN t.out : HeadOK(t.out[n])
      <3>1. CASE s.start = 0
        <4>1. t.out = out
          BY <3>1, <2>1, FlushOK DEF out
        <4>2. QED
          BY <3>1, <4>1 DEF SplitInv, out
      <3>2. CASE s.start # 0
        BY <3>2, <2>1, FlushInv, Zenon
      <3>3. QED
        BY <3>1, <3>2
    <2>6. t.out \in Seq(ParaRow) /\ \A n \in DOMAIN t.out : t.out[n] \in ParaRow
      <3>1. t \in SplitState
        BY <2>1, FlushOK
      <3>2. t.out \in Seq(ParaRow)
        BY <3>1 DEF SplitState
      <3>3. QED
        BY <3>2
    <2>7. \A n \in DOMAIN t.out : /\ t.out[n].first \in Nat /\ t.out[n].last \in Nat
                                  /\ t.out[n].last <= k
      BY <2>5, <2>6 DEF ParaRow, RowsApart
    <2>8. RowsApart(t.out, i) /\ \A n \in DOMAIN t.out : t.out[n].last < i
      BY <2>5, <2>7 DEF RowsApart, i
    <2>9. ~\E n \in DOMAIN t.out : Covers(t.out[n], i)
      BY <2>7, <1>1 DEF Covers, i
    <2>10. QED
      <3>1. SplitInv(t, i)
        BY <1>1, <1>3, <1>5, <2>2, <2>4, <2>5, <2>8, <2>9 DEF SplitInv, i
      <3>2. QED
        BY <3>1 DEF t, i
  <1>6. QED
    BY <1>4, <1>5

\* The rows of a document: each line that is neither blank nor front matter in exactly
\* one, apart and in order, and under the headings they are under.
Rows(b) ==
    /\ \A i \in DOMAIN lines :
         Cardinality({n \in DOMAIN b : i \in b[n].first..b[n].last})
           = IF Is(i, "blank") \/ InFront(i) THEN 0 ELSE 1
    /\ \A n \in DOMAIN b :
         /\ 1 <= b[n].first /\ b[n].last <= Len(lines)
         /\ n > 1 => b[n].first > b[n - 1].last + 1
         /\ WellNested => /\ ToSet(b[n].heading) = Enclosing(b[n].last)
                          /\ \A i, j \in DOMAIN b[n].heading :
                               i < j => b[n].heading[i] < b[n].heading[j]

\* So Split ends with it.
LEMMA SplitInvAlways ==
    ASSUME LineOK
    PROVE  \E s \in SplitState : SplitInv(s, Len(lines)) /\ Split = Flush(s, Len(lines)).out
  <1> DEFINE N == Len(lines)
  <1>1. N \in Nat /\ DOMAIN lines = 1..N
    BY DEF LineOK
  <1>2. PICK f \in [0..N -> SplitState] :
              /\ f[0] = NoParas /\ Split = Flush(f[N], N).out
              /\ \A k \in 1..N : f[k] = SplitLine(f[k - 1], k)
    BY SplitSteps
  <1> HIDE DEF N
  <1> DEFINE S == {k \in 0..N : SplitInv(f[k], k)}
  <1>3. 0 \in S
    <2>1. SplitInv(NoParas, 0)
      <3>1. NoParas.start = 0 /\ NoParas.out = <<>> /\ NoParas.crumbs = <<>>
        BY DEF NoParas
      <3>2. DOMAIN NoParas.out = {} /\ DOMAIN NoParas.crumbs = {} /\ 1..0 = {} /\ 0..0 = {0}
        BY <3>1
      <3>3. RowsApart(NoParas.out, 0)
        BY <3>2 DEF RowsApart
      <3>4. CrumbsOK(NoParas.crumbs, 0)
        <4>1. Enclosing(0) = {}
          BY DEF Enclosing, Above
        <4>2. QED
          BY <4>1, <3>2 DEF CrumbsOK, ToSet
      <3>5. QED
        BY <3>1, <3>2, <3>3, <3>4 DEF SplitInv
    <2>2. QED
      BY <2>1, <1>1, <1>2
  <1>4. ASSUME NEW k \in 0..N, k # N, k \in S PROVE k + 1 \in S
    <2>1. k \in Nat /\ k + 1 \in 1..N /\ (k + 1) - 1 = k
      BY <1>1, <1>4
    <2>2. f[k] \in SplitState /\ f[k + 1] = SplitLine(f[k], k + 1)
      BY <1>2, <2>1
    <2>3. SplitInv(SplitLine(f[k], k + 1), k + 1)
      BY <1>1, <1>4, <2>1, <2>2, SplitInvNext
    <2>4. QED
      BY <2>1, <2>2, <2>3
  <1>5. 0..N \subseteq S
    <2> HIDE DEF S
    <2>1. QED
      BY <1>1, <1>3, <1>4, InductionTo
  <1>6. N \in 0..N
    BY <1>1
  <1>7. SplitInv(f[N], N) /\ f[N] \in SplitState
    BY <1>2, <1>5, <1>6
  <1>8. QED
    BY <1>2, <1>7 DEF N

\* What SplitParas returns (internal/paragraph): rows apart, in order, every line that is
\* not blank in one of them, each under the headings that enclose it.
LEMMA SplitRows == ASSUME LineOK PROVE Split \in Seq(ParaRow) /\ Rows(Split)
  <1> DEFINE N == Len(lines)
             b == Split
  <1>1. N \in Nat /\ DOMAIN lines = 1..N
    BY DEF LineOK
  <1>2. PICK s \in SplitState : SplitInv(s, N) /\ Split = Flush(s, N).out
    BY SplitInvAlways
  <1> HIDE DEF N, b
  <1>3. b \in Seq(ParaRow) /\ DOMAIN b = 1..Len(b) /\ Len(b) \in Nat
    <2>1. Flush(s, N) \in SplitState
      BY <1>1, FlushOK
    <2>2. QED
      BY <2>1, <1>2 DEF SplitState, b
  <1>4. /\ RowsApart(b, N)
        /\ \A i \in 1..N : IF IsBlank(i) THEN ~\E n \in DOMAIN b : Covers(b[n], i)
                           ELSE \E n \in DOMAIN b : Covers(b[n], i)
        /\ WellNested => \A n \in DOMAIN b : HeadOK(b[n])
    <2>1. CASE s.start = 0
      <3>1. b = s.out
        BY <2>1, <1>1, <1>2, FlushOK DEF b
      <3>2. QED
        BY <2>1, <3>1, <1>2 DEF SplitInv
    <2>2. CASE s.start # 0
      <3>1. b = Flush(s, N).out
        BY <1>2 DEF b
      <3>2. QED
        BY <2>2, <3>1, <1>1, <1>2, FlushInv, Zenon
    <2>3. QED
      BY <2>1, <2>2
  <1>5. \A n \in DOMAIN b : b[n].first \in Nat /\ b[n].last \in Nat /\ n \in Nat
    <2>1. \A n \in 1..Len(b) : b[n] \in ParaRow
      BY <1>3
    <2>2. QED
      BY <1>3, <2>1 DEF ParaRow
  <1>6. ASSUME NEW i \in DOMAIN lines
        PROVE  Cardinality({n \in DOMAIN b : i \in b[n].first..b[n].last})
                 = IF Is(i, "blank") \/ InFront(i) THEN 0 ELSE 1
    <2> DEFINE S == {n \in DOMAIN b : i \in b[n].first..b[n].last}
    <2>1. CASE IsBlank(i)
      <3>1. S = {}
        BY <2>1, <1>1, <1>4 DEF Covers
      <3>2. Cardinality(S) = 0
        BY <3>1, FS_EmptySet
      <3>3. QED
        BY <3>2, <2>1 DEF IsBlank
    <2>2. CASE ~IsBlank(i)
      <3>1. PICK n \in DOMAIN b : Covers(b[n], i)
        BY <2>2, <1>1, <1>4
      <3>2. ASSUME NEW m \in DOMAIN b, Covers(b[m], i) PROVE m = n
        <4>1. ~(m < n) /\ ~(n < m)
          BY <3>1, <3>2, <1>1, <1>4, <1>5 DEF RowsApart, Covers
        <4>2. QED
          BY <4>1, <1>5
      <3>3. S = {n}
        BY <3>1, <3>2 DEF Covers
      <3>4. Cardinality(S) = 1
        BY <3>3, FS_Singleton
      <3>5. QED
        BY <3>4, <2>2 DEF IsBlank
    <2>3. QED
      BY <2>1, <2>2
  <1>7. ASSUME NEW n \in DOMAIN b
        PROVE  /\ 1 <= b[n].first /\ b[n].last <= N
               /\ n > 1 => b[n].first > b[n - 1].last + 1
               /\ WellNested => /\ ToSet(b[n].heading) = Enclosing(b[n].last)
                                /\ \A i, j \in DOMAIN b[n].heading :
                                     i < j => b[n].heading[i] < b[n].heading[j]
    <2>1. 1 <= b[n].first /\ b[n].last <= N
      BY <1>4 DEF RowsApart
    <2>2. n > 1 => b[n].first > b[n - 1].last + 1
      <3> SUFFICES ASSUME n > 1 PROVE b[n].first > b[n - 1].last + 1
        OBVIOUS
      <3>1. n - 1 \in DOMAIN b /\ n - 1 < n
        BY <1>3
      <3>2. QED
        BY <3>1, <1>4, <1>5 DEF RowsApart
    <2>3. QED
      BY <2>1, <2>2, <1>4 DEF HeadOK
  <1>8. QED
    BY <1>3, <1>6, <1>7 DEF Rows, b, N

\* A step that leaves the lines leaves everything that is said of them.
LEMMA SameLines ==
    ASSUME lines' = lines
    PROVE  /\ FrontMatter' = FrontMatter /\ (WellNested' <=> WellNested)
           /\ \A i : /\ InFront(i)' <=> InFront(i)
                     /\ Enclosing(i)' = Enclosing(i)
  <1>1. FrontMatter' = FrontMatter
    BY DEF FrontMatter, Rules, Is
  <1>2. \A i : InFront(i)' <=> InFront(i)
    BY <1>1 DEF InFront
  <1>3. \A e : Above(e)' = Above(e)
    BY <1>2 DEF Above, Is
  <1>4. \A e : Enclosing(e)' = Enclosing(e)
    BY <1>3 DEF Enclosing
  <1>5. WellNested' <=> WellNested
    BY <1>3, <1>4 DEF WellNested
  <1>6. QED
    BY <1>1, <1>2, <1>4, <1>5

\* What holds of the rows and of what is read from them.
ParaInv ==
    /\ LineOK /\ got = [asked |-> got.asked, answer |-> got.answer]
    /\ got.asked \in {"no document", "nothing", "stored", "paras", "lines"}
    /\ got.asked \in {"stored", "paras", "lines"} =>
         /\ blocks \in Seq(ParaRow) /\ Rows(blocks)
         /\ \A i \in tags : InFront(i) /\ lines[i].kind \in {"tags", "item"}
    /\ got.asked = "paras" => \A i \in got.answer : ~InFront(i) /\ ~Is(i, "blank")

\* Before anything is asked there is nothing to say.
LEMMA ParaInvInit == ParaInit => ParaInv
  <1> SUFFICES ASSUME ParaInit PROVE ParaInv
    OBVIOUS
  <1>1. got = [asked |-> "no document", answer |-> {}] /\ lines \in Seq(Line)
    <2>1. <<>> \in Seq(Line)
      OBVIOUS
    <2>2. QED
      BY <2>1 DEF ParaInit
  <1>2. got.asked = "no document" /\ got = [asked |-> got.asked, answer |-> got.answer]
    BY <1>1
  <1>3. QED
    BY <1>1, <1>2 DEF ParaInv, LineOK

\* A question about the file's tags or lines changes no row.
LEMMA ParaInvKept ==
    ASSUME ParaInv, lines' = lines, blocks' = blocks, tags' = tags,
           got.asked \in {"stored", "paras", "lines"}, got'.asked \in {"stored", "paras", "lines"},
           got' = [asked |-> got'.asked, answer |-> got'.answer],
           got'.asked = "paras" => \A i \in got'.answer : ~InFront(i) /\ ~Is(i, "blank")
    PROVE  ParaInv'
  <1>1. Rows(blocks)'
    BY SameLines DEF ParaInv, Rows, Is
  <1>2. QED
    BY <1>1, SameLines DEF ParaInv, LineOK, Is

\* Every step keeps the rows those of the text.
LEMMA ParaInvStep == ASSUME ParaInv, [ParaNext]_paraVars PROVE ParaInv'
  <1>1. CASE Write
    <2>1. lines' \in Seq(Line)
      <3>1. PICK n \in 0..MaxLines : lines' \in [1..n -> Line]
        BY <1>1 DEF Write
      <3>2. n \in Nat
        BY ParaAssumption
      <3>3. QED
        BY <3>1, <3>2
    <2>2. got' = [asked |-> "nothing", answer |-> got.answer]
      BY <1>1 DEF Write, ParaInv
    <2>3. QED
      BY <2>1, <2>2 DEF ParaInv, LineOK
  <1>2. CASE StoreDoc
    <2>1. lines' = lines /\ blocks' = Split /\ tags' = ParseTags
          /\ got' = [asked |-> "stored", answer |-> got.answer]
      BY <1>2 DEF StoreDoc, ParaInv
    <2>2. Split \in Seq(ParaRow) /\ Rows(Split)
      BY SplitRows DEF ParaInv
    <2>3. Rows(blocks)'
      BY <2>1, <2>2, SameLines DEF Rows, Is
    <2>4. \A i \in tags' : InFront(i)' /\ lines'[i].kind \in {"tags", "item"}
      BY <2>1, TagsOK, SameLines DEF ParaInv
    <2>5. QED
      BY <2>1, <2>2, <2>3, <2>4 DEF ParaInv, LineOK
  <1>3. ASSUME NEW seq \in 1..MaxLines, NEW context \in 0..1, GetParas(seq, context)
        PROVE  ParaInv'
    <2>1. blocks \in Seq(ParaRow) /\ Rows(blocks)
      BY <1>3 DEF GetParas, ParaInv
    <2>2. ASSUME NEW n \in DOMAIN blocks, NEW i \in blocks[n].first..blocks[n].last
          PROVE  ~InFront(i) /\ ~Is(i, "blank")
      <3> DEFINE S == {m \in DOMAIN blocks : i \in blocks[m].first..blocks[m].last}
      <3>1. blocks[n] \in ParaRow /\ DOMAIN blocks = 1..Len(blocks) /\ Len(blocks) \in Nat
        BY <2>1
      <3>2. blocks[n].first \in Nat /\ blocks[n].last \in Nat
        BY <3>1 DEF ParaRow
      <3>3. i \in DOMAIN lines
        <4>1. 1 <= blocks[n].first /\ blocks[n].last <= Len(lines)
          BY <2>1 DEF Rows
        <4>0. lines \in Seq(Line)
          BY DEF ParaInv, LineOK
        <4>2. Len(lines) \in Nat /\ DOMAIN lines = 1..Len(lines)
          BY <4>0
        <4>3. QED
          BY <2>2, <3>2, <4>1, <4>2
      <3>4. Cardinality(S) = IF Is(i, "blank") \/ InFront(i) THEN 0 ELSE 1
        BY <3>3, <2>1 DEF Rows
      <3>5. n \in S /\ IsFiniteSet(S)
        <4>1. IsFiniteSet(DOMAIN blocks)
          BY <3>1, FS_Interval
        <4>2. QED
          BY <2>2, <4>1, FS_Subset
      <3>6. Cardinality(S) # 0
        BY <3>5, FS_EmptySet
      <3>7. QED
        BY <3>4, <3>6
    <2>3. /\ lines' = lines /\ blocks' = blocks /\ tags' = tags /\ got.asked = "stored"
          /\ got'.asked = "paras" /\ got' = [asked |-> got'.asked, answer |-> got'.answer]
          /\ \A i \in got'.answer :
               \E n \in DOMAIN blocks : i \in blocks[n].first..blocks[n].last
      BY <1>3 DEF GetParas
    <2>4. QED
      BY <2>2, <2>3, ParaInvKept
  <1>4. ASSUME NEW a \in 1..MaxLines, NEW b \in 1..MaxLines, GetLines(a, b)
        PROVE  ParaInv'
    BY <1>4, ParaInvKept DEF GetLines
  <1>5. CASE UNCHANGED paraVars
    <2>1. lines' = lines /\ blocks' = blocks /\ tags' = tags /\ got' = got
      BY <1>5 DEF paraVars
    <2>2. Rows(blocks) => Rows(blocks)'
      BY <2>1, SameLines DEF Rows, Is
    <2>3. QED
      BY <2>1, <2>2, SameLines DEF ParaInv, LineOK, Is
  <1>6. QED
    BY <1>1, <1>2, <1>3, <1>4, <1>5 DEF ParaNext

ParaSpec == ParaInit /\ [][ParaNext]_paraVars

\* What the store and the commands say of a text's paragraphs is true of the text
\* (SplitParas, GetParas, GetLines).
THEOREM ParagraphsSafe == ParaSpec => []ParasCoverText
  <1>1. ParaInv => ParasCoverText
    BY DEF ParaInv, ParasCoverText, Rows
  <1>2. QED
    BY ParaInvInit, ParaInvStep, <1>1, PTL DEF ParaSpec

-------------------------------------------------------------------------------
\* Context packs


Paths == {r.path : r \in DeclLines}
Items == {x \in [id : Nat, path : Paths, first : Nat, last : Nat] : x.first <= x.last}

\* A set of items that is connected, and what it is merged to: the item has the path of
\* its members and their lines, no other lines, and the id of the first of them.
Closed(items, S) == \A x \in S, y \in DOMAIN items : Touches(items[x], items[y]) => y \in S
Connected(items, G) ==
    \A S \in SUBSET DOMAIN items : Closed(items, S) /\ S \cap G # {} => G \subseteq S
GroupOK(x, items, G, m) ==
    /\ m \in G /\ x.id = items[m].id /\ \A i \in G : m <= i
    /\ \A i \in G : /\ items[i].path = x.path
                    /\ x.first <= items[i].first /\ items[i].last <= x.last
    /\ \A y \in x.first..x.last : \E i \in G : items[i].first <= y /\ y <= items[i].last
    /\ Connected(items, G)

\* What the first k items have been merged to: an item for each group g[p], in the order
\* of their first members m[p].
Grouped(out, items, k, g, m) ==
    /\ out \in Seq(Items) /\ items \in Seq(Items) /\ k \in 0..Len(items)
    /\ \A p \in 1..Len(out) : g[p] \in SUBSET (1..k) /\ GroupOK(out[p], items, g[p], m[p])
    /\ \A p, q \in 1..Len(out) : p < q => m[p] < m[q]
    /\ \A i \in 1..k : \E p \in 1..Len(out) : i \in g[p]

\* An item has a path, an id and lines that are in order.
LEMMA ItemOK == ASSUME NEW x \in Items
                PROVE  /\ x.first \in Nat /\ x.last \in Nat /\ x.first <= x.last /\ x.id \in Nat
                       /\ x.path \in Paths
                       /\ x = [id |-> x.id, path |-> x.path, first |-> x.first, last |-> x.last]
  BY DEF Items

\* Two groups whose items overlap are one.
LEMMA GroupsJoin ==
    ASSUME NEW items \in Seq(Items), NEW a \in Items, NEW b \in Items,
           NEW A \in SUBSET (1..Len(items)), NEW B \in SUBSET (1..Len(items)),
           NEW m, NEW n, GroupOK(a, items, A, m),
           GroupOK(b, items, B, n), m < n, Touches(a, b),
           NEW x \in Items, x.id = a.id, x.path = a.path, x.first = Least(a.first, b.first),
           x.last = Most(a.last, b.last)
    PROVE  GroupOK(x, items, A \cup B, m)
  <1>1. /\ a.first \in Nat /\ a.last \in Nat /\ a.first <= a.last
        /\ b.first \in Nat /\ b.last \in Nat /\ b.first <= b.last
        /\ a.path = b.path /\ a.first <= b.last /\ b.first <= a.last
    BY ItemOK DEF Touches
  <1>2. \A i \in A \cup B : /\ items[i] \in Items /\ items[i].first \in Nat /\ items[i].last \in Nat
                            /\ i \in Nat
    BY ItemOK, SMTT(30)
  <1>3. m \in A \cup B /\ x.id = items[m].id /\ \A i \in A \cup B : m <= i
    BY <1>2 DEF GroupOK
  <1>4. /\ x.first <= a.first /\ x.first <= b.first /\ a.last <= x.last /\ b.last <= x.last
        /\ x.first \in Nat /\ x.last \in Nat
    BY <1>1 DEF Least, Most
  <1>5. \A i \in A \cup B : /\ items[i].path = x.path
                            /\ x.first <= items[i].first /\ items[i].last <= x.last
    BY <1>1, <1>2, <1>4, SMTT(30) DEF GroupOK
  <1>6. ASSUME NEW y \in x.first..x.last
        PROVE  \E i \in A \cup B : items[i].first <= y /\ y <= items[i].last
    <2>1. y \in a.first..a.last \/ y \in b.first..b.last
      BY <1>1 DEF Least, Most
    <2>2. QED
      BY <2>1 DEF GroupOK
  <1>7. Connected(items, A \cup B)
    <2> DEFINE y == Most(a.first, b.first)
    <2>1. y \in a.first..a.last /\ y \in b.first..b.last
      BY <1>1 DEF Most
    <2>2. PICK i \in A : items[i].first <= y /\ y <= items[i].last
      BY <2>1 DEF GroupOK
    <2>3. PICK j \in B : items[j].first <= y /\ y <= items[j].last
      BY <2>1 DEF GroupOK
    <2>4. y \in Nat
      BY <2>1, <1>1
    <2> HIDE DEF y
    <2>5. Touches(items[i], items[j]) /\ Touches(items[j], items[i])
      <3>1. items[i].path = items[j].path
        BY <1>5
      <3>2. items[i].first <= items[j].last /\ items[j].first <= items[i].last
        BY <1>2, <2>2, <2>3, <2>4
      <3>3. QED
        BY <3>1, <3>2 DEF Touches
    <2>6. ASSUME NEW S \in SUBSET DOMAIN items, Closed(items, S), S \cap (A \cup B) # {}
          PROVE  A \cup B \subseteq S
      <3>1. S \cap A # {} => A \subseteq S
        BY <2>6 DEF GroupOK, Connected
      <3>2. S \cap B # {} => B \subseteq S
        BY <2>6 DEF GroupOK, Connected
      <3>3. i \in DOMAIN items /\ j \in DOMAIN items
        OBVIOUS
      <3>4. i \in S <=> j \in S
        BY <2>5, <2>6, <3>3 DEF Closed
      <3>5. QED
        BY <2>6, <3>1, <3>2, <3>4
    <2>7. QED
      BY <2>6 DEF Connected
  <1>8. QED
    BY <1>3, <1>5, <1>6, <1>7 DEF GroupOK

\* Item i with the range of item j, which goes.
LEMMA AbsorbOK ==
    ASSUME NEW out \in Seq(Items), NEW i \in 1..Len(out), NEW j \in 1..Len(out), i < j
    PROVE  LET r == Absorb(out, i, j)
               n == Len(out)
           IN /\ r \in Seq(Items) /\ Len(r) = n - 1
              /\ \A p \in 1..(n - 1) : p # i => r[p] = out[IF p < j THEN p ELSE p + 1]
              /\ r[i].id = out[i].id /\ r[i].path = out[i].path
              /\ r[i].first = Least(out[i].first, out[j].first)
              /\ r[i].last = Most(out[i].last, out[j].last)
  <1> DEFINE n == Len(out)
             x == [id |-> out[i].id, path |-> out[i].path,
                   first |-> Least(out[i].first, out[j].first),
                   last |-> Most(out[i].last, out[j].last)]
             t == [p \in 1..n |-> IF p = i THEN x ELSE out[p]]
  <1>1. out[i] \in Items /\ out[j] \in Items /\ n \in Nat /\ DOMAIN out = 1..n
        /\ out = [p \in 1..n |-> out[p]]
    OBVIOUS
  <1>2. /\ out[i].first \in Nat /\ out[i].last \in Nat /\ out[i].first <= out[i].last
        /\ out[j].first \in Nat /\ out[j].last \in Nat /\ out[j].first <= out[j].last
        /\ out[i].id \in Nat /\ out[i].path \in Paths
        /\ out[i] = [id |-> out[i].id, path |-> out[i].path, first |-> out[i].first,
                     last |-> out[i].last]
    BY <1>1, ItemOK
  <1>3. x \in Items
    BY <1>2, SMTT(30) DEF Items, Least, Most
  <1>4. [out EXCEPT ![i].first = Least(@, out[j].first), ![i].last = Most(@, out[j].last)] = t
    <2> DEFINE l == Least(out[i].first, out[j].first)
               h == Most(out[i].last, out[j].last)
               y == out[i]
    <2>0. y = [id |-> out[i].id, path |-> out[i].path, first |-> out[i].first,
               last |-> out[i].last]
      BY <1>2
    <2>1. [[y EXCEPT !.first = l] EXCEPT !.last = h] = x
      <3> SUFFICES ASSUME NEW z, z = [[y EXCEPT !.first = l] EXCEPT !.last = h]
                   PROVE  z = x
        OBVIOUS
      <3> HIDE DEF l, h, y
      <3>1. QED
        BY <2>0 DEF l, h
    <2>2. QED
      BY <1>1, <2>1
  <1> HIDE DEF x
  <1>5. t \in Seq(Items) /\ Len(t) = n
    BY <1>1, <1>3
  <1>6. Absorb(out, i, j) = SubSeq(t, 1, j - 1) \o SubSeq(t, j + 1, n)
    BY <1>4, <1>5 DEF Absorb, RemoveAt
  <1>7. \A p \in 1..n : t[p] = IF p = i THEN x ELSE out[p]
    OBVIOUS
  <1> HIDE DEF t, n
  <1> DEFINE r == SubSeq(t, 1, j - 1) \o SubSeq(t, j + 1, n)
  <1>8. r \in Seq(Items) /\ Len(r) = n - 1
        /\ \A p \in 1..(n - 1) : r[p] = t[IF p < j THEN p ELSE p + 1]
    <2>1. i \in 1..n /\ j \in 1..n
      BY DEF n
    <2>2. /\ SubSeq(t, 1, j - 1) \in Seq(Items) /\ Len(SubSeq(t, 1, j - 1)) = j - 1
          /\ \A p \in 1..(j - 1) : SubSeq(t, 1, j - 1)[p] = t[p]
      BY <1>1, <1>5, <2>1
    <2>3. /\ SubSeq(t, j + 1, n) \in Seq(Items) /\ Len(SubSeq(t, j + 1, n)) = n - j
          /\ \A p \in 1..(n - j) : SubSeq(t, j + 1, n)[p] = t[j + p]
      BY <1>1, <1>5, <2>1, SMTT(30)
    <2> DEFINE u == SubSeq(t, 1, j - 1)
               v == SubSeq(t, j + 1, n)
    <2> HIDE DEF u, v
    <2>4. /\ u \o v \in Seq(Items) /\ Len(u \o v) = n - 1
          /\ \A p \in 1..(n - 1) : (u \o v)[p] = IF p <= j - 1 THEN u[p] ELSE v[p - (j - 1)]
      <3>1. u \in Seq(Items) /\ v \in Seq(Items) /\ Len(u) = j - 1 /\ Len(v) = n - j
        BY <2>2, <2>3 DEF u, v
      <3>2. /\ u \o v \in Seq(Items) /\ Len(u \o v) = Len(u) + Len(v)
            /\ \A p \in 1..(Len(u) + Len(v)) :
                 (u \o v)[p] = IF p <= Len(u) THEN u[p] ELSE v[p - Len(u)]
        BY <3>1, SMTT(30)
      <3>3. (j - 1) + (n - j) = n - 1
        BY <1>1, <2>1
      <3>4. QED
        BY <3>1, <3>2, <3>3
    <2>5. ASSUME NEW p \in 1..(n - 1) PROVE (u \o v)[p] = t[IF p < j THEN p ELSE p + 1]
      <3>1. CASE p < j
        <4>1. p <= j - 1 /\ p \in 1..(j - 1)
          BY <3>1, <2>1, <1>1
        <4>2. QED
          BY <4>1, <3>1, <2>2, <2>4 DEF u
      <3>2. CASE ~(p < j)
        <4>1. ~(p <= j - 1) /\ p - (j - 1) \in 1..(n - j) /\ j + (p - (j - 1)) = p + 1
          BY <3>2, <2>1, <1>1
        <4>2. QED
          BY <4>1, <3>2, <2>3, <2>4 DEF v
      <3>3. QED
        BY <3>1, <3>2
    <2>6. QED
      BY <2>4, <2>5 DEF u, v
  <1> HIDE DEF r
  <1>9. i \in 1..(n - 1) /\ i < j /\ j \in Nat /\ i \in Nat
    BY <1>1 DEF n
  <1>10. r[i] = x
    BY <1>7, <1>8, <1>9, <1>1
  <1>11. ASSUME NEW p \in 1..(n - 1), p # i PROVE r[p] = out[IF p < j THEN p ELSE p + 1]
    <2>1. (IF p < j THEN p ELSE p + 1) \in 1..n /\ (IF p < j THEN p ELSE p + 1) # i
      BY <1>1, <1>9, <1>11
    <2>2. QED
      BY <2>1, <1>7, <1>8
  <1>12. Absorb(out, i, j) = r
    BY <1>6 DEF r
  <1>13. QED
    BY <1>8, <1>10, <1>11, <1>12 DEF x, n

\* One item more is a group of its own.
LEMMA GroupedAppend ==
    ASSUME NEW out, NEW items, NEW k, NEW g, NEW m, Grouped(out, items, k, g, m),
           k + 1 \in DOMAIN items
    PROVE  \E g1, m1 : Grouped(Append(out, items[k + 1]), items, k + 1, g1, m1)
  <1> DEFINE n == Len(out)
             i == k + 1
             r == Append(out, items[i])
             g1 == [p \in 1..(n + 1) |-> IF p = n + 1 THEN {i} ELSE g[p]]
             m1 == [p \in 1..(n + 1) |-> IF p = n + 1 THEN i ELSE m[p]]
  <1>1. /\ out \in Seq(Items) /\ items \in Seq(Items) /\ k \in Nat /\ i \in 1..Len(items)
        /\ DOMAIN items = 1..Len(items) /\ n \in Nat /\ Len(items) \in Nat
    BY DEF Grouped
  <1>2. items[i] \in Items /\ i \in Nat
    BY <1>1
  <1>3. r \in Seq(Items) /\ Len(r) = n + 1 /\ r[n + 1] = items[i] /\ \A p \in 1..n : r[p] = out[p]
    BY <1>1, <1>2
  <1>g. /\ \A p \in 1..n : g[p] \in SUBSET (1..k) /\ GroupOK(out[p], items, g[p], m[p])
        /\ \A p, q \in 1..n : p < q => m[p] < m[q]
        /\ \A j \in 1..k : \E p \in 1..n : j \in g[p]
    BY DEF Grouped
  <1>4. GroupOK(items[i], items, {i}, i)
    <2>1. Connected(items, {i})
      BY DEF Connected
    <2>2. \A y \in items[i].first..items[i].last : items[i].first <= y /\ y <= items[i].last
      BY <1>2, ItemOK
    <2>3. items[i].first <= items[i].first /\ items[i].last <= items[i].last /\ i <= i
      BY <1>2, ItemOK
    <2>4. QED
      BY <2>1, <2>2, <2>3 DEF GroupOK
  <1>5. \A p \in 1..(n + 1) : /\ p = n + 1 => g1[p] = {i} /\ m1[p] = i
                              /\ p # n + 1 => p \in 1..n /\ g1[p] = g[p] /\ m1[p] = m[p]
    BY <1>1
  <1>6. \A p \in 1..n : m[p] \in Nat /\ m[p] < i
    <2> SUFFICES ASSUME NEW p \in 1..n PROVE m[p] \in Nat /\ m[p] < i
      OBVIOUS
    <2>1. m[p] \in g[p] /\ g[p] \in SUBSET (1..k)
      BY <1>g DEF GroupOK
    <2>2. QED
      BY <2>1, <1>1
  <1> HIDE DEF r, g1, m1, n
  <1>7. ASSUME NEW p \in 1..(n + 1)
        PROVE  g1[p] \in SUBSET (1..i) /\ GroupOK(r[p], items, g1[p], m1[p])
    <2>1. CASE p = n + 1
      <3>1. g1[p] = {i} /\ m1[p] = i /\ r[p] = items[i] /\ {i} \in SUBSET (1..i)
        BY <2>1, <1>1, <1>3, <1>5
      <3>2. QED
        BY <3>1, <1>4
    <2>2. CASE p # n + 1
      <3>1. p \in 1..n /\ g1[p] = g[p] /\ m1[p] = m[p] /\ r[p] = out[p]
        BY <2>2, <1>3, <1>5
      <3>2. QED
        BY <3>1, <1>g, <1>1
    <2>3. QED
      BY <2>1, <2>2
  <1>8. ASSUME NEW p \in 1..(n + 1), NEW q \in 1..(n + 1), p < q PROVE m1[p] < m1[q]
    <2>1. p # n + 1
      BY <1>1, <1>8
    <2>2. QED
      BY <2>1, <1>5, <1>6, <1>8, <1>g
  <1>9. ASSUME NEW j \in 1..i PROVE \E p \in 1..(n + 1) : j \in g1[p]
    <2>1. CASE j = i
      <3>1. n + 1 \in 1..(n + 1)
        BY <1>1
      <3>2. QED
        BY <2>1, <3>1, <1>5
    <2>2. CASE j # i
      <3>1. j \in 1..k
        BY <2>2, <1>1
      <3>2. PICK p \in 1..n : j \in g[p]
        BY <3>1, <1>g
      <3>3. p \in 1..(n + 1) /\ p # n + 1
        BY <1>1
      <3>4. QED
        BY <3>2, <3>3, <1>5
    <2>3. QED
      BY <2>1, <2>2
  <1>10. Grouped(r, items, i, g1, m1)
    <2>1. i \in 0..Len(items)
      BY <1>1
    <2>2. QED
      BY <1>1, <1>3, <1>7, <1>8, <1>9, <2>1 DEF Grouped
  <1>11. QED
    BY <1>10 DEF r

\* Two that overlap become one group.
LEMMA GroupedAbsorb ==
    ASSUME NEW out, NEW items, NEW k, NEW g, NEW m, Grouped(out, items, k, g, m),
           NEW i \in 1..Len(out), NEW j \in 1..Len(out), i < j, Touches(out[i], out[j])
    PROVE  \E g1, m1 : Grouped(Absorb(out, i, j), items, k, g1, m1)
  <1> DEFINE n == Len(out)
             r == Absorb(out, i, j)
             At(p) == IF p < j THEN p ELSE p + 1
             g1 == [p \in 1..(n - 1) |-> IF p = i THEN g[i] \cup g[j] ELSE g[At(p)]]
             m1 == [p \in 1..(n - 1) |-> m[At(p)]]
  <1>1. /\ out \in Seq(Items) /\ items \in Seq(Items) /\ n \in Nat /\ i \in Nat /\ j \in Nat
        /\ Len(items) \in Nat /\ k \in 0..Len(items) /\ i \in 1..n /\ j \in 1..n
        /\ \A p \in 1..n : out[p] \in Items
    BY DEF Grouped
  <1>g. /\ \A p \in 1..n : g[p] \in SUBSET (1..k) /\ GroupOK(out[p], items, g[p], m[p])
        /\ \A p, q \in 1..n : p < q => m[p] < m[q]
        /\ \A x \in 1..k : \E p \in 1..n : x \in g[p]
    BY DEF Grouped
  <1>2. /\ r \in Seq(Items) /\ Len(r) = n - 1
        /\ \A p \in 1..(n - 1) : p # i => r[p] = out[At(p)]
        /\ r[i].id = out[i].id /\ r[i].path = out[i].path
        /\ r[i].first = Least(out[i].first, out[j].first)
        /\ r[i].last = Most(out[i].last, out[j].last)
    BY <1>1, AbsorbOK
  <1>3. /\ i \in 1..(n - 1) /\ At(i) = i
        /\ \A p \in 1..(n - 1) : At(p) \in 1..n /\ (p # i => At(p) # i)
        /\ \A p, q \in 1..(n - 1) : p < q => At(p) < At(q)
        /\ \A q \in 1..n : q # j => \E p \in 1..(n - 1) : At(p) = q
    <2>1. \A q \in 1..n : q # j => At(IF q < j THEN q ELSE q - 1) = q
                                   /\ (IF q < j THEN q ELSE q - 1) \in 1..(n - 1)
      BY <1>1
    <2>2. i \in 1..(n - 1) /\ At(i) = i
      BY <1>1
    <2>3. \A p \in 1..(n - 1) : At(p) \in 1..n /\ (p # i => At(p) # i)
      BY <1>1
    <2>4. \A p, q \in 1..(n - 1) : p < q => At(p) < At(q)
      BY <1>1
    <2> HIDE DEF At
    <2>5. \A q \in 1..n : q # j => \E p \in 1..(n - 1) : At(p) = q
      BY <2>1
    <2>6. QED
      BY <2>2, <2>3, <2>4, <2>5
  <1>4. \A p \in 1..(n - 1) : g1[p] = (IF p = i THEN g[i] \cup g[j] ELSE g[At(p)])
                              /\ m1[p] = m[At(p)]
    OBVIOUS
  <1>5. r[i] \in Items
    BY <1>2, <1>3
  <1> HIDE DEF n, r, At, g1, m1
  <1>6. GroupOK(r[i], items, g[i] \cup g[j], m[i])
    <2>1. g[i] \in SUBSET (1..Len(items)) /\ g[j] \in SUBSET (1..Len(items)) /\ m[i] < m[j]
      BY <1>1, <1>g
    <2>2. GroupOK(out[i], items, g[i], m[i]) /\ GroupOK(out[j], items, g[j], m[j])
      BY <1>1, <1>g
    <2>3. out[i] \in Items /\ out[j] \in Items
      BY <1>1
    <2>4. QED
      BY <1>1, <1>2, <1>5, <2>1, <2>2, <2>3, GroupsJoin
  <1>7. ASSUME NEW p \in 1..(n - 1)
        PROVE  g1[p] \in SUBSET (1..k) /\ GroupOK(r[p], items, g1[p], m1[p])
    <2>1. CASE p = i
      BY <2>1, <1>1, <1>3, <1>4, <1>6, <1>g
    <2>2. CASE p # i
      <3>1. At(p) \in 1..n /\ g1[p] = g[At(p)] /\ m1[p] = m[At(p)] /\ r[p] = out[At(p)]
        BY <2>2, <1>2, <1>3, <1>4
      <3>2. QED
        BY <3>1, <1>g
    <2>3. QED
      BY <2>1, <2>2
  <1>8. ASSUME NEW p \in 1..(n - 1), NEW q \in 1..(n - 1), p < q PROVE m1[p] < m1[q]
    BY <1>3, <1>4, <1>8, <1>g
  <1>9. ASSUME NEW x \in 1..k PROVE \E p \in 1..(n - 1) : x \in g1[p]
    <2>1. PICK q \in 1..n : x \in g[q]
      BY <1>g
    <2>2. CASE q = j \/ q = i
      <3>1. x \in g1[i]
        BY <2>1, <2>2, <1>3, <1>4
      <3>2. QED
        BY <3>1, <1>3
    <2>3. CASE q # j /\ q # i
      <3>1. PICK p \in 1..(n - 1) : At(p) = q
        BY <2>3, <1>3
      <3>2. p # i
        BY <3>1, <2>3, <1>3
      <3>3. QED
        BY <3>1, <3>2, <2>1, <1>4
    <2>4. QED
      BY <2>2, <2>3
  <1>10. Grouped(r, items, k, g1, m1)
    BY <1>1, <1>2, <1>7, <1>8, <1>9 DEF Grouped
  <1>11. QED
    BY <1>10 DEF r

\* The first pair that overlaps.
LEMMA FirstPairOK ==
    ASSUME NEW out \in Seq(Items), Pairs(out) # {}
    PROVE  /\ FirstPair(out) \in Pairs(out)
           /\ FirstPair(out)[1] \in 1..Len(out) /\ FirstPair(out)[2] \in 1..Len(out)
           /\ FirstPair(out)[1] < FirstPair(out)[2]
           /\ Touches(out[FirstPair(out)[1]], out[FirstPair(out)[2]])
  <1>1. \A p \in Pairs(out) : /\ p[1] \in 1..Len(out) /\ p[2] \in 1..Len(out) /\ p[1] < p[2]
                              /\ Touches(out[p[1]], out[p[2]]) /\ p = <<p[1], p[2]>>
    BY DEF Pairs
  <1>2. Len(out) \in Nat
    OBVIOUS
  <1> DEFINE A == {p[1] : p \in Pairs(out)}
  <1>3. A \in SUBSET Nat /\ A # {}
    BY <1>1, <1>2
  <1>4. PICK a \in A : \A x \in A : a <= x
    <2> HIDE DEF A
    <2>1. QED
      BY <1>3, LeastExists
  <1> DEFINE B == {p[2] : p \in {q \in Pairs(out) : q[1] = a}}
  <1>5. B \in SUBSET Nat /\ B # {}
    BY <1>1, <1>2, <1>4
  <1>6. PICK b \in B : \A x \in B : b <= x
    <2> HIDE DEF B
    <2>1. QED
      BY <1>5, LeastExists
  <1>7. PICK p \in Pairs(out) : p[1] = a /\ p[2] = b
    BY <1>6
  <1>8. \A q \in Pairs(out) : p[1] < q[1] \/ (p[1] = q[1] /\ p[2] <= q[2])
    <2> SUFFICES ASSUME NEW q \in Pairs(out)
                 PROVE  p[1] < q[1] \/ (p[1] = q[1] /\ p[2] <= q[2])
      OBVIOUS
    <2>1. q[1] \in A /\ (q[1] = a => q[2] \in B)
      OBVIOUS
    <2>2. q[1] \in Nat /\ a \in Nat /\ a <= q[1] /\ (q[1] = a => b <= q[2])
      BY <2>1, <1>3, <1>4, <1>6
    <2>3. QED
      BY <2>2, <1>7
  <1>9. FirstPair(out) \in Pairs(out)
    BY <1>8 DEF FirstPair
  <1>10. QED
    BY <1>1, <1>9

\* One merge is one item fewer, and none if no two items touch.
LEMMA MergeFirstOK ==
    ASSUME NEW out \in Seq(Items)
    PROVE  /\ MergeFirst(out) \in Seq(Items)
           /\ Pairs(out) = {} => MergeFirst(out) = out
           /\ Pairs(out) # {} => Len(MergeFirst(out)) = Len(out) - 1
  <1>1. CASE Pairs(out) = {}
    BY <1>1 DEF MergeFirst
  <1>2. CASE Pairs(out) # {}
    <2> DEFINE i == FirstPair(out)[1]
               j == FirstPair(out)[2]
    <2>1. i \in 1..Len(out) /\ j \in 1..Len(out) /\ i < j
      BY <1>2, FirstPairOK
    <2>2. MergeFirst(out) = Absorb(out, i, j)
      BY <1>2 DEF MergeFirst
    <2> HIDE DEF i, j
    <2>3. Absorb(out, i, j) \in Seq(Items) /\ Len(Absorb(out, i, j)) = Len(out) - 1
      BY <2>1, AbsorbOK
    <2>4. QED
      BY <1>2, <2>2, <2>3
  <1>3. QED
    BY <1>1, <1>2

\* A merge keeps the items those of groups that are connected.
LEMMA GroupedMerge ==
    ASSUME NEW out, NEW items, NEW k, \E g, m : Grouped(out, items, k, g, m)
    PROVE  \E g, m : Grouped(MergeFirst(out), items, k, g, m)
  <1>1. PICK g, m : Grouped(out, items, k, g, m)
    OBVIOUS
  <1>2. out \in Seq(Items)
    BY <1>1 DEF Grouped
  <1>3. CASE Pairs(out) = {}
    BY <1>1, <1>2, <1>3, MergeFirstOK
  <1>4. CASE Pairs(out) # {}
    <2> DEFINE i == FirstPair(out)[1]
               j == FirstPair(out)[2]
    <2>1. i \in 1..Len(out) /\ j \in 1..Len(out) /\ i < j /\ Touches(out[i], out[j])
      BY <1>2, <1>4, FirstPairOK
    <2>2. MergeFirst(out) = Absorb(out, i, j)
      BY <1>4 DEF MergeFirst
    <2> HIDE DEF i, j
    <2>3. QED
      BY <1>1, <2>1, <2>2, GroupedAbsorb
  <1>5. QED
    BY <1>3, <1>4

\* The steps of collapseOverlaps, as many as there are items.
LEMMA CollapseSteps ==
    ASSUME NEW s \in Seq(Items)
    PROVE  \E f \in [0..Len(s) -> Seq(Items)] :
              /\ f[0] = s /\ f[Len(s)] = Collapse(s)
              /\ \A k \in 1..Len(s) : f[k] = MergeFirst(f[k - 1])
  <1> DEFINE n == Len(s)
             V == Seq(Items)
             h == [p \in V \X (1..n) |-> MergeFirst(p[1])]
             Eq(g) == g = [T \in SUBSET (1..n) |->
                             IF T = {} THEN s ELSE MergeFirst(g[T \ {Max(T)}])]
             G == CHOOSE g : Eq(g)
  <1>1. n \in Nat /\ DOMAIN s = 1..n /\ s \in V
    OBVIOUS
  <1>2. \A v \in V, k \in 1..n : h[<<v, k>>] = MergeFirst(v) /\ h[<<v, k>>] \in V
    BY MergeFirstOK
  <1>3. Collapse(s) = G[1..n]
    BY <1>1 DEF Collapse, FoldLeft, MapThenFoldSet
  <1> HIDE DEF h, n, V
  <1>4. \A T \in SUBSET (1..n) : T # {} => Max(T) \in 1..n /\ T \ {Max(T)} \in SUBSET (1..n)
    BY <1>1, Intervals
  <1>5. \E g : Eq(g)
    <2>1. PICK g : IsFoldLeft(g, n, V, s, h)
      BY <1>1, <1>2, FoldLeftExists
    <2>2. ASSUME NEW T \in SUBSET (1..n), T # {}
          PROVE  g[T] = MergeFirst(g[T \ {Max(T)}])
      BY <1>2, <1>4, <2>1, <2>2 DEF IsFoldLeft
    <2>3. Eq(g)
      BY <2>1, <2>2 DEF IsFoldLeft
    <2>4. QED
      BY <2>3
  <1>6. Eq(G)
    BY <1>5
  <1> HIDE DEF G
  <1>7. Computes(G, n, V, s, h)
    BY <1>2, <1>4, <1>6 DEF Computes
  <1>8. PICK f : Steps(f, n, V, s, h, G[1..n])
    BY <1>1, <1>2, <1>7, FoldLeftSteps
  <1>9. \A k \in 1..n : f[k] = MergeFirst(f[k - 1])
    BY <1>1, <1>2, <1>8 DEF Steps
  <1>10. QED
    BY <1>3, <1>8, <1>9 DEF n, V, Steps

\* It leaves no pair that overlaps, and the groups are those of the items it is given.
LEMMA CollapseOK ==
    ASSUME NEW s \in Seq(Items)
    PROVE  /\ Collapse(s) \in Seq(Items) /\ Pairs(Collapse(s)) = {}
           /\ \A items, k : (\E g, m : Grouped(s, items, k, g, m))
                            => \E g, m : Grouped(Collapse(s), items, k, g, m)
  <1> DEFINE n == Len(s)
  <1>0. n \in Nat
    OBVIOUS
  <1>1. PICK f \in [0..n -> Seq(Items)] : /\ f[0] = s /\ f[n] = Collapse(s)
                                          /\ \A k \in 1..n : f[k] = MergeFirst(f[k - 1])
    BY CollapseSteps
  <1> HIDE DEF n
  <1>2. ASSUME NEW k \in 0..n, k # n
        PROVE  k + 1 \in 0..n /\ f[k] \in Seq(Items) /\ f[k + 1] = MergeFirst(f[k])
               /\ f[k + 1] \in Seq(Items)
    <2>1. k + 1 \in 1..n /\ (k + 1) - 1 = k /\ k + 1 \in 0..n
      BY <1>0, <1>2
    <2>2. QED
      BY <1>1, <2>1
  <1>3. Pairs(Collapse(s)) = {}
    <2> DEFINE S == {k \in 0..n : Pairs(f[k]) = {} \/ Len(f[k]) <= n - k}
    <2>1. 0 \in S
      BY <1>0, <1>1 DEF n
    <2>2. ASSUME NEW k \in 0..n, k # n, k \in S PROVE k + 1 \in S
      <3>1. CASE Pairs(f[k]) = {}
        BY <3>1, <1>2, <2>2, MergeFirstOK
      <3>2. CASE Pairs(f[k]) # {}
        <4>1. Len(f[k + 1]) = Len(f[k]) - 1
          BY <3>2, <1>2, <2>2, MergeFirstOK
        <4>2. Len(f[k]) <= n - k /\ Len(f[k]) \in Nat /\ k \in Nat
          BY <3>2, <2>2, <1>0, <1>2
        <4>3. Len(f[k + 1]) <= n - (k + 1)
          BY <4>1, <4>2, <1>0
        <4>4. QED
          BY <4>3, <1>2, <2>2
      <3>3. QED
        BY <3>1, <3>2
    <2>3. 0..n \subseteq S
      <3> HIDE DEF S
      <3>1. QED
        BY <1>0, <2>1, <2>2, InductionTo
    <2>4. n \in S
      BY <2>3, <1>0
    <2>5. Pairs(f[n]) = {} \/ Len(f[n]) <= 0
      BY <2>4, <1>0
    <2>6. f[n] \in Seq(Items)
      BY <1>0, <1>1
    <2>7. Len(f[n]) <= 0 => Pairs(f[n]) = {}
      BY <2>6 DEF Pairs
    <2>8. QED
      BY <1>1, <2>5, <2>7
  <1>4. ASSUME NEW items, NEW k, \E g, m : Grouped(s, items, k, g, m)
        PROVE  \E g, m : Grouped(Collapse(s), items, k, g, m)
    <2> DEFINE S == {i \in 0..n : \E g, m : Grouped(f[i], items, k, g, m)}
    <2>1. 0 \in S
      BY <1>0, <1>1, <1>4
    <2>2. ASSUME NEW i \in 0..n, i # n, i \in S PROVE i + 1 \in S
      BY <1>2, <2>2, GroupedMerge
    <2>3. 0..n \subseteq S
      <3> HIDE DEF S
      <3>1. QED
        BY <1>0, <2>1, <2>2, InductionTo
    <2>4. n \in S
      BY <2>3, <1>0
    <2>5. QED
      BY <1>1, <2>4
  <1>5. Collapse(s) \in Seq(Items)
    BY <1>0, <1>1
  <1>6. QED
    BY <1>3, <1>4, <1>5

\* The steps of mergeOverlapping, one for each item.
LEMMA MergedSteps ==
    ASSUME NEW s \in Seq(Items)
    PROVE  \E f \in [0..Len(s) -> Seq(Items)] :
              /\ f[0] = <<>> /\ f[Len(s)] = Merged(s)
              /\ \A k \in 1..Len(s) : f[k] = Collapse(Append(f[k - 1], s[k]))
  <1> DEFINE n == Len(s)
             V == Seq(Items)
             h == [p \in V \X (1..n) |-> Collapse(Append(p[1], s[p[2]]))]
             Eq(g) == g = [T \in SUBSET (1..n) |->
                             IF T = {} THEN <<>>
                             ELSE Collapse(Append(g[T \ {Max(T)}], s[Max(T)]))]
             G == CHOOSE g : Eq(g)
  <1>1. n \in Nat /\ DOMAIN s = 1..n /\ (\A k \in 1..n : s[k] \in Items)
    OBVIOUS
  <1>e. <<>> \in V
    OBVIOUS
  <1>2. ASSUME NEW v \in V, NEW k \in 1..n
        PROVE  h[<<v, k>>] = Collapse(Append(v, s[k])) /\ h[<<v, k>>] \in V
    <2>1. Append(v, s[k]) \in Seq(Items)
      BY <1>1
    <2>2. Collapse(Append(v, s[k])) \in V
      BY <2>1, CollapseOK
    <2>3. QED
      BY <2>2
  <1>3. Merged(s) = G[1..n]
    BY <1>1 DEF Merged, FoldLeft, MapThenFoldSet
  <1> HIDE DEF h, n, V
  <1>4. \A T \in SUBSET (1..n) : T # {} => Max(T) \in 1..n /\ T \ {Max(T)} \in SUBSET (1..n)
    BY <1>1, Intervals
  <1>5. \E g : Eq(g)
    <2>1. PICK g : IsFoldLeft(g, n, V, <<>>, h)
      BY <1>1, <1>2, <1>e, FoldLeftExists
    <2>2. ASSUME NEW T \in SUBSET (1..n), T # {}
          PROVE  g[T] = Collapse(Append(g[T \ {Max(T)}], s[Max(T)]))
      <3>1. /\ g[T] = h[<<g[T \ {Max(T)}], Max(T)>>] /\ g[T \ {Max(T)}] \in V
            /\ Max(T) \in 1..n
        BY <1>4, <2>1, <2>2 DEF IsFoldLeft
      <3>2. QED
        BY <3>1, <1>2
    <2>3. Eq(g)
      BY <2>1, <2>2 DEF IsFoldLeft
    <2>4. QED
      BY <2>3
  <1>6. Eq(G)
    BY <1>5
  <1> HIDE DEF G
  <1>7. Computes(G, n, V, <<>>, h)
    <2>1. ASSUME NEW T \in SUBSET (1..n), T # {}, G[T \ {Max(T)}] \in V
          PROVE  G[T] = h[<<G[T \ {Max(T)}], Max(T)>>]
      <3>1. G[T] = Collapse(Append(G[T \ {Max(T)}], s[Max(T)]))
        BY <1>6, <2>1
      <3>2. QED
        BY <3>1, <1>2, <1>4, <2>1
    <2>2. G[{}] = <<>>
      BY <1>6
    <2>3. QED
      BY <2>1, <2>2 DEF Computes
  <1>8. PICK f : Steps(f, n, V, <<>>, h, G[1..n])
    BY <1>1, <1>2, <1>7, <1>e, FoldLeftSteps
  <1>9. \A k \in 1..n : f[k] = Collapse(Append(f[k - 1], s[k]))
    BY <1>1, <1>2, <1>8 DEF Steps
  <1>10. QED
    BY <1>3, <1>8, <1>9 DEF n, V, Steps

\* What is merged is grouped, and no two of it overlap.
LEMMA MergedOK ==
    ASSUME NEW s \in Seq(Items)
    PROVE  /\ Merged(s) \in Seq(Items) /\ Pairs(Merged(s)) = {}
           /\ \E g, m : Grouped(Merged(s), s, Len(s), g, m)
  <1> DEFINE n == Len(s)
  <1>0. n \in Nat /\ DOMAIN s = 1..n
    OBVIOUS
  <1>1. PICK f \in [0..n -> Seq(Items)] :
              /\ f[0] = <<>> /\ f[n] = Merged(s)
              /\ \A k \in 1..n : f[k] = Collapse(Append(f[k - 1], s[k]))
    BY MergedSteps
  <1> HIDE DEF n
  <1> DEFINE S == {k \in 0..n : /\ Pairs(f[k]) = {}
                                /\ \E g, m : Grouped(f[k], s, k, g, m)}
  <1>2. 0 \in S
    <2>1. Len(<<>>) = 0 /\ Pairs(<<>>) = {} /\ <<>> \in Seq(Items)
      BY DEF Pairs
    <2>2. 0 \in 0..Len(s) /\ 1..0 = {}
      BY <1>0 DEF n
    <2>3. Grouped(<<>>, s, 0, <<>>, <<>>)
      BY <2>1, <2>2 DEF Grouped
    <2>4. QED
      BY <1>0, <1>1, <2>1, <2>3
  <1>3. ASSUME NEW k \in 0..n, k # n, k \in S PROVE k + 1 \in S
    <2>1. k + 1 \in 1..n /\ (k + 1) - 1 = k /\ k + 1 \in 0..n /\ k + 1 \in DOMAIN s
      BY <1>0, <1>3
    <2>2. PICK g, m : Grouped(f[k], s, k, g, m)
      BY <1>3
    <2>3. f[k + 1] = Collapse(Append(f[k], s[k + 1]))
      BY <1>1, <2>1
    <2>4. Append(f[k], s[k + 1]) \in Seq(Items)
      <3>1. f[k] \in Seq(Items) /\ s[k + 1] \in Items
        BY <1>1, <2>1
      <3>2. QED
        BY <3>1
    <2>5. \E g1, m1 : Grouped(Append(f[k], s[k + 1]), s, k + 1, g1, m1)
      BY <2>1, <2>2, GroupedAppend
    <2>6. \E g1, m1 : Grouped(f[k + 1], s, k + 1, g1, m1)
      <3> DEFINE a == Append(f[k], s[k + 1])
      <3> HIDE DEF a
      <3>1. \A items, i : (\E g1, m1 : Grouped(a, items, i, g1, m1))
                           => \E g1, m1 : Grouped(Collapse(a), items, i, g1, m1)
        BY <2>4, CollapseOK DEF a
      <3>2. \E g1, m1 : Grouped(a, s, k + 1, g1, m1)
        BY <2>5 DEF a
      <3>3. \E g1, m1 : Grouped(Collapse(a), s, k + 1, g1, m1)
        BY <3>1, <3>2
      <3>4. QED
        BY <2>3, <3>3 DEF a
    <2>7. Pairs(f[k + 1]) = {}
      BY <2>3, <2>4, CollapseOK
    <2>8. QED
      BY <2>1, <2>6, <2>7
  <1>4. 0..n \subseteq S
    <2> HIDE DEF S
    <2>1. QED
      BY <1>0, <1>2, <1>3, InductionTo
  <1>5. n \in S
    BY <1>4, <1>0
  <1>6. QED
    BY <1>0, <1>1, <1>5 DEF n

\* The groups are those of Together, and the items their spans.
LEMMA MergedIsSpans ==
    ASSUME NEW s \in Seq(Items)
    PROVE  /\ ToSet(Merged(s)) = Spans(s)
           /\ \A p \in 1..Len(Merged(s)) : \E i \in 1..Len(s) : Merged(s)[p].id = s[i].id
           /\ (\A i, j \in 1..Len(s) : s[i].id = s[j].id => i = j)
              => \A p, q \in 1..Len(Merged(s)) : Merged(s)[p].id = Merged(s)[q].id => p = q
           /\ (\A i, j \in 1..Len(s) : i < j => s[i].id < s[j].id)
              => \A p, q \in 1..Len(Merged(s)) : p < q => Merged(s)[p].id < Merged(s)[q].id
  <1> DEFINE out == Merged(s)
             N == Len(s)
             n == Len(out)
  <1>1. PICK g, m : Grouped(out, s, N, g, m)
    BY MergedOK
  <1>2. /\ out \in Seq(Items) /\ Pairs(out) = {} /\ n \in Nat /\ N \in Nat
        /\ DOMAIN s = 1..N /\ DOMAIN out = 1..n
    BY MergedOK
  <1>3. /\ \A p \in 1..n : g[p] \in SUBSET (1..N) /\ GroupOK(out[p], s, g[p], m[p])
        /\ \A p, q \in 1..n : p < q => m[p] < m[q]
        /\ \A i \in 1..N : \E p \in 1..n : i \in g[p]
    BY <1>1 DEF Grouped
  <1>4. /\ \A i \in 1..N : s[i] \in Items /\ s[i].first \in Nat /\ s[i].last \in Nat
        /\ \A p \in 1..n : /\ out[p] \in Items /\ out[p].first \in Nat /\ out[p].last \in Nat
                            /\ out[p].first <= out[p].last
    BY <1>2, ItemOK
  <1>5. \A p \in 1..n, q \in 1..n : p # q => ~Touches(out[p], out[q])
    <2> SUFFICES ASSUME NEW p \in 1..n, NEW q \in 1..n, p # q, Touches(out[p], out[q])
                 PROVE  FALSE
      OBVIOUS
    <2>1. Touches(out[q], out[p])
      BY DEF Touches
    <2>2. p < q \/ q < p
      BY <1>2
    <2>3. <<p, q>> \in Pairs(out) \/ <<q, p>> \in Pairs(out)
      BY <1>2, <2>1, <2>2 DEF Pairs
    <2>4. QED
      BY <1>2, <2>3
  <1> HIDE DEF out, N, n
  <1>6. ASSUME NEW p \in 1..n PROVE Closed(s, g[p])
    <2> SUFFICES ASSUME NEW x \in g[p], NEW y \in 1..N, Touches(s[x], s[y]) PROVE y \in g[p]
      BY <1>2 DEF Closed
    <2>1. PICK q \in 1..n : y \in g[q]
      BY <1>3
    <2>2. /\ s[x].path = out[p].path /\ out[p].first <= s[x].first /\ s[x].last <= out[p].last
          /\ x \in 1..N
      BY <1>3 DEF GroupOK
    <2>3. s[y].path = out[q].path /\ out[q].first <= s[y].first /\ s[y].last <= out[q].last
      BY <1>3, <2>1 DEF GroupOK
    <2>4. s[x].path = s[y].path /\ s[x].first <= s[y].last /\ s[y].first <= s[x].last
      BY DEF Touches
    <2>n. /\ s[x].first \in Nat /\ s[x].last \in Nat /\ s[y].first \in Nat /\ s[y].last \in Nat
          /\ out[p].first \in Nat /\ out[p].last \in Nat
          /\ out[q].first \in Nat /\ out[q].last \in Nat
      BY <1>4, <2>2
    <2>p. out[p].first <= out[q].last /\ out[q].first <= out[p].last
      <3>1. out[p].first <= s[x].first /\ s[x].first <= s[y].last /\ s[y].last <= out[q].last
        BY <2>2, <2>3, <2>4
      <3>2. out[q].first <= s[y].first /\ s[y].first <= s[x].last /\ s[x].last <= out[p].last
        BY <2>2, <2>3, <2>4
      <3>3. out[p].first <= out[q].last
        BY <3>1, <2>n, SMTT(30)
      <3>4. out[q].first <= out[p].last
        BY <3>2, <2>n, SMTT(30)
      <3>5. QED
        BY <3>3, <3>4
    <2>5. out[p].path = out[q].path
      BY <2>2, <2>3, <2>4
    <2>6. Touches(out[p], out[q])
      BY <2>5, <2>p DEF Touches
    <2>7. QED
      BY <1>5, <2>1, <2>6
  <1>7. ASSUME NEW p \in 1..n, NEW i \in g[p] PROVE Together(s, i) = g[p]
    <2>1. g[p] \in SUBSET DOMAIN s /\ i \in DOMAIN s
      BY <1>2, <1>3
    <2>2. Together(s, i) \subseteq g[p]
      BY <1>6, <2>1 DEF Together, Closed
    <2>3. ASSUME NEW S \in SUBSET DOMAIN s, i \in S, Closed(s, S) PROVE g[p] \subseteq S
      <3>1. Connected(s, g[p])
        BY <1>3 DEF GroupOK
      <3>2. QED
        BY <3>1, <2>3 DEF Connected
    <2>4. g[p] \subseteq Together(s, i)
      BY <2>1, <2>3 DEF Together, Closed
    <2>5. QED
      BY <2>2, <2>4
  <1>8. ASSUME NEW p \in 1..n
        PROVE  /\ Min(g[p]) = m[p] /\ m[p] \in g[p] /\ out[p].id = s[m[p]].id
               /\ Min({s[j].first : j \in g[p]}) = out[p].first
               /\ Max({s[j].last : j \in g[p]}) = out[p].last
               /\ \A i \in g[p] : s[i].path = out[p].path
    <2>1. /\ m[p] \in g[p] /\ out[p].id = s[m[p]].id /\ \A i \in g[p] : m[p] <= i
          /\ \A i \in g[p] : /\ s[i].path = out[p].path
                             /\ out[p].first <= s[i].first /\ s[i].last <= out[p].last
          /\ \A y \in out[p].first..out[p].last :
               \E i \in g[p] : s[i].first <= y /\ y <= s[i].last
      BY <1>3 DEF GroupOK
    <2>2. g[p] \in SUBSET Nat /\ g[p] \in SUBSET (1..N)
      BY <1>2, <1>3
    <2>3. Min(g[p]) = m[p]
      <3>1. \A x \in g[p] : (\A y \in g[p] : x <= y) => x = m[p]
        BY <2>1, <2>2
      <3>2. QED
        BY <2>1, <3>1 DEF Min
    <2>4. Min({s[j].first : j \in g[p]}) = out[p].first
      <3> DEFINE F == {s[j].first : j \in g[p]}
      <3>1. PICK i \in g[p] : s[i].first <= out[p].first
        BY <1>4, <2>1
      <3>2. s[i].first = out[p].first
        BY <1>4, <2>1, <2>2, <3>1
      <3>3. out[p].first \in F /\ \A y \in F : out[p].first <= y /\ y \in Nat
        BY <1>4, <2>1, <2>2, <3>2
      <3> HIDE DEF F
      <3>4. \A x \in F : (\A y \in F : x <= y) => x = out[p].first
        BY <1>4, <3>3
      <3>5. Min(F) = out[p].first
        BY <3>3, <3>4 DEF Min
      <3>6. QED
        BY <3>5 DEF F
    <2>5. Max({s[j].last : j \in g[p]}) = out[p].last
      <3> DEFINE F == {s[j].last : j \in g[p]}
      <3>1. PICK i \in g[p] : out[p].last <= s[i].last
        BY <1>4, <2>1
      <3>2. s[i].last = out[p].last
        BY <1>4, <2>1, <2>2, <3>1
      <3>3. out[p].last \in F /\ \A y \in F : out[p].last >= y /\ y \in Nat
        BY <1>4, <2>1, <2>2, <3>2
      <3> HIDE DEF F
      <3>4. \A x \in F : (\A y \in F : x >= y) => x = out[p].last
        BY <1>4, <3>3
      <3>5. Max(F) = out[p].last
        BY <3>3, <3>4 DEF Max
      <3>6. QED
        BY <3>5 DEF F
    <2>6. QED
      BY <2>1, <2>3, <2>4, <2>5
  <1> DEFINE Span(i) == LET G == Together(s, i)
                        IN [id |-> s[Min(G)].id, path |-> s[i].path,
                            first |-> Min({s[j].first : j \in G}),
                            last |-> Max({s[j].last : j \in G})]
  <1>9. ASSUME NEW p \in 1..n, NEW i \in g[p] PROVE Span(i) = out[p]
    <2>1. Span(i) = [id |-> out[p].id, path |-> out[p].path, first |-> out[p].first,
                     last |-> out[p].last]
      BY <1>7, <1>8
    <2>2. QED
      BY <1>4, <2>1, ItemOK
  <1>10. Spans(s) = {Span(i) : i \in 1..N}
    BY <1>2 DEF Spans
  <1> HIDE DEF Span
  <1>11. \A i \in 1..N : \E p \in 1..n : Span(i) = out[p]
    BY <1>3, <1>9
  <1>12. \A p \in 1..n : m[p] \in 1..N /\ Span(m[p]) = out[p] /\ out[p].id = s[m[p]].id
    BY <1>3, <1>8, <1>9
  <1>13. ToSet(out) = Spans(s)
    <2>1. ToSet(out) = {out[p] : p \in 1..n}
      BY <1>2 DEF ToSet
    <2>2. QED
      BY <1>10, <1>11, <1>12, <2>1
  <1>14. \A p \in 1..n : \E i \in 1..N : out[p].id = s[i].id
    BY <1>12
  <1>15. ASSUME \A i, j \in 1..N : s[i].id = s[j].id => i = j,
                NEW p \in 1..n, NEW q \in 1..n, out[p].id = out[q].id
         PROVE  p = q
    <2>0. /\ m[p] \in 1..N /\ out[p].id = s[m[p]].id
          /\ m[q] \in 1..N /\ out[q].id = s[m[q]].id
      BY <1>12
    <2>1. m[p] = m[q]
      BY <2>0, <1>15
    <2>2. m[p] \in Nat /\ p \in Nat /\ q \in Nat
      BY <1>2, <1>12
    <2>3. QED
      BY <2>1, <2>2, <1>3
  <1>16. ASSUME \A i, j \in 1..N : i < j => s[i].id < s[j].id,
                NEW p \in 1..n, NEW q \in 1..n, p < q
         PROVE  out[p].id < out[q].id
    BY <1>3, <1>12, <1>16
  <1>17. QED
    BY <1>13, <1>14, <1>15, <1>16 DEF out, n, N

\* What a set of items costs in a section.
Section == {"candidates", "symbols", "relations"}
PackItems == {x \in Items : x.id \in 1..MaxFound}
CostSum(stage, S) == MapThenSumSet(LAMBDA x : Cost[<<stage, x.id>>], S)

\* The costs of a section's items, as a sum.
LEMMA CostSumIs ==
    ASSUME NEW stage \in Section, NEW S \in SUBSET PackItems, IsFiniteSet(S)
    PROVE  \E G, c : /\ c = [x \in S |-> Cost[<<stage, x.id>>]] /\ c \in [S -> Nat]
                     /\ IsSum(G, S, c) /\ CostSum(stage, S) = G[S]
  <1> DEFINE c == [x \in S |-> Cost[<<stage, x.id>>]]
             Eq(g) == g = [T \in SUBSET S |->
                             IF T = {} THEN 0
                             ELSE Cost[<<stage, (CHOOSE x \in T : TRUE).id>>]
                                  + g[T \ {CHOOSE x \in T : TRUE}]]
             G == CHOOSE g : Eq(g)
  <1>1. c \in [S -> Nat]
    <2>1. \A x \in S : Cost[<<stage, x.id>>] \in Nat
      BY PackAssumption DEF PackItems, Section, Stage
    <2>2. QED
      BY <2>1
  <1>2. CostSum(stage, S) = G[S]
    BY DEF CostSum, MapThenSumSet, MapThenFoldSet
  <1>c. \A x \in S : c[x] = Cost[<<stage, x.id>>]
    OBVIOUS
  <1> HIDE DEF c
  <1>3. \E g : Eq(g)
    <2>1. PICK g : IsSum(g, S, c)
      BY <1>1, SumExists
    <2>2. ASSUME NEW T \in SUBSET S, T # {}
          PROVE  g[T] = Cost[<<stage, (CHOOSE x \in T : TRUE).id>>]
                        + g[T \ {CHOOSE x \in T : TRUE}]
      <3>1. (CHOOSE x \in T : TRUE) \in T
        BY <2>2
      <3>2. QED
        BY <1>c, <2>1, <2>2, <3>1 DEF IsSum
    <2>3. Eq(g)
      BY <2>1, <2>2 DEF IsSum
    <2>4. QED
      BY <2>3
  <1>4. Eq(G)
    BY <1>3
  <1> HIDE DEF G
  <1>5. G[{}] = 0
    BY <1>4
  <1>6. \A T \in SUBSET S : T # {} =>
          G[T] = c[CHOOSE x \in T : TRUE] + G[T \ {CHOOSE x \in T : TRUE}]
    <2> SUFFICES ASSUME NEW T \in SUBSET S, T # {}
                 PROVE  G[T] = c[CHOOSE x \in T : TRUE] + G[T \ {CHOOSE x \in T : TRUE}]
      OBVIOUS
    <2>1. (CHOOSE x \in T : TRUE) \in T
      OBVIOUS
    <2>2. QED
      BY <1>4, <1>c, <2>1
  <1>7. G \in [SUBSET S -> Nat]
    <2> DEFINE P == {n \in Nat : \A T \in SUBSET S : Cardinality(T) <= n => G[T] \in Nat}
    <2>0. \A T \in SUBSET S : IsFiniteSet(T) /\ Cardinality(T) \in Nat
      BY FS_Subset, FS_CardinalityType
    <2>1. 0 \in P
      BY <1>5, <2>0, FS_EmptySet
    <2>2. \A n \in Nat : n \in P => n + 1 \in P
      <3> SUFFICES ASSUME NEW n \in Nat, n \in P, NEW T \in SUBSET S, Cardinality(T) <= n + 1
                   PROVE  G[T] \in Nat
        OBVIOUS
      <3>1. CASE T = {}
        BY <3>1, <1>5
      <3>2. CASE T # {}
        <4> DEFINE z == CHOOSE x \in T : TRUE
        <4>1. z \in T /\ G[T] = c[z] + G[T \ {z}]
          BY <3>2, <1>6
        <4> HIDE DEF z
        <4>2. Cardinality(T \ {z}) = Cardinality(T) - 1
          BY <4>1, <2>0, FS_RemoveElement
        <4>3. Cardinality(T \ {z}) <= n
          BY <4>2, <2>0
        <4>4. G[T \ {z}] \in Nat /\ c[z] \in Nat
          BY <4>1, <4>3, <1>1
        <4>5. QED
          BY <4>1, <4>4
      <3>3. QED
        BY <3>1, <3>2
    <2>3. Nat \subseteq P
      <3> HIDE DEF P
      <3>1. QED
        BY <2>1, <2>2, Induction, Zenon
    <2>4. \A T \in SUBSET S : G[T] \in Nat
      BY <2>0, <2>3
    <2>5. QED
      BY <1>4, <2>4
  <1>8. IsSum(G, S, c)
    BY <1>5, <1>6, <1>7 DEF IsSum
  <1>9. QED
    BY <1>1, <1>2, <1>8 DEF c

\* One item more costs what it costs.
LEMMA CostSums ==
    ASSUME NEW stage \in Section, NEW S \in SUBSET PackItems, IsFiniteSet(S)
    PROVE  /\ CostSum(stage, S) \in Nat /\ CostSum(stage, {}) = 0
           /\ \A y \in PackItems \ S :
                CostSum(stage, S \cup {y}) = CostSum(stage, S) + Cost[<<stage, y.id>>]
  <1>1. PICK G, c : /\ c = [x \in S |-> Cost[<<stage, x.id>>]] /\ c \in [S -> Nat]
                    /\ IsSum(G, S, c) /\ CostSum(stage, S) = G[S]
    BY CostSumIs
  <1>2. CostSum(stage, S) \in Nat
    BY <1>1 DEF IsSum
  <1>3. CostSum(stage, {}) = 0
    <2>1. IsFiniteSet({}) /\ {} \in SUBSET PackItems
      BY FS_EmptySet
    <2>2. PICK G0, c0 : IsSum(G0, {}, c0) /\ CostSum(stage, {}) = G0[{}]
      BY <2>1, CostSumIs
    <2>3. QED
      BY <2>2 DEF IsSum
  <1>4. ASSUME NEW y \in PackItems \ S
        PROVE  CostSum(stage, S \cup {y}) = CostSum(stage, S) + Cost[<<stage, y.id>>]
    <2> DEFINE S1 == S \cup {y}
    <2>1. IsFiniteSet(S1) /\ S1 \in SUBSET PackItems /\ S \in SUBSET S1 /\ y \in S1 \ S
      BY FS_AddElement
    <2> HIDE DEF S1
    <2>2. PICK G1, c1 : /\ c1 = [x \in S1 |-> Cost[<<stage, x.id>>]] /\ c1 \in [S1 -> Nat]
                        /\ IsSum(G1, S1, c1) /\ CostSum(stage, S1) = G1[S1]
      BY <2>1, CostSumIs
    <2>a. Adds(G1, S1, c1)
      BY <2>1, <2>2, SumAdds
    <2>3. G1[S \cup {y}] = c1[y] + G1[S]
      BY <2>1, <2>a DEF Adds
    <2>4. Same(c1, c, S)
      BY <1>1, <2>1, <2>2 DEF Same
    <2>5. G1[S] = G[S]
      BY <1>1, <2>1, <2>2, <2>4, SumsAgree
    <2>6. c1[y] = Cost[<<stage, y.id>>] /\ c1[y] \in Nat /\ G[S] \in Nat
      BY <1>1, <1>2, <2>1, <2>2
    <2>7. CostSum(stage, S1) = Cost[<<stage, y.id>>] + CostSum(stage, S)
      BY <1>1, <2>2, <2>3, <2>5, <2>6 DEF S1
    <2>8. QED
      BY <1>1, <2>6, <2>7 DEF S1
  <1>5. QED
    BY <1>2, <1>3, <1>4

\* The state of a pack: p is its record, h the hits and b the bodies.
Sec(p, s) == IF s = "candidates" THEN p.candidates
             ELSE IF s = "symbols" THEN p.symbols ELSE p.relations
RestOf(p, s) == IF p.stage = s THEN p.todo ELSE <<>>
Skips(p, s) == {x[2] : x \in {y \in ToSet(p.skipped) : y[1] = s}}
Off(s, h, b, p) == IF s = "candidates" THEN Spans(h)
                   ELSE IF s = "symbols" THEN Spans(b) ELSE ToSet(p.symbols)
Begun(s, p) == p.stage \in (IF s = "candidates" THEN Stage
                            ELSE IF s = "symbols" THEN {"symbols", "relations", "done"}
                            ELSE {"relations", "done"})
Distinct(q) == \A i, j \in 1..Len(q) : q[i].id = q[j].id => i = j
Rising(q) == \A i, j \in 1..Len(q) : i < j => q[i].id < q[j].id
Apart(p, q) == /\ Distinct(p) /\ Distinct(q)
               /\ \A i \in 1..Len(p), j \in 1..Len(q) : p[i].id # q[j].id
RisingOn(p, q) == /\ Rising(p) /\ Rising(q)
                  /\ \A i \in 1..Len(p), j \in 1..Len(q) : p[i].id < q[j].id

PackState == [stage : Stage \cup {"none", "asked"}, todo : Seq(PackItems),
              candidates : Seq(PackItems), symbols : Seq(PackItems),
              relations : Seq(PackItems), budget : Nat, used : Nat,
              skipped : Seq(Section \X (1..MaxFound))]

\* What a section has offered is in it, still to come or skipped, and in one of them.
SectionOK(s, h, b, p) ==
    IF Begun(s, p)
    THEN /\ ToSet(Sec(p, s)) \cup ToSet(RestOf(p, s)) \subseteq Off(s, h, b, p)
         /\ {x.id : x \in Off(s, h, b, p) \ (ToSet(Sec(p, s)) \cup ToSet(RestOf(p, s)))}
            = Skips(p, s)
         /\ Apart(Sec(p, s), RestOf(p, s))
    ELSE Sec(p, s) = <<>> /\ Skips(p, s) = {}
AllCosts(p) == CostSum("candidates", ToSet(p.candidates)) + CostSum("symbols", ToSet(p.symbols))
            + CostSum("relations", ToSet(p.relations))
BudgetOK(p) == /\ p.used = AllCosts(p) /\ p.used <= p.budget
               /\ \A i \in 1..Len(p.skipped) :
                    p.used + Cost[<<p.skipped[i][1], p.skipped[i][2]>>] > p.budget
PackOK(h, b, p) ==
    /\ p \in PackState /\ (p.stage \notin Section => p.todo = <<>>)
    /\ \A s \in Section : SectionOK(s, h, b, p)
    /\ RisingOn(p.candidates, RestOf(p, "candidates"))
    /\ BudgetOK(p)

\* The head of a sequence and its tail; and the head at the end of another.
LEMMA TakeOK ==
    ASSUME NEW S, NEW q \in Seq(S), q # <<>>
    PROVE  /\ Head(q) \in S /\ Tail(q) \in Seq(S) /\ ToSet(q) = {Head(q)} \cup ToSet(Tail(q))
           /\ Len(q) \in Nat /\ Len(q) # 0 /\ Len(Tail(q)) = Len(q) - 1 /\ Head(q) = q[1]
           /\ \A i \in 1..Len(Tail(q)) : Tail(q)[i] = q[i + 1] /\ i + 1 \in 1..Len(q)
           /\ 1 \in 1..Len(q)
  <1>1. Len(q) \in Nat /\ Len(q) # 0 /\ DOMAIN q = 1..Len(q) /\ \A i \in 1..Len(q) : q[i] \in S
    OBVIOUS
  <1> DEFINE t == Tail(q)
  <1>2. t \in Seq(S) /\ Len(t) = Len(q) - 1 /\ Head(q) = q[1] /\ DOMAIN t = 1..Len(t)
        /\ \A i \in 1..(Len(q) - 1) : t[i] = q[i + 1]
    <2>1. t \in Seq(S) /\ Len(t) = Len(q) - 1 /\ Head(q) = q[1]
      OBVIOUS
    <2>2. \A i \in 1..(Len(q) - 1) : t[i] = q[i + 1]
      OBVIOUS
    <2>3. DOMAIN t = 1..Len(t)
      BY <2>1
    <2>4. QED
      BY <2>1, <2>2, <2>3
  <1> HIDE DEF t
  <1>3. 1 \in 1..Len(q) /\ \A i \in 1..Len(t) : t[i] = q[i + 1] /\ i + 1 \in 1..Len(q)
    BY <1>1, <1>2
  <1>4. \A i \in 1..Len(q) : i # 1 => i - 1 \in 1..Len(t) /\ q[i] = t[i - 1]
    <2> SUFFICES ASSUME NEW i \in 1..Len(q), i # 1
                 PROVE  i - 1 \in 1..Len(t) /\ q[i] = t[i - 1]
      OBVIOUS
    <2>1. i - 1 \in 1..Len(t) /\ (i - 1) + 1 = i
      BY <1>1, <1>2
    <2>2. QED
      BY <2>1, <1>3
  <1>5. ToSet(q) = {q[1]} \cup ToSet(t)
    <2>1. ToSet(q) = {q[i] : i \in 1..Len(q)} /\ ToSet(t) = {t[i] : i \in 1..Len(t)}
      BY <1>1, <1>2 DEF ToSet
    <2>2. \A x \in ToSet(q) : x = q[1] \/ x \in ToSet(t)
      BY <2>1, <1>4
    <2>3. q[1] \in ToSet(q) /\ ToSet(t) \subseteq ToSet(q)
      BY <2>1, <1>3
    <2>4. QED
      BY <2>2, <2>3
  <1>6. QED
    BY <1>1, <1>2, <1>3, <1>5 DEF t

\* An item more, at the end.
LEMMA PutOK ==
    ASSUME NEW S, NEW p \in Seq(S), NEW x \in S
    PROVE  /\ Append(p, x) \in Seq(S) /\ ToSet(Append(p, x)) = ToSet(p) \cup {x}
           /\ Len(Append(p, x)) = Len(p) + 1 /\ Len(p) \in Nat
           /\ \A i \in 1..(Len(p) + 1) : IF i = Len(p) + 1 THEN Append(p, x)[i] = x
                                         ELSE i \in 1..Len(p) /\ Append(p, x)[i] = p[i]
  <1> DEFINE t == Append(p, x)
             n == Len(p)
  <1>1. n \in Nat /\ DOMAIN p = 1..n
    OBVIOUS
  <1>2. t \in Seq(S) /\ Len(t) = n + 1
    OBVIOUS
  <1>3. t[n + 1] = x /\ \A i \in 1..n : t[i] = p[i]
    OBVIOUS
  <1>d. DOMAIN t = 1..Len(t)
    BY <1>2
  <1> HIDE DEF t, n
  <1>4. \A i \in 1..(n + 1) : IF i = n + 1 THEN t[i] = x ELSE i \in 1..n /\ t[i] = p[i]
    BY <1>1, <1>3
  <1>5. n + 1 \in 1..(n + 1) /\ \A i \in 1..n : i \in 1..(n + 1) /\ i # n + 1
    BY <1>1
  <1>6. ToSet(t) = ToSet(p) \cup {x}
    <2>1. ToSet(t) = {t[i] : i \in 1..(n + 1)} /\ ToSet(p) = {p[i] : i \in 1..n}
      BY <1>1, <1>2, <1>d DEF ToSet
    <2>2. QED
      BY <2>1, <1>4, <1>5, <1>3
  <1>7. QED
    BY <1>1, <1>2, <1>4, <1>6 DEF t, n

\* Taking the first item of a list to the end of another keeps them distinct and rising.
LEMMA TakeApart ==
    ASSUME NEW p \in Seq(PackItems), NEW q \in Seq(PackItems), q # <<>>
    PROVE  /\ Apart(p, q) => /\ Apart(p, Tail(q)) /\ Apart(Append(p, Head(q)), Tail(q))
                             /\ Head(q) \notin ToSet(p) /\ Head(q) \notin ToSet(Tail(q))
           /\ RisingOn(p, q) => RisingOn(p, Tail(q)) /\ RisingOn(Append(p, Head(q)), Tail(q))
  <1> DEFINE t == Tail(q)
             r == Append(p, Head(q))
             n == Len(p)
             m == Len(q)
  <1>1. /\ t \in Seq(PackItems) /\ Len(t) = m - 1 /\ m \in Nat /\ m # 0
        /\ Head(q) = q[1] /\ 1 \in 1..m
        /\ \A i \in 1..Len(t) : t[i] = q[i + 1] /\ i + 1 \in 1..m
    BY TakeOK
  <1>2. /\ Len(r) = n + 1 /\ n \in Nat
        /\ \A i \in 1..(n + 1) : IF i = n + 1 THEN r[i] = q[1] ELSE i \in 1..n /\ r[i] = p[i]
    BY <1>1, PutOK, TakeOK
  <1>3. /\ DOMAIN t = 1..Len(t) /\ DOMAIN p = 1..n
        /\ \A i \in 1..m : q[i].id \in Nat
        /\ \A i \in 1..n : p[i].id \in Nat
    <2>1. \A x \in PackItems : x.id \in Nat
      BY ItemOK DEF PackItems
    <2>2. QED
      BY <1>1, <2>1
  <1> HIDE DEF t, r, n, m
  <1>4. ASSUME Apart(p, q)
        PROVE  Apart(p, t) /\ Apart(r, t) /\ q[1] \notin ToSet(p) /\ q[1] \notin ToSet(t)
    <2>1. /\ \A i, j \in 1..n : p[i].id = p[j].id => i = j
          /\ \A i, j \in 1..m : q[i].id = q[j].id => i = j
          /\ \A i \in 1..n, j \in 1..m : p[i].id # q[j].id
      BY <1>4 DEF Apart, Distinct, n, m
    <2>2. \A i, j \in 1..Len(t) : t[i].id = t[j].id => i = j
      <3> SUFFICES ASSUME NEW i \in 1..Len(t), NEW j \in 1..Len(t), t[i].id = t[j].id PROVE i = j
        OBVIOUS
      <3>1. t[i] = q[i + 1] /\ t[j] = q[j + 1] /\ i + 1 \in 1..m /\ j + 1 \in 1..m
        BY <1>1
      <3>2. i + 1 = j + 1
        BY <2>1, <3>1
      <3>3. QED
        BY <3>2, <1>1
    <2>3. \A i \in 1..Len(t) : t[i].id # q[1].id
      <3> SUFFICES ASSUME NEW i \in 1..Len(t), t[i].id = q[1].id PROVE FALSE
        OBVIOUS
      <3>1. i + 1 = 1
        BY <1>1, <2>1
      <3>2. QED
        BY <3>1, <1>1
    <2>4. \A i \in 1..n, j \in 1..Len(t) : p[i].id # t[j].id
      BY <1>1, <2>1
    <2>5. \A i, j \in 1..(n + 1) : r[i].id = r[j].id => i = j
      BY <1>1, <1>2, <2>1
    <2>6. \A i \in 1..(n + 1), j \in 1..Len(t) : r[i].id # t[j].id
      BY <1>2, <2>3, <2>4
    <2>7. q[1] \notin ToSet(p) /\ q[1] \notin ToSet(t)
      <3>1. ToSet(p) = {p[i] : i \in 1..n} /\ ToSet(t) = {t[i] : i \in 1..Len(t)}
        BY <1>3 DEF ToSet
      <3>2. q[1] \notin ToSet(p)
        BY <3>1, <1>1, <2>1
      <3>3. q[1] \notin ToSet(t)
        BY <3>1, <2>3
      <3>4. QED
        BY <3>2, <3>3
    <2>8. Apart(p, t)
      BY <2>1, <2>2, <2>4 DEF Apart, Distinct, n
    <2>9. Apart(r, t)
      BY <1>2, <2>2, <2>5, <2>6 DEF Apart, Distinct
    <2>10. QED
      BY <2>7, <2>8, <2>9
  <1>5. ASSUME RisingOn(p, q) PROVE RisingOn(p, t) /\ RisingOn(r, t)
    <2>1. /\ \A i, j \in 1..n : i < j => p[i].id < p[j].id
          /\ \A i, j \in 1..m : i < j => q[i].id < q[j].id
          /\ \A i \in 1..n, j \in 1..m : p[i].id < q[j].id
      BY <1>5 DEF RisingOn, Rising, n, m
    <2>2. \A i, j \in 1..Len(t) : i < j => t[i].id < t[j].id
      <3> SUFFICES ASSUME NEW i \in 1..Len(t), NEW j \in 1..Len(t), i < j
                   PROVE  t[i].id < t[j].id
        OBVIOUS
      <3>1. t[i] = q[i + 1] /\ t[j] = q[j + 1] /\ i + 1 \in 1..m /\ j + 1 \in 1..m
        BY <1>1
      <3>2. i + 1 < j + 1
        BY <1>1
      <3>3. QED
        BY <2>1, <3>1, <3>2
    <2>3. \A i \in 1..Len(t) : q[1].id < t[i].id
      BY <1>1, <2>1
    <2>4. \A i \in 1..n, j \in 1..Len(t) : p[i].id < t[j].id
      BY <1>1, <2>1
    <2>5. \A i, j \in 1..(n + 1) : i < j => r[i].id < r[j].id
      <3> SUFFICES ASSUME NEW i \in 1..(n + 1), NEW j \in 1..(n + 1), i < j
                   PROVE  r[i].id < r[j].id
        OBVIOUS
      <3>1. i # n + 1
        BY <1>2
      <3>2. i \in 1..n /\ r[i] = p[i]
        BY <3>1, <1>2
      <3>3. CASE j = n + 1
        BY <3>2, <3>3, <1>1, <1>2, <2>1
      <3>4. CASE j # n + 1
        BY <3>2, <3>4, <1>2, <2>1
      <3>5. QED
        BY <3>3, <3>4
    <2>6. \A i \in 1..(n + 1), j \in 1..Len(t) : r[i].id < t[j].id
      BY <1>2, <2>3, <2>4
    <2>7. RisingOn(p, t)
      BY <2>1, <2>2, <2>4 DEF RisingOn, Rising, n
    <2>8. RisingOn(r, t)
      BY <1>2, <2>2, <2>5, <2>6 DEF RisingOn, Rising
    <2>9. QED
      BY <2>7, <2>8
  <1>6. QED
    BY <1>1, <1>4, <1>5 DEF t, r

\* A sequence without repetition has as many elements as it is long.
LEMMA SeqSet ==
    ASSUME NEW S, NEW q \in Seq(S)
    PROVE  /\ IsFiniteSet(ToSet(q)) /\ ToSet(q) \in SUBSET S
           /\ (\A i, j \in 1..Len(q) : q[i] = q[j] => i = j) => Cardinality(ToSet(q)) = Len(q)
  <1>1. Len(q) \in Nat /\ DOMAIN q = 1..Len(q) /\ \A i \in 1..Len(q) : q[i] \in S
    OBVIOUS
  <1>2. ToSet(q) = {q[i] : i \in 1..Len(q)}
    BY <1>1 DEF ToSet
  <1>q. q \in [1..Len(q) -> ToSet(q)]
    <2>1. q = [i \in 1..Len(q) |-> q[i]]
      OBVIOUS
    <2>2. \A i \in 1..Len(q) : q[i] \in ToSet(q)
      BY <1>2
    <2> DEFINE n == Len(q)
               T == ToSet(q)
    <2> HIDE DEF n, T
    <2>3. q = [i \in 1..n |-> q[i]] /\ \A i \in 1..n : q[i] \in T
      BY <2>1, <2>2 DEF n, T
    <2>4. q \in [1..n -> T]
      BY <2>3
    <2>5. QED
      BY <2>4 DEF n, T
  <1>3. q \in Surjection(1..Len(q), ToSet(q))
    BY <1>q, <1>2 DEF Surjection
  <1>4. IsFiniteSet(1..Len(q)) /\ Cardinality(1..Len(q)) = Len(q)
    <2> DEFINE n == Len(q)
    <2>1. n \in Nat
      BY <1>1
    <2> HIDE DEF n
    <2>2. IsFiniteSet(1..n) /\ Cardinality(1..n) = IF 1 > n THEN 0 ELSE n - 1 + 1
      BY <2>1, FS_Interval
    <2>3. QED
      BY <2>1, <2>2 DEF n
  <1>5. /\ IsFiniteSet(ToSet(q))
        /\ q \in Injection(1..Len(q), ToSet(q)) => Cardinality(ToSet(q)) = Len(q)
    BY <1>3, <1>4, FS_Surjection
  <1>6. (\A i, j \in 1..Len(q) : q[i] = q[j] => i = j) => q \in Injection(1..Len(q), ToSet(q))
    BY <1>q DEF Injection, IsInjective
  <1>7. QED
    BY <1>1, <1>2, <1>5, <1>6

\* tryAdd takes the first of what is to come: it is packed, or skipped.
Took(p, q) ==
    LET item == Head(p.todo)
        cost == Cost[<<p.stage, item.id>>]
    IN /\ q = [stage |-> p.stage, todo |-> Tail(p.todo), candidates |-> q.candidates,
               symbols |-> q.symbols, relations |-> q.relations, budget |-> p.budget,
               used |-> q.used, skipped |-> q.skipped]
       /\ \/ /\ p.used + cost > p.budget /\ q.used = p.used
             /\ \A s \in Section : Sec(q, s) = Sec(p, s)
             /\ q.skipped = Append(p.skipped, <<p.stage, item.id>>)
          \/ /\ ~(p.used + cost > p.budget) /\ q.used = p.used + cost
             /\ \A s \in Section : Sec(q, s) = IF s = p.stage THEN Append(Sec(p, s), item)
                                                              ELSE Sec(p, s)
             /\ q.skipped = p.skipped

TookTypes(p, q) ==
    /\ q \in PackState /\ p.stage \in Section /\ q.stage = p.stage
    /\ Head(p.todo) \in PackItems /\ Cost[<<p.stage, Head(p.todo).id>>] \in Nat
    /\ q.todo = Tail(p.todo) /\ q.budget = p.budget
    /\ \A s \in Section : /\ Sec(p, s) \in Seq(PackItems) /\ Sec(q, s) \in Seq(PackItems)
                          /\ RestOf(p, s) \in Seq(PackItems)
    /\ p.todo \in Seq(PackItems) /\ p.used \in Nat /\ p.budget \in Nat
    /\ p.skipped \in Seq(Section \X (1..MaxFound))

\* tryAdd leaves a pack of the same type.
LEMMA TookType ==
    ASSUME NEW h, NEW b, NEW p, NEW q, PackOK(h, b, p), p.todo # <<>>, Took(p, q)
    PROVE  TookTypes(p, q)
  <1> DEFINE item == Head(p.todo)
  <1>1. /\ p \in PackState /\ p.stage \in Section /\ p.todo \in Seq(PackItems)
        /\ p.used \in Nat /\ p.budget \in Nat /\ p.skipped \in Seq(Section \X (1..MaxFound))
    BY DEF PackOK, PackState
  <1>2. item \in PackItems /\ Tail(p.todo) \in Seq(PackItems)
    BY <1>1, TakeOK
  <1>3. item.id \in 1..MaxFound /\ Cost[<<p.stage, item.id>>] \in Nat
    <2>1. item.id \in 1..MaxFound /\ p.stage \in Stage
      BY <1>1, <1>2 DEF PackItems, Section, Stage
    <2>2. QED
      BY <2>1, PackAssumption
  <1>4. \A s \in Section : Sec(p, s) \in Seq(PackItems) /\ RestOf(p, s) \in Seq(PackItems)
    <2>1. /\ p.candidates \in Seq(PackItems) /\ p.symbols \in Seq(PackItems)
          /\ p.relations \in Seq(PackItems)
      BY <1>1 DEF PackState
    <2>2. <<>> \in Seq(PackItems)
      OBVIOUS
    <2>3. QED
      BY <1>1, <2>1, <2>2 DEF Sec, RestOf
  <1>5. \A s \in Section : Append(Sec(p, s), item) \in Seq(PackItems)
    BY <1>2, <1>4
  <1>6. \A s \in Section : Sec(q, s) \in Seq(PackItems)
    BY <1>4, <1>5 DEF Took
  <1>7. <<p.stage, item.id>> \in Section \X (1..MaxFound)
    BY <1>1, <1>3
  <1>8. Append(p.skipped, <<p.stage, item.id>>) \in Seq(Section \X (1..MaxFound))
    BY <1>1, <1>7
  <1>9. /\ q.skipped \in Seq(Section \X (1..MaxFound)) /\ q.used \in Nat
    <2>1. q.skipped = Append(p.skipped, <<p.stage, item.id>>) \/ q.skipped = p.skipped
      BY DEF Took
    <2>2. q.used = p.used \/ q.used = p.used + Cost[<<p.stage, item.id>>]
      BY DEF Took
    <2> HIDE DEF item
    <2>3. q.skipped \in Seq(Section \X (1..MaxFound))
      BY <1>1, <1>8, <2>1
    <2>4. q.used \in Nat
      BY <1>1, <1>3, <2>2
    <2>5. QED
      BY <2>3, <2>4
  <1>10. /\ q.candidates \in Seq(PackItems) /\ q.symbols \in Seq(PackItems)
         /\ q.relations \in Seq(PackItems)
    BY <1>6 DEF Sec, Section
  <1>11. /\ q = [stage |-> p.stage, todo |-> Tail(p.todo), candidates |-> q.candidates,
                 symbols |-> q.symbols, relations |-> q.relations, budget |-> p.budget,
                 used |-> q.used, skipped |-> q.skipped]
    BY DEF Took
  <1>12. q.stage = p.stage /\ q.todo = Tail(p.todo) /\ q.budget = p.budget
    BY <1>11
  <1>13. q \in PackState
    <2>1. /\ q.stage \in Stage \cup {"none", "asked"} /\ q.todo \in Seq(PackItems)
          /\ q.budget \in Nat
      BY <1>1, <1>2, <1>12 DEF Section, Stage
    <2>2. q = [stage |-> q.stage, todo |-> q.todo, candidates |-> q.candidates,
               symbols |-> q.symbols, relations |-> q.relations, budget |-> q.budget,
               used |-> q.used, skipped |-> q.skipped]
      BY <1>11, <1>12
    <2> HIDE DEF item
    <2>3. QED
      BY <1>9, <1>10, <2>1, <2>2 DEF PackState
  <1>14. QED
    BY <1>1, <1>2, <1>3, <1>4, <1>6, <1>12, <1>13 DEF TookTypes

\* tryAdd leaves each section with its items, skipped ones and those still to come.
LEMMA TookSection ==
    ASSUME NEW h, NEW b, NEW p, NEW q, PackOK(h, b, p), p.todo # <<>>, Took(p, q), NEW s \in Section
    PROVE  SectionOK(s, h, b, q)
  <1> DEFINE item == Head(p.todo)
  <1>t. TookTypes(p, q)
    BY TookType
  <1>1. /\ q \in PackState /\ p.stage \in Section /\ q.stage = p.stage
        /\ item \in PackItems /\ q.todo = Tail(p.todo)
        /\ \A r \in Section : Sec(p, r) \in Seq(PackItems) /\ Sec(q, r) \in Seq(PackItems)
        /\ p.todo \in Seq(PackItems) /\ p.skipped \in Seq(Section \X (1..MaxFound))
    BY <1>t DEF TookTypes
  <1> DEFINE A == ToSet(Sec(p, s))
             T == ToSet(Tail(p.todo))
  <1>2. SectionOK(s, h, b, p)
    BY DEF PackOK
  <1>3. Begun(s, q) <=> Begun(s, p)
    BY <1>1 DEF Begun
  <1>4. /\ \/ q.skipped = Append(p.skipped, <<p.stage, item.id>>) /\ Sec(q, s) = Sec(p, s)
           \/ /\ q.skipped = p.skipped
              /\ Sec(q, s) = IF s = p.stage THEN Append(Sec(p, s), item) ELSE Sec(p, s)
        /\ s # p.stage => Sec(q, s) = Sec(p, s)
    BY DEF Took
  <1>5. /\ q.skipped = Append(p.skipped, <<p.stage, item.id>>) =>
            Skips(q, s) = Skips(p, s) \cup (IF s = p.stage THEN {item.id} ELSE {})
        /\ q.skipped = p.skipped => Skips(q, s) = Skips(p, s)
    <2> DEFINE y == <<p.stage, item.id>>
    <2>1. y \in Section \X (1..MaxFound) /\ y[1] = p.stage /\ y[2] = item.id
      BY <1>1 DEF PackItems
    <2> HIDE DEF y, item
    <2>2. ToSet(Append(p.skipped, y)) = ToSet(p.skipped) \cup {y}
      <3> DEFINE E == Section \X (1..MaxFound)
                 z == p.skipped
      <3>1. z \in Seq(E) /\ y \in E
        BY <1>1, <2>1
      <3> HIDE DEF E, z
      <3>2. ToSet(Append(z, y)) = ToSet(z) \cup {y}
        BY <3>1, PutOK
      <3>3. QED
        BY <3>2 DEF z
    <2>3. q.skipped = Append(p.skipped, y) =>
             Skips(q, s) = Skips(p, s) \cup (IF s = p.stage THEN {item.id} ELSE {})
      BY <2>1, <2>2 DEF Skips
    <2>4. QED
      BY <2>3 DEF Skips, y
  <1>6. Begun(s, p) => Off(s, h, b, q) = Off(s, h, b, p)
    <2>1. CASE s = "relations" /\ Begun(s, p)
      <3>1. p.stage # "symbols"
        BY <2>1 DEF Begun
      <3>2. Sec(q, "symbols") = Sec(p, "symbols")
        BY <3>1 DEF Took, Section
      <3>3. q.symbols = p.symbols
        BY <3>2 DEF Sec
      <3>4. QED
        BY <3>3 DEF Off
    <2>2. CASE s # "relations"
      BY <2>2 DEF Off, Section
    <2>3. QED
      BY <2>1, <2>2
  <1>7. ToSet(p.todo) = {item} \cup T
    BY <1>1, TakeOK
  <1> HIDE DEF item
  <1>8. CASE ~Begun(s, p)
    <2>1. s # p.stage
      BY <1>8, <1>1 DEF Begun, Section, Stage
    <2>2. Sec(q, s) = <<>> /\ Skips(q, s) = {}
      BY <1>2, <1>4, <1>5, <1>8, <2>1 DEF SectionOK
    <2>3. QED
      BY <1>3, <1>8, <2>2 DEF SectionOK
  <1>9. CASE Begun(s, p) /\ s # p.stage
    <2>1. RestOf(q, s) = RestOf(p, s) /\ Sec(q, s) = Sec(p, s) /\ Skips(q, s) = Skips(p, s)
      BY <1>1, <1>4, <1>5, <1>9 DEF RestOf
    <2>2. QED
      BY <1>2, <1>3, <1>6, <1>9, <2>1 DEF SectionOK
  <1>10. CASE Begun(s, p) /\ s = p.stage
    <2> DEFINE O == Off(s, h, b, p)
    <2>1. RestOf(p, s) = p.todo /\ RestOf(q, s) = Tail(p.todo)
      BY <1>1, <1>10 DEF RestOf
    <2>2. /\ A \cup ToSet(p.todo) \subseteq O
          /\ {x.id : x \in O \ (A \cup ToSet(p.todo))} = Skips(p, s)
          /\ Apart(Sec(p, s), p.todo)
      BY <1>2, <1>10, <2>1 DEF SectionOK
    <2>3. /\ Apart(Sec(p, s), Tail(p.todo)) /\ Apart(Append(Sec(p, s), item), Tail(p.todo))
          /\ item \notin A /\ item \notin T
      BY <1>1, <2>2, TakeApart DEF item
    <2>4. ToSet(Append(Sec(p, s), item)) = A \cup {item}
      BY <1>1, PutOK
    <2>5. Off(s, h, b, q) = O
      BY <1>6, <1>10
    <2>6. item \in O /\ T \subseteq O
      BY <1>7, <2>2
    <2> HIDE DEF A, T, O
    <2>7. CASE q.skipped = Append(p.skipped, <<p.stage, item.id>>) /\ Sec(q, s) = Sec(p, s)
      <3>1. O \ (A \cup T) = (O \ (A \cup ToSet(p.todo))) \cup {item}
        BY <1>7, <2>2, <2>3, <2>6
      <3>2. {x.id : x \in O \ (A \cup T)} = {x.id : x \in O \ (A \cup ToSet(p.todo))} \cup {item.id}
        BY <3>1
      <3>3. {x.id : x \in O \ (A \cup T)} = Skips(q, s)
        BY <3>2, <2>2, <2>7, <1>5, <1>10
      <3>4. A \cup T \subseteq O
        BY <2>2, <2>6
      <3>5. QED
        BY <1>3, <1>10, <2>1, <2>3, <2>5, <2>7, <3>3, <3>4 DEF SectionOK, A, T
    <2>8. CASE q.skipped = p.skipped /\ Sec(q, s) = Append(Sec(p, s), item)
      <3>1. ToSet(Sec(q, s)) \cup T = A \cup ToSet(p.todo)
        BY <1>7, <2>4, <2>8
      <3>2. Skips(q, s) = Skips(p, s)
        BY <1>5, <2>8
      <3>3. QED
        BY <1>3, <1>10, <2>1, <2>2, <2>3, <2>5, <2>8, <3>1, <3>2 DEF SectionOK, T
    <2>9. QED
      BY <1>4, <1>10, <2>7, <2>8
  <1>11. QED
    BY <1>8, <1>9, <1>10

\* tryAdd stays within the budget, and skips only what would not have fitted.
LEMMA TookBudget ==
    ASSUME NEW h, NEW b, NEW p, NEW q, PackOK(h, b, p), p.todo # <<>>, Took(p, q)
    PROVE  BudgetOK(q)
  <1> DEFINE item == Head(p.todo)
             cost == Cost[<<p.stage, item.id>>]
             n == Len(p.skipped)
             y == <<p.stage, item.id>>
  <1>t. TookTypes(p, q)
    BY TookType
  <1>1. /\ q \in PackState /\ p.stage \in Section /\ q.stage = p.stage
        /\ item \in PackItems /\ cost \in Nat /\ q.budget = p.budget
        /\ \A r \in Section : Sec(p, r) \in Seq(PackItems) /\ Sec(q, r) \in Seq(PackItems)
        /\ p.used \in Nat /\ p.budget \in Nat
        /\ p.skipped \in Seq(Section \X (1..MaxFound))
    BY <1>t DEF TookTypes
  <1>2. /\ p.used = AllCosts(p) /\ p.used <= p.budget
        /\ \A i \in 1..n : p.used + Cost[<<p.skipped[i][1], p.skipped[i][2]>>] > p.budget
    BY DEF PackOK, BudgetOK
  <1>3. \A i \in 1..n : Cost[<<p.skipped[i][1], p.skipped[i][2]>>] \in Nat
    <2> SUFFICES ASSUME NEW i \in 1..n PROVE Cost[<<p.skipped[i][1], p.skipped[i][2]>>] \in Nat
      OBVIOUS
    <2>1. p.skipped[i] \in Section \X (1..MaxFound)
      BY <1>1
    <2>2. p.skipped[i][1] \in Stage /\ p.skipped[i][2] \in 1..MaxFound
      BY <2>1 DEF Section, Stage
    <2>3. QED
      BY <2>2, PackAssumption
  <1>4. CASE /\ p.used + cost > p.budget /\ q.used = p.used
             /\ \A s \in Section : Sec(q, s) = Sec(p, s)
             /\ q.skipped = Append(p.skipped, y)
    <2>1. AllCosts(q) = AllCosts(p)
      <3>1. q.candidates = p.candidates /\ q.symbols = p.symbols /\ q.relations = p.relations
        BY <1>4 DEF Sec, Section
      <3>2. QED
        BY <3>1 DEF AllCosts
    <2>2. y \in Section \X (1..MaxFound) /\ y[1] = p.stage /\ y[2] = item.id
      BY <1>1 DEF PackItems
    <2> HIDE DEF y, item
    <2>3. /\ Len(q.skipped) = n + 1
          /\ \A i \in 1..(n + 1) : IF i = n + 1 THEN q.skipped[i] = y
                                   ELSE i \in 1..n /\ q.skipped[i] = p.skipped[i]
      BY <1>1, <1>4, <2>2, PutOK
    <2>4. ASSUME NEW i \in 1..(n + 1)
          PROVE  q.used + Cost[<<q.skipped[i][1], q.skipped[i][2]>>] > q.budget
      <3>1. CASE i = n + 1
        <4>1. <<q.skipped[i][1], q.skipped[i][2]>> = <<p.stage, item.id>>
          BY <2>2, <2>3, <3>1
        <4>2. QED
          BY <4>1, <1>1, <1>4
      <3>2. CASE i # n + 1
        BY <1>1, <1>2, <1>4, <2>3, <3>2
      <3>3. QED
        BY <3>1, <3>2
    <2>5. QED
      BY <1>1, <1>2, <1>4, <2>1, <2>3, <2>4 DEF BudgetOK
  <1>5. CASE /\ ~(p.used + cost > p.budget) /\ q.used = p.used + cost
             /\ \A s \in Section : Sec(q, s) = IF s = p.stage THEN Append(Sec(p, s), item)
                                                              ELSE Sec(p, s)
             /\ q.skipped = p.skipped
    <2> DEFINE C(z, s) == CostSum(s, ToSet(Sec(z, s)))
    <2>1. \A s \in Section : C(p, s) \in Nat
      BY <1>1, SeqSet, CostSums
    <2>2. C(q, p.stage) = C(p, p.stage) + cost
      <3> DEFINE A == ToSet(Sec(p, p.stage))
      <3>1. A \in SUBSET PackItems /\ IsFiniteSet(A)
        BY <1>1, SeqSet
      <3>2. item \in PackItems \ A
        <4>1. SectionOK(p.stage, h, b, p) /\ Begun(p.stage, p) /\ RestOf(p, p.stage) = p.todo
          BY <1>1 DEF PackOK, Begun, Section, Stage, RestOf
        <4>2. Apart(Sec(p, p.stage), p.todo) /\ p.todo \in Seq(PackItems)
          BY <4>1, <1>1, <1>t DEF SectionOK, TookTypes
        <4>3. QED
          BY <1>1, <4>2, TakeApart
      <3>3. ToSet(Sec(q, p.stage)) = A \cup {item}
        <4>1. Sec(q, p.stage) = Append(Sec(p, p.stage), item)
          BY <1>1, <1>5
        <4>2. QED
          BY <4>1, <1>1, PutOK
      <3> HIDE DEF A, item
      <3>4. CostSum(p.stage, A \cup {item}) = CostSum(p.stage, A) + cost
        BY <1>1, <3>1, <3>2, CostSums
      <3>5. QED
        BY <3>3, <3>4 DEF A
    <2>3. \A s \in Section : s # p.stage => C(q, s) = C(p, s)
      BY <1>5
    <2>4. AllCosts(p) = C(p, "candidates") + C(p, "symbols") + C(p, "relations")
          /\ AllCosts(q) = C(q, "candidates") + C(q, "symbols") + C(q, "relations")
      BY DEF AllCosts, Sec
    <2> HIDE DEF C, cost
    <2>5. AllCosts(q) = AllCosts(p) + cost
      <3>1. "candidates" \in Section /\ "symbols" \in Section /\ "relations" \in Section
        BY DEF Section
      <3> DEFINE pc == C(p, "candidates")
                 ps == C(p, "symbols")
                 pr == C(p, "relations")
                 qc == C(q, "candidates")
                 qs == C(q, "symbols")
                 qr == C(q, "relations")
      <3>n. pc \in Nat /\ ps \in Nat /\ pr \in Nat /\ cost \in Nat
        BY <1>1, <2>1, <3>1
      <3>c. AllCosts(p) = pc + ps + pr /\ AllCosts(q) = qc + qs + qr
        BY <2>4
      <3>2. CASE p.stage = "candidates"
        <4>1. qc = pc + cost /\ qs = ps /\ qr = pr
          BY <2>2, <2>3, <3>1, <3>2
        <4> HIDE DEF pc, ps, pr, qc, qs, qr
        <4>2. QED
          BY <3>n, <3>c, <4>1
      <3>3. CASE p.stage = "symbols"
        <4>1. qc = pc /\ qs = ps + cost /\ qr = pr
          BY <2>2, <2>3, <3>1, <3>3
        <4> HIDE DEF pc, ps, pr, qc, qs, qr
        <4>2. QED
          BY <3>n, <3>c, <4>1
      <3>4. CASE p.stage = "relations"
        <4>1. qc = pc /\ qs = ps /\ qr = pr + cost
          BY <2>2, <2>3, <3>1, <3>4
        <4> HIDE DEF pc, ps, pr, qc, qs, qr
        <4>2. QED
          BY <3>n, <3>c, <4>1
      <3>5. QED
        BY <1>1, <3>2, <3>3, <3>4 DEF Section
    <2>6. \A i \in 1..n : q.used + Cost[<<p.skipped[i][1], p.skipped[i][2]>>] > p.budget
      <3> SUFFICES ASSUME NEW i \in 1..n
                   PROVE  q.used + Cost[<<p.skipped[i][1], p.skipped[i][2]>>] > p.budget
        OBVIOUS
      <3> DEFINE c == Cost[<<p.skipped[i][1], p.skipped[i][2]>>]
      <3>1. c \in Nat /\ p.used + c > p.budget
        BY <1>2, <1>3
      <3> HIDE DEF c
      <3>u. q.used = p.used + cost /\ cost \in Nat /\ p.used \in Nat /\ p.budget \in Nat
        BY <1>1, <1>5
      <3>2. q.used + c > p.budget
        BY <3>1, <3>u
      <3>3. QED
        BY <3>2 DEF c
    <2>7. q.used = AllCosts(q) /\ q.used <= q.budget
      BY <1>1, <1>2, <1>5, <2>5
    <2>8. QED
      BY <1>1, <1>5, <2>6, <2>7 DEF BudgetOK
  <1>6. QED
    BY <1>4, <1>5 DEF Took

ItemsOK(h, b) == /\ h \in Seq(PackItems) /\ b \in Seq(PackItems)
                 /\ Distinct(h) /\ Distinct(b) /\ Rising(h)

\* What mergeOverlapping returns is a section's items, the maximal spans of the hits.
LEMMA MergedSection ==
    ASSUME NEW h \in Seq(PackItems), Distinct(h)
    PROVE  /\ Merged(h) \in Seq(PackItems) /\ ToSet(Merged(h)) = Spans(h)
           /\ Apart(<<>>, Merged(h)) /\ (Rising(h) => RisingOn(<<>>, Merged(h)))
  <1> DEFINE out == Merged(h)
             n == Len(out)
             N == Len(h)
  <1>1. h \in Seq(Items) /\ N \in Nat /\ \A i \in 1..N : h[i] \in PackItems
    <2>1. PackItems \subseteq Items
      BY DEF PackItems
    <2>2. QED
      BY <2>1
  <1>2. /\ ToSet(out) = Spans(h)
        /\ \A p \in 1..n : \E i \in 1..N : out[p].id = h[i].id
        /\ (\A i, j \in 1..N : h[i].id = h[j].id => i = j)
           => \A p, q \in 1..n : out[p].id = out[q].id => p = q
        /\ (\A i, j \in 1..N : i < j => h[i].id < h[j].id)
           => \A p, q \in 1..n : p < q => out[p].id < out[q].id
    BY <1>1, MergedIsSpans
  <1>3. out \in Seq(Items)
    BY <1>1, MergedOK
  <1>4. n \in Nat /\ DOMAIN out = 1..n /\ \A p \in 1..n : out[p] \in Items
    BY <1>3
  <1>5. \A p \in 1..n : out[p] \in PackItems
    BY <1>1, <1>2, <1>4 DEF PackItems
  <1>s. out = [p \in 1..n |-> out[p]]
    BY <1>3
  <1> HIDE DEF out, n, N
  <1>6. out \in Seq(PackItems)
    <2>1. \A f : n \in Nat /\ f = [p \in 1..n |-> f[p]] /\ (\A p \in 1..n : f[p] \in PackItems)
                 => f \in Seq(PackItems)
      OBVIOUS
    <2>2. QED
      BY <1>4, <1>5, <1>s, <2>1
  <1>7. Distinct(out)
    BY <1>2 DEF Distinct, N, n
  <1>8. Rising(h) => Rising(out)
    BY <1>2 DEF Rising, N, n
  <1>9. Len(<<>>) = 0 /\ 1..0 = {}
    BY Intervals
  <1>10. Apart(<<>>, out)
    BY <1>7, <1>9 DEF Apart, Distinct
  <1>11. Rising(h) => RisingOn(<<>>, out)
    BY <1>8, <1>9 DEF RisingOn, Rising
  <1>12. QED
    BY <1>2, <1>6, <1>10, <1>11 DEF out

\* A stage is over, and the next one begins.
Went(h, b, p, q) ==
    /\ p.todo = <<>>
    /\ q = [stage |-> q.stage, todo |-> q.todo, candidates |-> p.candidates,
            symbols |-> p.symbols, relations |-> p.relations, budget |-> p.budget,
            used |-> p.used, skipped |-> p.skipped]
    /\ \/ p.stage = "asked" /\ q.stage = "candidates" /\ q.todo = Merged(h)
       \/ p.stage = "candidates" /\ q.stage = "symbols" /\ q.todo = Merged(b)
       \/ p.stage = "symbols" /\ q.stage = "relations" /\ q.todo = p.symbols
       \/ p.stage = "relations" /\ q.stage = "done" /\ q.todo = <<>>

\* Going on to the next section keeps what is in the pack.
LEMMA WentOK ==
    ASSUME NEW h, NEW b, NEW p, NEW q, ItemsOK(h, b), PackOK(h, b, p), Went(h, b, p, q)
    PROVE  PackOK(h, b, q)
  <1>1. /\ q.candidates = p.candidates /\ q.symbols = p.symbols /\ q.relations = p.relations
        /\ q.budget = p.budget /\ q.used = p.used /\ q.skipped = p.skipped
    BY DEF Went
  <1>2. /\ p \in PackState /\ p.todo = <<>> /\ p.symbols \in Seq(PackItems)
        /\ \A s \in Section : SectionOK(s, h, b, p)
        /\ RisingOn(p.candidates, RestOf(p, "candidates")) /\ BudgetOK(p)
    BY DEF Went, PackOK, PackState
  <1>3. \A s : RestOf(p, s) = <<>>
    BY <1>2 DEF RestOf
  <1>4. \A s : Sec(q, s) = Sec(p, s) /\ Skips(q, s) = Skips(p, s)
            /\ Off(s, h, b, q) = Off(s, h, b, p)
    BY <1>1 DEF Sec, Skips, Off
  <1>5. /\ Merged(h) \in Seq(PackItems) /\ ToSet(Merged(h)) = Spans(h)
        /\ Apart(<<>>, Merged(h)) /\ RisingOn(<<>>, Merged(h))
        /\ Merged(b) \in Seq(PackItems) /\ ToSet(Merged(b)) = Spans(b)
        /\ Apart(<<>>, Merged(b))
    BY MergedSection DEF ItemsOK
  <1>e. <<>> \in Seq(PackItems) /\ Len(<<>>) = 0 /\ 1..0 = {} /\ ToSet(<<>>) = {}
    BY Intervals DEF ToSet
  <1>6. p.stage = "symbols" => Apart(<<>>, p.symbols)
    <2> SUFFICES ASSUME p.stage = "symbols" PROVE Apart(<<>>, p.symbols)
      OBVIOUS
    <2>1. Begun("symbols", p) /\ "symbols" \in Section /\ Sec(p, "symbols") = p.symbols
      BY DEF Begun, Section, Sec
    <2>2. Apart(p.symbols, RestOf(p, "symbols"))
      BY <1>2, <2>1 DEF SectionOK
    <2>3. QED
      BY <2>2, <1>e DEF Apart, Distinct
  <1>7. q \in PackState /\ (q.stage \notin Section => q.todo = <<>>)
    <2>1. q.todo \in Seq(PackItems)
      BY <1>2, <1>5, <1>e DEF Went
    <2>2. q.stage \in Stage \cup {"none", "asked"} /\ (q.stage \notin Section => q.todo = <<>>)
      BY DEF Went, Stage, Section
    <2>3. QED
      BY <1>2, <2>1, <2>2 DEF PackState, Went
  <1>8. ASSUME NEW s \in Section, s = q.stage PROVE SectionOK(s, h, b, q)
    <2>1. ~Begun(s, p) /\ Begun(s, q) /\ RestOf(q, s) = q.todo
      BY <1>8 DEF Went, Begun, Section, Stage, RestOf
    <2>2. Sec(q, s) = <<>> /\ Skips(q, s) = {}
      BY <1>2, <1>4, <2>1 DEF SectionOK
    <2>3. ToSet(q.todo) = Off(s, h, b, q) /\ Apart(<<>>, q.todo)
      <3>1. CASE p.stage = "asked" /\ q.stage = "candidates" /\ q.todo = Merged(h)
        BY <3>1, <1>5, <1>8 DEF Off
      <3>2. CASE p.stage = "candidates" /\ q.stage = "symbols" /\ q.todo = Merged(b)
        BY <3>2, <1>5, <1>8 DEF Off
      <3>3. CASE p.stage = "symbols" /\ q.stage = "relations" /\ q.todo = p.symbols
        BY <3>3, <1>1, <1>6, <1>8 DEF Off
      <3>4. CASE p.stage = "relations" /\ q.stage = "done" /\ q.todo = <<>>
        BY <3>4, <1>8 DEF Section
      <3>5. QED
        BY <3>1, <3>2, <3>3, <3>4 DEF Went
    <2> DEFINE O == Off(s, h, b, q)
    <2> HIDE DEF O
    <2>4. /\ ToSet(<<>>) \cup ToSet(q.todo) \subseteq O
          /\ {x.id : x \in O \ (ToSet(<<>>) \cup ToSet(q.todo))} = {}
      BY <2>3, <1>e DEF O
    <2>5. QED
      BY <2>1, <2>2, <2>3, <2>4 DEF SectionOK, O
  <1>9. ASSUME NEW s \in Section, s # q.stage PROVE SectionOK(s, h, b, q)
    <2>1. (Begun(s, q) <=> Begun(s, p)) /\ RestOf(q, s) = <<>>
      BY <1>9 DEF Went, Begun, Section, Stage, RestOf
    <2>2. SectionOK(s, h, b, p)
      BY <1>2
    <2>3. QED
      BY <1>3, <1>4, <2>1, <2>2 DEF SectionOK
  <1>10. RisingOn(q.candidates, RestOf(q, "candidates"))
    <2>1. CASE q.stage = "candidates"
      <3>1. ~Begun("candidates", p) /\ "candidates" \in Section
        BY <2>1 DEF Went, Begun, Section, Stage
      <3>2. p.candidates = <<>>
        BY <3>1, <1>2 DEF SectionOK, Sec
      <3>3. RestOf(q, "candidates") = Merged(h)
        BY <2>1 DEF Went, RestOf
      <3>4. QED
        BY <3>2, <3>3, <1>1, <1>5
    <2>2. CASE q.stage # "candidates"
      <3>1. RestOf(q, "candidates") = <<>>
        BY <2>2 DEF RestOf
      <3>2. QED
        BY <3>1, <1>1, <1>2, <1>3
    <2>3. QED
      BY <2>1, <2>2
  <1>11. BudgetOK(q)
    BY <1>1, <1>2 DEF BudgetOK, AllCosts
  <1>12. QED
    BY <1>7, <1>8, <1>9, <1>10, <1>11 DEF PackOK

\* tryAdd keeps what is in the pack.
LEMMA TookOK ==
    ASSUME NEW h, NEW b, NEW p, NEW q, PackOK(h, b, p), p.todo # <<>>, Took(p, q)
    PROVE  PackOK(h, b, q)
  <1>t. TookTypes(p, q)
    BY TookType
  <1>1. q \in PackState /\ q.stage = p.stage /\ p.stage \in Section /\ q.todo = Tail(p.todo)
        /\ p.todo \in Seq(PackItems)
    BY <1>t DEF TookTypes
  <1>2. \A s \in Section : SectionOK(s, h, b, q)
    BY TookSection
  <1>3. BudgetOK(q)
    BY TookBudget
  <1>4. RisingOn(q.candidates, RestOf(q, "candidates"))
    <2>1. RisingOn(p.candidates, RestOf(p, "candidates")) /\ p.candidates \in Seq(PackItems)
      BY DEF PackOK, PackState
    <2>2. CASE p.stage = "candidates"
      <3>1. q.candidates = p.candidates \/ q.candidates = Append(p.candidates, Head(p.todo))
        BY <2>2 DEF Took, Sec, Section
      <3>2. RestOf(p, "candidates") = p.todo /\ RestOf(q, "candidates") = Tail(p.todo)
        BY <2>2, <1>1 DEF RestOf
      <3>3. QED
        BY <2>1, <3>1, <3>2, <1>1, TakeApart
    <2>3. CASE p.stage # "candidates"
      <3>1. q.candidates = p.candidates
        BY <2>3 DEF Took, Sec, Section
      <3>2. RestOf(p, "candidates") = <<>> /\ RestOf(q, "candidates") = <<>>
        BY <2>3, <1>1 DEF RestOf
      <3>3. QED
        BY <2>1, <3>1, <3>2
    <2>4. QED
      BY <2>2, <2>3
  <1>5. QED
    BY <1>1, <1>2, <1>3, <1>4 DEF PackOK

DeclOK ==
    /\ decl \in Seq(DeclLines) /\ Len(decl) <= MaxFound
    /\ selected \in Seq(1..Len(decl))
    /\ \A i, j \in 1..Len(selected) : selected[i] = selected[j] => i = j

\* The hits and the bodies of a declaration are items.
LEMMA ItemsAre == ASSUME DeclOK PROVE ItemsOK(Hits, Bodies)
  <1> DEFINE n == Len(decl)
             m == Len(selected)
  <1>1. /\ n \in Nat /\ DOMAIN decl = 1..n /\ n <= MaxFound /\ MaxFound \in Nat
        /\ m \in Nat /\ DOMAIN selected = 1..m
    BY PackAssumption DEF DeclOK
  <1>2. \A d \in 1..n : decl[d] \in DeclLines
    BY DEF DeclOK
  <1>3. \A d \in 1..n : Item(d) \in PackItems /\ Item(d).id = d
    <2> SUFFICES ASSUME NEW d \in 1..n PROVE Item(d) \in PackItems /\ Item(d).id = d
      OBVIOUS
    <2>1. decl[d].first \in Nat /\ decl[d].last \in Nat /\ decl[d].first <= decl[d].last
      BY <1>2, PackAssumption
    <2>2. decl[d].path \in Paths
      BY <1>2 DEF Paths
    <2>3. d \in Nat /\ d \in 1..MaxFound
      BY <1>1
    <2>4. QED
      BY <2>1, <2>2, <2>3 DEF Item, PackItems, Items
  <1>4. \A i \in 1..m : selected[i] \in 1..n
    BY DEF DeclOK
  <1> HIDE DEF n, m
  <1>5. Hits = [d \in 1..n |-> Item(d)] /\ Bodies = [i \in 1..m |-> Item(selected[i])]
    BY <1>1 DEF Hits, Bodies, n
  <1>6. Hits \in Seq(PackItems) /\ Len(Hits) = n /\ \A d \in 1..n : Hits[d].id = d
    BY <1>1, <1>3, <1>5
  <1>7. Bodies \in Seq(PackItems) /\ Len(Bodies) = m /\ \A i \in 1..m : Bodies[i].id = selected[i]
    <2>1. \A i \in 1..m : Item(selected[i]) \in PackItems /\ Item(selected[i]).id = selected[i]
      BY <1>3, <1>4
    <2>2. QED
      BY <2>1, <1>1, <1>5
  <1>8. Distinct(Hits) /\ Rising(Hits)
    BY <1>6 DEF Distinct, Rising
  <1>9. Distinct(Bodies)
    BY <1>7 DEF Distinct, DeclOK, m
  <1>10. QED
    BY <1>6, <1>7, <1>8, <1>9 DEF ItemsOK

PackInv ==
    /\ DeclOK /\ PackOK(Hits, Bodies, pack)
    /\ pack.stage = "none" => pack.skipped = <<>> /\ pack.used = 0

\* Nothing is packed yet.
LEMMA Unpacked ==
    ASSUME NEW h, NEW b, NEW p, p \in PackState, p.stage \in {"none", "asked"}, p.todo = <<>>,
           p.candidates = <<>>, p.symbols = <<>>, p.relations = <<>>, p.used = 0, p.skipped = <<>>
    PROVE  PackOK(h, b, p)
  <1>1. ToSet(<<>>) = {} /\ Len(<<>>) = 0 /\ 1..0 = {}
    BY Intervals DEF ToSet
  <1>2. \A s \in Section : SectionOK(s, h, b, p)
    <2> SUFFICES ASSUME NEW s \in Section PROVE SectionOK(s, h, b, p)
      OBVIOUS
    <2>1. ~Begun(s, p)
      BY DEF Begun, Section, Stage
    <2>2. Sec(p, s) = <<>> /\ Skips(p, s) = {}
      BY <1>1 DEF Sec, Skips
    <2>3. QED
      BY <2>1, <2>2 DEF SectionOK
  <1>3. RisingOn(p.candidates, RestOf(p, "candidates"))
    BY <1>1 DEF RisingOn, Rising, RestOf
  <1>4. AllCosts(p) = 0
    <2>1. {} \in SUBSET PackItems /\ IsFiniteSet({})
      BY FS_EmptySet
    <2>2. \A s \in Section : CostSum(s, {}) = 0
      BY <2>1, CostSums
    <2>3. /\ CostSum("candidates", {}) = 0 /\ CostSum("symbols", {}) = 0
          /\ CostSum("relations", {}) = 0
      BY <2>2 DEF Section
    <2>4. /\ ToSet(p.candidates) = {} /\ ToSet(p.symbols) = {} /\ ToSet(p.relations) = {}
      BY <1>1
    <2>5. /\ CostSum("candidates", ToSet(p.candidates)) = 0
          /\ CostSum("symbols", ToSet(p.symbols)) = 0
          /\ CostSum("relations", ToSet(p.relations)) = 0
      BY <2>3, <2>4, Zenon
    <2>6. 0 + 0 + 0 = 0
      OBVIOUS
    <2>7. QED
      BY <2>5, <2>6, Zenon DEF AllCosts
  <1>5. BudgetOK(p)
    BY <1>1, <1>4 DEF BudgetOK, PackState
  <1>6. QED
    BY <1>2, <1>3, <1>5 DEF PackOK, Section

\* The empty pack is one.
LEMMA PackStart == ASSUME PackInit PROVE PackInv
  <1>1. DeclOK
    <2>1. <<>> \in Seq(DeclLines) /\ Len(<<>>) = 0 /\ 1..0 = {} /\ <<>> \in Seq(1..Len(<<>>))
      BY Intervals
    <2>2. QED
      BY <2>1, PackAssumption DEF DeclOK, PackInit
  <1>2. pack \in PackState
    <2>1. <<>> \in Seq(PackItems) /\ <<>> \in Seq(Section \X (1..MaxFound))
      OBVIOUS
    <2>2. QED
      BY <2>1 DEF PackInit, PackState
  <1>3. PackOK(Hits, Bodies, pack)
    BY <1>2, Unpacked DEF PackInit
  <1>4. QED
    BY <1>1, <1>3 DEF PackInv, PackInit

\* A question begins with the merged candidates.
LEMMA PackAsked == ASSUME PackInv, AskPack PROVE PackInv'
  <1>1. pack \in PackState /\ pack.stage = "none" /\ pack.todo = <<>> /\ pack.skipped = <<>>
        /\ pack.used = 0 /\ \A s \in Section : SectionOK(s, Hits, Bodies, pack)
    BY DEF PackInv, PackOK, AskPack, Section
  <1>2. pack.candidates = <<>> /\ pack.symbols = <<>> /\ pack.relations = <<>>
    <2>1. \A s \in Section : ~Begun(s, pack)
      BY <1>1 DEF Begun, Stage, Section
    <2>2. \A s \in Section : Sec(pack, s) = <<>>
      BY <1>1, <2>1 DEF SectionOK
    <2>3. QED
      BY <2>2 DEF Sec, Section
  <1>3. PICK b \in 0..MaxCost : pack' = [pack EXCEPT !.stage = "asked", !.budget = b]
    BY DEF AskPack
  <1>4. /\ pack' \in PackState /\ pack'.stage = "asked" /\ pack'.todo = <<>>
        /\ pack'.candidates = <<>> /\ pack'.symbols = <<>> /\ pack'.relations = <<>>
        /\ pack'.used = 0 /\ pack'.skipped = <<>>
    <2>1. b \in Nat
      BY PackAssumption
    <2>2. QED
      BY <1>1, <1>2, <1>3, <2>1 DEF PackState
  <1>5. DeclOK'
    <2>1. PICK n \in 0..MaxFound : decl' \in [1..n -> DeclLines]
      BY DEF AskPack
    <2>2. n \in Nat /\ n <= MaxFound
      BY PackAssumption
    <2>3. decl' \in Seq(DeclLines) /\ Len(decl') = n /\ DOMAIN decl' = 1..n
      BY <2>1, <2>2
    <2>4. PICK k \in 0..2 : selected' \in [1..k -> DOMAIN decl']
      BY DEF AskPack
    <2>5. selected' \in Seq(1..n) /\ DOMAIN selected' = 1..Len(selected')
      BY <2>3, <2>4
    <2>6. \A i, j \in DOMAIN selected' : selected'[i] = selected'[j] => i = j
      BY DEF AskPack
    <2>7. QED
      BY <2>2, <2>3, <2>5, <2>6 DEF DeclOK
  <1>6. PackOK(Hits', Bodies', pack')
    BY <1>4, Unpacked
  <1>7. QED
    BY <1>4, <1>5, <1>6 DEF PackInv

\* A step that leaves the declarations leaves the hits and the bodies.
LEMMA ItemsKept == ASSUME decl' = decl, selected' = selected
                   PROVE  Hits' = Hits /\ Bodies' = Bodies /\ DeclOK' = DeclOK
  BY DEF Hits, Bodies, Item, DeclOK

\* What TryAdd does to the record.
LEMMA SkippedAs ==
    ASSUME NEW p \in PackState, NEW t, NEW y, NEW q,
           q = [[p EXCEPT !.todo = t] EXCEPT !.skipped = y]
    PROVE  q = [stage |-> p.stage, todo |-> t, candidates |-> p.candidates,
                symbols |-> p.symbols, relations |-> p.relations, budget |-> p.budget,
                used |-> p.used, skipped |-> y]
  <1>1. p = [stage |-> p.stage, todo |-> p.todo, candidates |-> p.candidates,
             symbols |-> p.symbols, relations |-> p.relations, budget |-> p.budget,
             used |-> p.used, skipped |-> p.skipped]
    BY DEF PackState
  <1> QED
    BY <1>1

PutsItem(p, q, t, u, x) ==
    /\ q = [stage |-> p.stage, todo |-> t, candidates |-> q.candidates,
            symbols |-> q.symbols, relations |-> q.relations, budget |-> p.budget,
            used |-> u, skipped |-> p.skipped]
    /\ \A s \in Section : Sec(q, s) = IF s = p.stage THEN Append(Sec(p, s), x) ELSE Sec(p, s)

\* The record tryAdd leaves when the item fits.
LEMMA PackedAs ==
    ASSUME NEW p \in PackState, NEW t, NEW u, NEW x, NEW q, p.stage \in Section,
           q = [[p EXCEPT !.todo = t] EXCEPT !.used = u, ![p.stage] = Append(@, x)]
    PROVE  PutsItem(p, q, t, u, x)
  <1>1. p = [stage |-> p.stage, todo |-> p.todo, candidates |-> p.candidates,
             symbols |-> p.symbols, relations |-> p.relations, budget |-> p.budget,
             used |-> p.used, skipped |-> p.skipped]
    BY DEF PackState
  <1> DEFINE r == [stage |-> p.stage, todo |-> t, candidates |-> p.candidates,
                   symbols |-> p.symbols, relations |-> p.relations, budget |-> p.budget,
                   used |-> u, skipped |-> p.skipped]
  <1>2. CASE p.stage = "candidates"
    <2>1. q = [stage |-> p.stage, todo |-> t, candidates |-> Append(p.candidates, x),
               symbols |-> p.symbols, relations |-> p.relations, budget |-> p.budget,
               used |-> u, skipped |-> p.skipped]
      <3>1. q = [[p EXCEPT !.todo = t] EXCEPT !.used = u, !["candidates"] = Append(@, x)]
        BY <1>2
      <3>2. QED
        BY <1>1, <3>1
    <2>2. QED
      BY <1>2, <2>1 DEF Sec, Section, PutsItem
  <1>3. CASE p.stage = "symbols"
    <2>1. q = [stage |-> p.stage, todo |-> t, candidates |-> p.candidates,
               symbols |-> Append(p.symbols, x), relations |-> p.relations, budget |-> p.budget,
               used |-> u, skipped |-> p.skipped]
      <3>1. q = [[p EXCEPT !.todo = t] EXCEPT !.used = u, !["symbols"] = Append(@, x)]
        BY <1>3
      <3>2. QED
        BY <1>1, <3>1
    <2>2. QED
      BY <1>3, <2>1 DEF Sec, Section, PutsItem
  <1>4. CASE p.stage = "relations"
    <2>1. q = [stage |-> p.stage, todo |-> t, candidates |-> p.candidates,
               symbols |-> p.symbols, relations |-> Append(p.relations, x), budget |-> p.budget,
               used |-> u, skipped |-> p.skipped]
      <3>1. q = [[p EXCEPT !.todo = t] EXCEPT !.used = u, !["relations"] = Append(@, x)]
        BY <1>4
      <3>2. QED
        BY <1>1, <3>1
    <2>2. QED
      BY <1>4, <2>1 DEF Sec, Section, PutsItem
  <1>5. QED
    BY <1>2, <1>3, <1>4 DEF Section

\* tryAdd keeps the pack.
LEMMA PackTaken == ASSUME PackInv, TryAdd PROVE PackInv'
  <1> DEFINE item == Head(pack.todo)
             cost == Cost[<<pack.stage, item.id>>]
             rest == [pack EXCEPT !.todo = Tail(@)]
  <1>1. pack \in PackState /\ pack.todo # <<>> /\ DeclOK /\ PackOK(Hits, Bodies, pack)
    BY DEF PackInv, PackOK, TryAdd
  <1>2. pack.stage \in Section
    BY <1>1 DEF PackOK
  <1>3. Hits' = Hits /\ Bodies' = Bodies /\ DeclOK'
    BY <1>1, ItemsKept DEF TryAdd
  <1>4. Took(pack, pack')
    <2>1. CASE pack.used + cost > pack.budget
      <3> DEFINE t == Tail(pack.todo)
                 y == Append(pack.skipped, <<pack.stage, item.id>>)
                 q == pack'
      <3>1. q = [rest EXCEPT !.skipped = Append(@, <<pack.stage, item.id>>)]
        BY <2>1 DEF TryAdd
      <3>2. rest = [pack EXCEPT !.todo = t] /\ rest.skipped = pack.skipped
        BY <1>1 DEF PackState
      <3>3. q = [[pack EXCEPT !.todo = t] EXCEPT !.skipped = y]
        <4> HIDE DEF rest, t
        <4>1. rest.skipped = pack.skipped
          BY <3>2
        <4>2. q = [rest EXCEPT !.skipped = y]
          BY <3>1, <4>1
        <4>3. QED
          BY <3>2, <4>2
      <3> HIDE DEF t, y, q
      <3>4. q = [stage |-> pack.stage, todo |-> t, candidates |-> pack.candidates,
                 symbols |-> pack.symbols, relations |-> pack.relations,
                 budget |-> pack.budget, used |-> pack.used, skipped |-> y]
        BY <1>1, <3>3, SkippedAs
      <3>5. /\ q.used = pack.used /\ q.skipped = y /\ \A s \in Section : Sec(q, s) = Sec(pack, s)
            /\ q = [stage |-> pack.stage, todo |-> t, candidates |-> q.candidates,
                    symbols |-> q.symbols, relations |-> q.relations, budget |-> pack.budget,
                    used |-> q.used, skipped |-> q.skipped]
        BY <3>4 DEF Sec
      <3>6. Took(pack, q)
        BY <2>1, <3>5 DEF Took, t, y
      <3>7. QED
        BY <3>6 DEF q
    <2>2. CASE ~(pack.used + cost > pack.budget)
      <3> DEFINE t == Tail(pack.todo)
                 u == pack.used + cost
                 q == pack'
      <3>1. q = [rest EXCEPT !.used = @ + cost, ![pack.stage] = Append(@, item)]
        BY <2>2 DEF TryAdd
      <3>2. rest = [pack EXCEPT !.todo = t] /\ rest.used = pack.used
        BY <1>1 DEF PackState
      <3>3. q = [[pack EXCEPT !.todo = t] EXCEPT !.used = u, ![pack.stage] = Append(@, item)]
        <4> HIDE DEF rest, t, item
        <4>1. rest.used = pack.used
          BY <3>2
        <4>2. q = [rest EXCEPT !.used = u, ![pack.stage] = Append(@, item)]
          BY <3>1, <4>1
        <4>3. QED
          BY <3>2, <4>2
      <3> HIDE DEF t, u, q, item
      <3>4. /\ q = [stage |-> pack.stage, todo |-> t, candidates |-> q.candidates,
                    symbols |-> q.symbols, relations |-> q.relations, budget |-> pack.budget,
                    used |-> u, skipped |-> pack.skipped]
            /\ \A s \in Section : Sec(q, s) = IF s = pack.stage THEN Append(Sec(pack, s), item)
                                                                ELSE Sec(pack, s)
        <4>1. PutsItem(pack, q, t, u, item)
          BY <1>1, <1>2, <3>3, PackedAs
        <4>2. QED
          BY <4>1 DEF PutsItem
      <3>5. q.used = u /\ q.skipped = pack.skipped
        BY <3>4
      <3>6. Took(pack, q)
        BY <2>2, <3>4, <3>5 DEF Took, t, u, item
      <3>7. QED
        BY <3>6 DEF q
    <2>3. QED
      BY <2>1, <2>2
  <1>5. PackOK(Hits, Bodies, pack')
    BY <1>1, <1>4, TookOK
  <1>6. pack'.stage = pack.stage
    BY <1>4 DEF Took
  <1>7. QED
    BY <1>2, <1>3, <1>5, <1>6 DEF PackInv, Section

\* The next section keeps the pack.
LEMMA PackWent == ASSUME PackInv, NextStage PROVE PackInv'
  <1>1. pack \in PackState /\ pack.todo = <<>> /\ DeclOK /\ PackOK(Hits, Bodies, pack)
        /\ pack.stage \notin {"none", "done"}
    BY DEF PackInv, PackOK, NextStage
  <1>2. Hits' = Hits /\ Bodies' = Bodies /\ DeclOK'
    BY <1>1, ItemsKept DEF NextStage
  <1>p. pack = [stage |-> pack.stage, todo |-> pack.todo, candidates |-> pack.candidates,
                symbols |-> pack.symbols, relations |-> pack.relations,
                budget |-> pack.budget, used |-> pack.used, skipped |-> pack.skipped]
    BY <1>1 DEF PackState
  <1>s. pack.stage \in {"asked", "candidates", "symbols", "relations"}
    BY <1>1 DEF PackState, Stage
  <1>3. Went(Hits, Bodies, pack, pack')
    <2> DEFINE q == pack'
               h == Merged(Hits)
               b == Merged(Bodies)
    <2>1. CASE pack.stage = "asked"
      <3>1. q = [pack EXCEPT !.stage = "candidates", !.todo = h]
        BY <2>1 DEF NextStage
      <3> HIDE DEF q, h
      <3>2. q = [stage |-> "candidates", todo |-> h, candidates |-> pack.candidates,
                 symbols |-> pack.symbols, relations |-> pack.relations,
                 budget |-> pack.budget, used |-> pack.used, skipped |-> pack.skipped]
        BY <3>1, <1>p
      <3>3. QED
        BY <1>1, <2>1, <3>2 DEF Went, h, q
    <2>2. CASE pack.stage = "candidates"
      <3>1. q = [pack EXCEPT !.stage = "symbols", !.todo = b]
        BY <2>2 DEF NextStage
      <3> HIDE DEF q, b
      <3>2. q = [stage |-> "symbols", todo |-> b, candidates |-> pack.candidates,
                 symbols |-> pack.symbols, relations |-> pack.relations,
                 budget |-> pack.budget, used |-> pack.used, skipped |-> pack.skipped]
        BY <3>1, <1>p
      <3>3. QED
        BY <1>1, <2>2, <3>2 DEF Went, b, q
    <2>3. CASE pack.stage = "symbols"
      <3>1. q = [pack EXCEPT !.stage = "relations", !.todo = pack.symbols]
        BY <2>3 DEF NextStage
      <3> HIDE DEF q
      <3>2. q = [stage |-> "relations", todo |-> pack.symbols, candidates |-> pack.candidates,
                 symbols |-> pack.symbols, relations |-> pack.relations,
                 budget |-> pack.budget, used |-> pack.used, skipped |-> pack.skipped]
        BY <3>1, <1>p
      <3>3. QED
        BY <1>1, <2>3, <3>2 DEF Went, q
    <2>4. CASE pack.stage = "relations"
      <3>1. q = [pack EXCEPT !.stage = "done"]
        BY <2>4 DEF NextStage
      <3> HIDE DEF q
      <3>2. q = [stage |-> "done", todo |-> <<>>, candidates |-> pack.candidates,
                 symbols |-> pack.symbols, relations |-> pack.relations,
                 budget |-> pack.budget, used |-> pack.used, skipped |-> pack.skipped]
        BY <3>1, <1>p, <1>1
      <3>3. QED
        BY <1>1, <2>4, <3>2 DEF Went, q
    <2>5. QED
      BY <1>s, <2>1, <2>2, <2>3, <2>4
  <1>4. ItemsOK(Hits, Bodies)
    BY <1>1, ItemsAre
  <1>5. PackOK(Hits, Bodies, pack')
    BY <1>1, <1>3, <1>4, WentOK
  <1>6. pack'.stage # "none"
    BY <1>3 DEF Went
  <1>7. QED
    BY <1>2, <1>5, <1>6 DEF PackInv

\* A finished pack is what PackFollowsBudget says.
LEMMA PackedRight == PackInv => PackFollowsBudget
  <1> SUFFICES ASSUME PackInv, pack.stage = "done" PROVE PackFollowsBudget
    BY DEF PackFollowsBudget
  <1> DEFINE h == Hits
             b == Bodies
             p == pack
  <1>1. /\ pack \in PackState /\ \A s \in Section : SectionOK(s, h, b, p)
        /\ RisingOn(p.candidates, RestOf(p, "candidates")) /\ BudgetOK(p)
    BY DEF PackInv, PackOK
  <1>2. \A s \in Section : Packed(s) = ToSet(Sec(p, s)) /\ pack[s] = Sec(p, s)
                           /\ Offered(s) = Off(s, h, b, p) /\ SkippedOf(s) = Skips(p, s)
    BY DEF Section, Packed, Sec, Offered, Off, SkippedOf, Skips
  <1>3. \A s \in Section : Begun(s, p) /\ RestOf(p, s) = <<>>
    BY DEF Begun, Section, Stage, RestOf
  <1>e. ToSet(<<>>) = {}
    BY DEF ToSet
  <1>4. ASSUME NEW s \in Section
        PROVE  /\ Packed(s) \subseteq Offered(s) /\ Len(pack[s]) = Cardinality(Packed(s))
               /\ {x.id : x \in Offered(s) \ Packed(s)} = SkippedOf(s)
               /\ \A i, j \in DOMAIN pack[s] : s = "candidates" /\ i < j
                                           => pack[s][i].id < pack[s][j].id
    <2> DEFINE q == Sec(p, s)
               O == Off(s, h, b, p)
    <2>1. /\ ToSet(q) \cup ToSet(RestOf(p, s)) \subseteq O
          /\ {x.id : x \in O \ (ToSet(q) \cup ToSet(RestOf(p, s)))} = Skips(p, s)
          /\ Apart(q, RestOf(p, s))
      BY <1>1, <1>3 DEF SectionOK
    <2>2. q \in Seq(PackItems)
      BY <1>1 DEF Sec, PackState
    <2>3. \A i, j \in 1..Len(q) : q[i] = q[j] => i = j
      BY <2>1 DEF Apart, Distinct
    <2> HIDE DEF q, O
    <2>4. ToSet(q) \cup ToSet(RestOf(p, s)) = ToSet(q)
      BY <1>3, <1>e
    <2>5. ToSet(q) \subseteq O /\ {x.id : x \in O \ ToSet(q)} = Skips(p, s)
      BY <2>1, <2>4
    <2>6. Len(q) = Cardinality(ToSet(q))
      BY <2>2, <2>3, SeqSet
    <2>7. s = "candidates" => \A i, j \in DOMAIN q : i < j => q[i].id < q[j].id
      <3> SUFFICES ASSUME s = "candidates" PROVE \A i, j \in DOMAIN q : i < j => q[i].id < q[j].id
        OBVIOUS
      <3>1. q = p.candidates /\ DOMAIN q = 1..Len(q)
        BY <2>2 DEF q, Sec
      <3>2. Rising(q)
        BY <1>1, <3>1 DEF RisingOn
      <3>3. QED
        BY <3>1, <3>2 DEF Rising
    <2>8. pack[s] = q /\ Packed(s) = ToSet(q) /\ Offered(s) = O /\ SkippedOf(s) = Skips(p, s)
      BY <1>2 DEF q, O
    <2>9. QED
      BY <2>5, <2>6, <2>7, <2>8
  <1>5. /\ pack.used = CostOf("candidates") + CostOf("symbols") + CostOf("relations")
        /\ pack.used <= pack.budget
    <2>1. \A s : CostOf(s) = CostSum(s, Packed(s))
      BY DEF CostOf, CostSum
    <2>2. /\ Packed("candidates") = ToSet(p.candidates) /\ Packed("symbols") = ToSet(p.symbols)
          /\ Packed("relations") = ToSet(p.relations)
      BY DEF Packed
    <2>3. QED
      BY <1>1, <2>1, <2>2 DEF BudgetOK, AllCosts
  <1>6. \A x \in ToSet(pack.skipped) : pack.used + Cost[<<x[1], x[2]>>] > pack.budget
    <2>1. p.skipped \in Seq(Section \X (1..MaxFound))
      BY <1>1 DEF PackState
    <2>2. DOMAIN p.skipped = 1..Len(p.skipped)
      BY <2>1
    <2>3. QED
      BY <1>1, <2>2 DEF BudgetOK, ToSet
  <1>7. Stage \ {"done"} = Section
    BY DEF Stage, Section
  <1>8. QED
    BY <1>4, <1>5, <1>6, <1>7 DEF PackFollowsBudget

\* Every step keeps the pack.
LEMMA PackStep == ASSUME PackInv, [PackNext]_packVars PROVE PackInv'
  <1>1. CASE UNCHANGED packVars
    <2>1. decl' = decl /\ selected' = selected /\ pack' = pack
      BY <1>1 DEF packVars
    <2>2. Hits' = Hits /\ Bodies' = Bodies /\ DeclOK'
      BY <2>1, ItemsKept DEF PackInv
    <2>3. QED
      BY <2>1, <2>2 DEF PackInv
  <1>2. QED
    BY <1>1, PackAsked, PackTaken, PackWent DEF PackNext

PackSpec == PackInit /\ [][PackNext]_packVars

\* A finished pack: every item in it once ...
THEOREM PackFits == PackSpec => []PackFollowsBudget
  BY PackStart, PackStep, PackedRight, PTL DEF PackSpec

-------------------------------------------------------------------------------
\* Rankings


\* A list without repetitions, of members of S.
NoRepeats(l) == \A i, j \in 1..Len(l) : l[i] = l[j] => i = j
IsList(l, S) == l \in Seq(S) /\ NoRepeats(l)

\* A list of members of S is a function from its indices.
LEMMA ListIs ==
    ASSUME NEW S, NEW l \in Seq(S)
    PROVE  /\ Len(l) \in Nat /\ DOMAIN l = 1..Len(l) /\ l \in [1..Len(l) -> S]
           /\ ToSet(l) = {l[i] : i \in 1..Len(l)} /\ ToSet(l) \subseteq S
  <1>1. Len(l) \in Nat /\ DOMAIN l = 1..Len(l) /\ l \in [1..Len(l) -> S]
    OBVIOUS
  <1>2. QED
    BY <1>1 DEF ToSet

\* A function from 1..n is a list.
LEMMA IsListOf ==
    ASSUME NEW S, NEW n \in Nat, NEW l \in [1..n -> S]
    PROVE  l \in Seq(S) /\ Len(l) = n
  OBVIOUS

\* Rank: where a list has what it has.
LEMMA RankIs ==
    ASSUME NEW S, NEW l, IsList(l, S)
    PROVE  /\ \A x \in ToSet(l) : Rank(l, x) \in 1..Len(l) /\ l[Rank(l, x)] = x
           /\ \A i \in 1..Len(l) : l[i] \in ToSet(l) /\ Rank(l, l[i]) = i
  <1>1. /\ Len(l) \in Nat /\ DOMAIN l = 1..Len(l)
        /\ ToSet(l) = {l[i] : i \in 1..Len(l)}
    BY ListIs DEF IsList
  <1>2. ASSUME NEW x \in ToSet(l) PROVE Rank(l, x) \in 1..Len(l) /\ l[Rank(l, x)] = x
    BY <1>1 DEF Rank
  <1>3. \A i \in 1..Len(l) : l[i] \in ToSet(l)
    BY <1>1
  <1>4. ASSUME NEW i \in 1..Len(l) PROVE Rank(l, l[i]) = i
    BY <1>2, <1>3 DEF IsList, NoRepeats
  <1>5. QED
    BY <1>2, <1>3, <1>4

\* A list without repetitions is as long as it has members.
LEMMA ListLength ==
    ASSUME NEW S, NEW l, IsList(l, S)
    PROVE  Len(l) = Cardinality(ToSet(l)) /\ IsFiniteSet(ToSet(l))
  <1>1. /\ Len(l) \in Nat /\ l \in [1..Len(l) -> S] /\ ToSet(l) = {l[i] : i \in 1..Len(l)}
    BY ListIs DEF IsList
  <1>2. l \in [1..Len(l) -> ToSet(l)]
    BY <1>1
  <1>3. l \in Bijection(1..Len(l), ToSet(l))
    BY <1>1, <1>2 DEF IsList, NoRepeats, Bijection, Injection, Surjection, IsInjective
  <1>4. ExistsBijection(1..Len(l), ToSet(l))
    BY <1>3 DEF ExistsBijection
  <1>5. IsFiniteSet(1..Len(l)) /\ Cardinality(1..Len(l)) = Len(l)
    BY <1>1, FS_Interval
  <1>6. QED
    BY <1>4, <1>5, FS_Bijection

-------------------------------------------------------------------------------
\* What is to be ranked, and its order: total, and strict.
Entries == [id : Nat, first : BOOLEAN, score : Nat]

\* Beats is a total order, and strict.
LEMMA BeatsOrder ==
    ASSUME NEW a \in Entries, NEW b \in Entries
    PROVE  /\ ~Beats(a, a) /\ (Beats(a, b) => ~Beats(b, a))
           /\ a.id # b.id => Beats(a, b) \/ Beats(b, a)
           /\ \A c \in Entries : Beats(a, b) /\ Beats(b, c) => Beats(a, c)
  BY DEF Entries, Beats

\* The ranking of some entries.
Ahead(T, b) == {a \in T : Beats(a, b)}
InRanks(T) == [i \in 1..Cardinality(T) |-> CHOOSE b \in T : Cardinality(Ahead(T, b)) = i - 1]
RankingOf(T, l) ==
    /\ l \in [1..Cardinality(T) -> T]
    /\ \A i, j \in 1..Cardinality(T) : i < j => Beats(l[i], l[j])
    /\ \A b \in T : \E i \in 1..Cardinality(T) : l[i] = b

\* There is one entry that is first, one that is second, and so on: the numbers of those
\* that are ahead of each are all different.
LEMMA InRanksOK ==
    ASSUME NEW T \in SUBSET Entries, IsFiniteSet(T), \A a, b \in T : a.id = b.id => a = b
    PROVE  RankingOf(T, InRanks(T))
  <1> DEFINE n == Cardinality(T)
             ahead == [b \in T |-> Cardinality(Ahead(T, b))]
             l == InRanks(T)
  <1>0. n \in Nat
    BY FS_CardinalityType
  <1>t. ASSUME NEW a \in T, NEW b \in T
        PROVE  /\ ~Beats(a, a) /\ (Beats(a, b) => ~Beats(b, a))
               /\ a # b => Beats(a, b) \/ Beats(b, a)
               /\ \A c \in T : Beats(a, b) /\ Beats(b, c) => Beats(a, c)
    BY BeatsOrder
  <1>1. ASSUME NEW b \in T PROVE IsFiniteSet(Ahead(T, b)) /\ ahead[b] \in 0..(n - 1)
    <2>1. Ahead(T, b) \in SUBSET T /\ b \notin Ahead(T, b)
      BY <1>t DEF Ahead
    <2>2. IsFiniteSet(Ahead(T, b)) /\ Cardinality(Ahead(T, b)) <= n /\ Ahead(T, b) # T
      BY <2>1, FS_Subset
    <2>3. Cardinality(Ahead(T, b)) # n
      BY <2>1, <2>2, FS_Subset
    <2>4. Cardinality(Ahead(T, b)) \in Nat
      BY <2>2, FS_CardinalityType
    <2> HIDE DEF n
    <2>5. QED
      BY <1>0, <2>2, <2>3, <2>4
  <1>2. ASSUME NEW a \in T, NEW b \in T, Beats(a, b) PROVE ahead[a] < ahead[b]
    <2>1. Ahead(T, a) \in SUBSET Ahead(T, b) /\ a \in Ahead(T, b) /\ a \notin Ahead(T, a)
      BY <1>t, <1>2 DEF Ahead
    <2>2. Cardinality(Ahead(T, a)) <= Cardinality(Ahead(T, b))
          /\ Cardinality(Ahead(T, a)) # Cardinality(Ahead(T, b))
      BY <1>1, <2>1, FS_Subset
    <2>3. Cardinality(Ahead(T, a)) \in Nat /\ Cardinality(Ahead(T, b)) \in Nat
      BY <1>1, FS_CardinalityType
    <2>4. QED
      BY <2>2, <2>3
  <1> HIDE DEF n
  <1>3. ahead \in Surjection(T, 0..(n - 1))
    <2>1. ahead \in [T -> 0..(n - 1)]
      BY <1>1
    <2>2. ASSUME NEW a \in T, NEW b \in T, ahead[a] = ahead[b] PROVE a = b
      <3>1. ahead[a] \in Int /\ ahead[b] \in Int
        BY <1>0, <1>1
      <3> HIDE DEF ahead
      <3>2. ~Beats(a, b) /\ ~Beats(b, a)
        BY <1>2, <2>2, <3>1
      <3>3. QED
        BY <3>2, <1>t
    <2> HIDE DEF ahead
    <2>3. ahead \in Injection(T, 0..(n - 1))
      BY <2>1, <2>2 DEF Injection, IsInjective
    <2>4. IsFiniteSet(0..(n - 1)) /\ Cardinality(0..(n - 1)) = n
      BY <1>0, FS_Interval
    <2>5. QED
      BY <2>3, <2>4, FS_Injection DEF n
  <1>4. \A i \in 1..n : \E b \in T : ahead[b] = i - 1
    <2>1. \A k \in 0..(n - 1) : \E b \in T : ahead[b] = k
      BY <1>3 DEF Surjection
    <2>2. QED
      BY <1>0, <2>1
  <1>5. ASSUME NEW i \in 1..n PROVE l[i] \in T /\ ahead[l[i]] = i - 1
    <2>1. l[i] = CHOOSE b \in T : Cardinality(Ahead(T, b)) = i - 1
      BY DEF InRanks, n
    <2>2. QED
      BY <2>1, <1>4
  <1>6. l \in [1..n -> T]
    BY <1>5 DEF InRanks, n
  <1>a. \A b \in T : ahead[b] \in 0..(n - 1)
    BY <1>1
  <1> HIDE DEF ahead, l
  <1>7. ASSUME NEW i \in 1..n, NEW j \in 1..n, i < j PROVE Beats(l[i], l[j])
    <2>1. l[i] # l[j] /\ ~(ahead[l[j]] < ahead[l[i]])
      BY <1>5, <1>7, <1>0
    <2>2. QED
      BY <2>1, <1>2, <1>t, <1>5
  <1>8. ASSUME NEW b \in T PROVE \E i \in 1..n : l[i] = b
    <2> DEFINE i == ahead[b] + 1
    <2>1. i \in 1..n /\ ahead[b] = i - 1 /\ ahead[b] \in Int
      BY <1>a, <1>0
    <2> HIDE DEF i
    <2>2. ahead[l[i]] = ahead[b] /\ l[i] \in T
      BY <1>5, <2>1
    <2>3. l[i] = b
      BY <2>1, <2>2, <1>2, <1>t
    <2>4. QED
      BY <2>1, <2>3
  <1>9. QED
    BY <1>6, <1>7, <1>8 DEF RankingOf, n, l

\* The product of the fractions' denominators is a multiple of each.
LEMMA Divides ==
    \A d, q \in Nat : d > 0 => (q * d) \div d = q
  OBVIOUS

\* Every 60 + rank divides the whole.
LEMMA WholeIs ==
    /\ Whole \in Nat /\ Whole > 0
    /\ \A r \in 1..Fetch : \E q \in Nat : Whole = q * (Base + r)
  <1> DEFINE S == 1..Fetch
             c == [T \in SUBSET S |-> CHOOSE x \in T : TRUE]
             h == [p \in Nat \X S |-> (Base + p[2]) * p[1]]
             fn == [r \in 1..Fetch |-> Base + r]
             Eq(g) == g = [T \in SUBSET S |->
                             IF T = {} THEN 1 ELSE fn[c[T]] * g[T \ {c[T]}]]
             EqC(g) == g = [T \in SUBSET S |->
                             IF T = {} THEN 1 ELSE fn[CHOOSE x \in T : TRUE]
                                                   * g[T \ {CHOOSE x \in T : TRUE}]]
             G == CHOOSE g : EqC(g)
  <1>1. IsFiniteSet(S) /\ S \subseteq Nat /\ Fetch \in Nat
    BY FetchAssumption, FS_Interval
  <1>2. \A T \in SUBSET S : T # {} => c[T] \in T
    OBVIOUS
  <1>3. \A v \in Nat, x \in S : h[<<v, x>>] = fn[x] * v /\ h[<<v, x>>] \in Nat /\ fn[x] = Base + x
    BY <1>1 DEF Base
  <1>4. Whole = G[S]
    BY DEF Whole, FoldFunction, FoldFunctionOnSet, MapThenFoldSet
  <1>c. \A T \in SUBSET S : c[T] = CHOOSE x \in T : TRUE
    OBVIOUS
  <1> HIDE DEF c, h, S, fn
  <1>5. PICK g : IsFold(g, S, Nat, 1, c, h)
    <2>1. Foldable(S, Nat, 1, c, h)
      BY <1>1, <1>2, <1>3 DEF Foldable
    <2>2. QED
      BY <2>1, FoldExists
  <1>6. /\ \A T \in SUBSET S : g[T] \in Nat /\ (T # {} => c[T] \in T /\ c[T] \in S)
        /\ g[{}] = 1
        /\ \A T \in SUBSET S : T # {} => g[T] = fn[c[T]] * g[T \ {c[T]}]
    <2>1. \A T \in SUBSET S : g[T] \in Nat
      BY <1>5 DEF IsFold
    <2>2. g[{}] = 1
      BY <1>5 DEF IsFold
    <2>3. ASSUME NEW T \in SUBSET S, T # {} PROVE g[T] = fn[c[T]] * g[T \ {c[T]}]
      <3>1. c[T] \in S /\ T \ {c[T]} \in SUBSET S
        BY <1>2, <2>3
      <3>2. g[T] = h[<<g[T \ {c[T]}], c[T]>>]
        BY <1>5, <2>3 DEF IsFold
      <3>3. QED
        BY <1>3, <2>1, <3>1, <3>2
    <2>4. QED
      BY <1>2, <2>1, <2>2, <2>3
  <1>7. Eq(g)
    <2>1. g \in [SUBSET S -> Nat]
      BY <1>5 DEF IsFold
    <2>2. QED
      BY <1>6, <2>1
  <1>8. EqC(g)
    BY <1>7, <1>c
  <1>9. EqC(G)
    BY <1>8
  <1> HIDE DEF G
  \* What G has, g has: by induction.
  <1> DEFINE P == {n \in Nat : \A T \in SUBSET S : Cardinality(T) <= n =>
                     /\ G[T] \in Nat /\ G[T] > 0
                     /\ \A r \in T : \E q \in Nat : G[T] = q * (Base + r)}
  <1>f. \A T \in SUBSET S : IsFiniteSet(T) /\ Cardinality(T) \in Nat
    BY <1>1, FS_Subset, FS_CardinalityType
  <1>g. /\ G[{}] = 1
        /\ \A T \in SUBSET S : T # {} => G[T] = fn[c[T]] * G[T \ {c[T]}]
    BY <1>9, <1>c
  <1>10. 0 \in P
    <2>1. ASSUME NEW T \in SUBSET S, Cardinality(T) <= 0 PROVE T = {}
      BY <1>f, <2>1, FS_EmptySet
    <2>2. \A T \in SUBSET S : Cardinality(T) <= 0 => \A r \in T : FALSE
      BY <2>1
    <2>3. ASSUME NEW T \in SUBSET S, Cardinality(T) <= 0 PROVE G[T] = 1
      BY <1>g, <2>1, <2>3
    <2>4. ASSUME NEW T \in SUBSET S, Cardinality(T) <= 0
          PROVE  /\ G[T] \in Nat /\ G[T] > 0
                 /\ \A r \in T : \E q \in Nat : G[T] = q * (Base + r)
      BY <2>2, <2>3, <2>4
    <2>5. QED
      BY <2>4
  <1>11. \A n \in Nat : n \in P => n + 1 \in P
    <2> SUFFICES ASSUME NEW n \in Nat, n \in P PROVE n + 1 \in P
      OBVIOUS
    <2> SUFFICES ASSUME NEW T \in SUBSET S, Cardinality(T) <= n + 1
                 PROVE  /\ G[T] \in Nat /\ G[T] > 0
                        /\ \A r \in T : \E q \in Nat : G[T] = q * (Base + r)
      OBVIOUS
    <2>1. CASE T = {}
      BY <2>1, <1>g
    <2>2. CASE T # {}
      <3> DEFINE z == c[T]
                 U == T \ {z}
      <3>1. z \in T /\ z \in S /\ U \in SUBSET S
        BY <1>2, <2>2
      <3>2. Cardinality(U) <= n
        <4>1. Cardinality(U) = Cardinality(T) - 1
          <5>1. z \in T /\ IsFiniteSet(T)
            BY <3>1, <1>f
          <5> HIDE DEF z
          <5>2. QED
            BY <5>1, FS_RemoveElement
        <4>2. QED
          BY <4>1, <1>f
      <3>3. G[T] = (Base + z) * G[U]
        BY <1>g, <1>3, <2>2, <3>1
      <3>u. \A r \in T : r = z \/ r \in U
        OBVIOUS
      <3>y. z \in Nat /\ \A r \in T : r \in Nat
        BY <3>1, <1>1
      <3>z. z \in Nat /\ Base + z \in Nat /\ Base + z > 0 /\ \A r \in T : r \in Nat
        <4> HIDE DEF z
        <4>1. QED
          BY <3>y DEF Base
      <3> HIDE DEF U, z
      <3>4. /\ G[U] \in Nat /\ G[U] > 0
            /\ \A r \in U : \E q \in Nat : G[U] = q * (Base + r)
        BY <3>1, <3>2
      <3>5. G[T] \in Nat /\ G[T] > 0
        BY <3>3, <3>4, <3>z
      <3>6. ASSUME NEW r \in T PROVE \E q \in Nat : G[T] = q * (Base + r)
        <4>1. CASE r = z
          <5>1. G[T] = G[U] * (Base + r)
            BY <3>3, <3>4, <3>z, <4>1
          <5>2. QED
            BY <5>1, <3>4
        <4>2. CASE r \in U
          <5>1. PICK q \in Nat : G[U] = q * (Base + r)
            BY <3>4, <4>2
          <5> DEFINE b == Base + z
                     d == Base + r
          <5>2. b \in Nat /\ d \in Nat
            BY <3>z DEF Base
          <5>3. G[U] = q * d /\ G[T] = b * G[U]
            BY <5>1, <3>3
          <5> HIDE DEF b, d
          <5>4. G[T] = (b * q) * d /\ b * q \in Nat
            BY <5>2, <5>3
          <5>5. QED
            BY <5>4 DEF d
        <4>3. QED
          BY <4>1, <4>2, <3>u
      <3>7. QED
        BY <3>5, <3>6
    <2>3. QED
      BY <2>1, <2>2
  <1>12. Nat \subseteq P
    <2> HIDE DEF P
    <2>1. QED
      BY <1>10, <1>11, Induction, Zenon
  <1>13. Cardinality(S) \in P /\ S \in SUBSET S /\ Cardinality(S) <= Cardinality(S)
    BY <1>12, <1>f
  <1>14. /\ G[S] \in Nat /\ G[S] > 0
         /\ \A r \in S : \E q \in Nat : G[S] = q * (Base + r)
    BY <1>13
  <1>15. QED
    BY <1>4, <1>14 DEF S

\* A share is that part of the whole.
LEMMA ShareIs ==
    ASSUME NEW r \in 1..Fetch
    PROVE  /\ Share(r) \in Nat /\ Share(r) > 0 /\ Share(r) * (Base + r) = Whole
  <1>1. PICK q \in Nat : Whole = q * (Base + r)
    BY WholeIs
  <1>2. Base + r \in Nat /\ Base + r > 0
    BY FetchAssumption DEF Base
  <1> DEFINE d == Base + r
  <1> HIDE DEF d
  <1>3. d \in Nat /\ d > 0 /\ Whole = q * d
    BY <1>1, <1>2 DEF d
  <1>4. Whole \div d = q
    BY <1>3, Divides
  <1>5. Share(r) = q
    BY <1>4 DEF Share, d
  <1>6. q > 0
    BY <1>3, WholeIs
  <1>7. QED
    BY <1>3, <1>5, <1>6 DEF d

\* Two shares of the same whole: the larger the divisor, the smaller the share.
LEMMA Cross ==
    \A a, b, c, d \in Nat : a * c = b * d /\ c < d /\ b > 0 => b < a
  OBVIOUS

\* A better rank has a greater share, and any rank of a vector ranking more than half of
\* what any rank of a text ranking has.
LEMMA SharesFall ==
    ASSUME NEW r \in 1..Fetch, NEW s \in 1..Fetch
    PROVE  (r < s => Share(s) < Share(r)) /\ Share(s) < 2 * Share(r)
  <1> DEFINE a == Share(r)
             b == Share(s)
             c == Base + r
             d == Base + s
  <1>1. a \in Nat /\ b \in Nat /\ b > 0 /\ a * c = b * d
    BY ShareIs
  <1>2. c \in Nat /\ d \in Nat /\ (r < s => c < d) /\ c < 2 * d
    BY FetchAssumption DEF Base
  <1> HIDE DEF a, b, c, d
  <1>3. r < s => b < a
    BY <1>1, <1>2, Cross
  <1>4. (2 * a) * c = b * (2 * d) /\ 2 * a \in Nat /\ 2 * d \in Nat
    BY <1>1, <1>2
  <1>5. b < 2 * a
    BY <1>1, <1>2, <1>4, Cross
  <1>6. QED
    BY <1>3, <1>5 DEF a, b

\* What a ranking gives a candidate.
PartOf(lists, weight, i, x) ==
    IF x \in ToSet(lists[i]) THEN weight[i] * Share(Rank(lists[i], x)) ELSE 0

\* One or two rankings of members of S, no longer than Fetch.
RankingsOK(lists, weight, S) ==
    /\ lists \in Seq(Seq(S)) /\ Len(lists) \in {1, 2} /\ weight \in Seq(Nat)
    /\ Len(lists) <= Len(weight)
    /\ \A i \in 1..Len(lists) : IsList(lists[i], S) /\ Len(lists[i]) <= Fetch

\* What rankings are, one by one.
LEMMA RankingsAre ==
    ASSUME NEW S, NEW lists, NEW weight, RankingsOK(lists, weight, S)
    PROVE  /\ DOMAIN lists = 1..Len(lists)
           /\ Len(lists) = 1 => DOMAIN lists = {1}
           /\ Len(lists) = 2 => DOMAIN lists = {1, 2}
           /\ \A i \in DOMAIN lists :
                /\ weight[i] \in Nat /\ IsList(lists[i], S) /\ i \in Nat
                /\ ToSet(lists[i]) \subseteq S
                /\ \A x \in ToSet(lists[i]) :
                     /\ Rank(lists[i], x) \in 1..Fetch
                     /\ Rank(lists[i], x) \in 1..Len(lists[i])
  <1>1. DOMAIN lists = 1..Len(lists) /\ Len(lists) \in {1, 2}
    BY DEF RankingsOK
  <1>2. Len(lists) = 1 => DOMAIN lists = {1}
    BY <1>1
  <1>3. Len(lists) = 2 => DOMAIN lists = {1, 2}
    BY <1>1
  <1>4. ASSUME NEW i \in DOMAIN lists
        PROVE  /\ weight[i] \in Nat /\ IsList(lists[i], S) /\ i \in Nat
               /\ ToSet(lists[i]) \subseteq S
               /\ \A x \in ToSet(lists[i]) : /\ Rank(lists[i], x) \in 1..Fetch
                                             /\ Rank(lists[i], x) \in 1..Len(lists[i])
    <2>1. IsList(lists[i], S) /\ Len(lists[i]) <= Fetch
      BY <1>1 DEF RankingsOK
    <2>2. i \in 1..Len(weight)
      BY <1>1 DEF RankingsOK
    <2>3. weight[i] \in Nat
      BY <2>2 DEF RankingsOK
    <2>4. Len(lists[i]) \in Nat /\ ToSet(lists[i]) \subseteq S
      BY <2>1, ListIs DEF IsList
    <2>5. \A x \in ToSet(lists[i]) : Rank(lists[i], x) \in 1..Len(lists[i])
      BY <2>1, RankIs
    <2>6. \A r \in 1..Len(lists[i]) : r \in 1..Fetch
      BY <2>1, <2>4, FetchAssumption
    <2>7. QED
      BY <2>1, <2>2, <2>3, <2>4, <2>5, <2>6
  <1>5. QED
    BY <1>1, <1>2, <1>3, <1>4

\* A score is the sum of what the rankings give.
LEMMA ScoreIs ==
    ASSUME NEW S, NEW lists, NEW weight, RankingsOK(lists, weight, S), NEW x
    PROVE  /\ \A i \in DOMAIN lists : PartOf(lists, weight, i, x) \in Nat
           /\ Score(lists, weight, x) \in Nat
           /\ Len(lists) = 1 => Score(lists, weight, x) = PartOf(lists, weight, 1, x)
           /\ Len(lists) = 2 => Score(lists, weight, x) = PartOf(lists, weight, 1, x)
                                                          + PartOf(lists, weight, 2, x)
  <1> DEFINE D == {i \in DOMAIN lists : x \in ToSet(lists[i])}
             c == [i \in D |-> weight[i] * Share(Rank(lists[i], x))]
             Eq(g) == g = [T \in SUBSET D |->
                             IF T = {} THEN 0
                             ELSE weight[CHOOSE i \in T : TRUE]
                                    * Share(Rank(lists[CHOOSE i \in T : TRUE], x))
                                  + g[T \ {CHOOSE i \in T : TRUE}]]
             G == CHOOSE g : Eq(g)
  <1>1. \A i \in D : weight[i] * Share(Rank(lists[i], x)) \in Nat
    <2> TAKE i \in D
    <2>1. weight[i] \in Nat /\ Rank(lists[i], x) \in 1..Fetch
      BY RankingsAre
    <2>2. Share(Rank(lists[i], x)) \in Nat
      BY <2>1, ShareIs
    <2>3. QED
      BY <2>1, <2>2
  <1>2. c \in [D -> Nat]
    BY <1>1
  <1>3. Score(lists, weight, x) = G[D]
    BY DEF Score, MapThenSumSet, MapThenFoldSet
  <1>4. /\ \A i \in D : c[i] = weight[i] * Share(Rank(lists[i], x))
        /\ \A i \in DOMAIN lists : /\ i \in D => PartOf(lists, weight, i, x) = c[i]
                                   /\ i \notin D => PartOf(lists, weight, i, x) = 0
    BY DEF PartOf
  <1>5. IsFiniteSet(D) /\ D \subseteq DOMAIN lists /\ DOMAIN lists = 1..Len(lists)
        /\ (Len(lists) = 1 => DOMAIN lists = {1}) /\ (Len(lists) = 2 => DOMAIN lists = {1, 2})
        /\ Len(lists) \in {1, 2}
    <2>1. DOMAIN lists = 1..Len(lists) /\ D \in SUBSET DOMAIN lists /\ Len(lists) \in {1, 2}
          /\ (Len(lists) = 1 => DOMAIN lists = {1}) /\ (Len(lists) = 2 => DOMAIN lists = {1, 2})
      BY RankingsAre DEF RankingsOK
    <2>2. IsFiniteSet(DOMAIN lists)
      <3>1. Len(lists) \in Int /\ 1 \in Int
        BY <2>1
      <3>2. QED
        BY <2>1, <3>1, FS_Interval
    <2>3. QED
      BY <2>1, <2>2, FS_Subset
  <1> HIDE DEF c, D
  <1>6. \E g : Eq(g)
    <2>1. PICK g : IsSum(g, D, c)
      BY <1>2, <1>5, SumExists
    <2>2. ASSUME NEW T \in SUBSET D, T # {}
          PROVE  g[T] = weight[CHOOSE i \in T : TRUE]
                          * Share(Rank(lists[CHOOSE i \in T : TRUE], x))
                        + g[T \ {CHOOSE i \in T : TRUE}]
      <3>1. (CHOOSE i \in T : TRUE) \in T
        BY <2>2
      <3>2. QED
        BY <1>4, <2>1, <2>2, <3>1 DEF IsSum
    <2>3. Eq(g)
      BY <2>1, <2>2 DEF IsSum
    <2>4. QED
      BY <2>3
  <1>7. Eq(G)
    BY <1>6
  <1> HIDE DEF G
  <1>8. G[{}] = 0
    BY <1>7
  <1>9. ASSUME NEW T \in SUBSET D, T # {} PROVE \E i \in T : G[T] = c[i] + G[T \ {i}]
    <2> DEFINE i == CHOOSE i \in T : TRUE
    <2>1. i \in T
      BY <1>9
    <2>2. G[T] = weight[i] * Share(Rank(lists[i], x)) + G[T \ {i}]
      BY <1>7, <1>9
    <2>3. G[T] = c[i] + G[T \ {i}]
      BY <1>4, <2>1, <2>2
    <2>4. QED
      BY <2>1, <2>3
  <1>c. \A i \in D : c[i] \in Nat
    BY <1>2
  <1>10. \A i \in D : G[{i}] = c[i]
    <2> TAKE i \in D
    <2>1. PICK j \in {i} : G[{i}] = c[j] + G[{i} \ {j}]
      <3>1. {i} \in SUBSET D /\ {i} # {}
        OBVIOUS
      <3>2. QED
        BY <1>9, <3>1
    <2>2. j = i /\ {i} \ {j} = {}
      OBVIOUS
    <2>3. QED
      BY <1>8, <1>c, <2>1, <2>2
  <1>11. D = {1, 2} => G[D] = c[1] + c[2]
    <2> SUFFICES ASSUME D = {1, 2} PROVE G[D] = c[1] + c[2]
      OBVIOUS
    <2>1. PICK j \in D : G[D] = c[j] + G[D \ {j}]
      <3>1. D \in SUBSET D /\ D # {}
        OBVIOUS
      <3>2. QED
        BY <1>9, <3>1
    <2>2. CASE j = 1
      <3>1. D \ {j} = {2}
        BY <2>2
      <3>2. QED
        BY <2>1, <2>2, <3>1, <1>10, <1>c
    <2>3. CASE j = 2
      <3>1. D \ {j} = {1}
        BY <2>3
      <3>2. 1 \in D /\ 2 \in D
        OBVIOUS
      <3>3. G[D \ {j}] = c[1] /\ c[1] \in Nat /\ c[2] \in Nat /\ c[j] = c[2]
        BY <2>3, <3>1, <3>2, <1>10, <1>c
      <3>4. G[D] = c[2] + c[1]
        BY <2>1, <3>3
      <3>5. QED
        BY <3>3, <3>4
    <2>4. QED
      BY <2>2, <2>3
  <1>12. \A i \in DOMAIN lists : PartOf(lists, weight, i, x) \in Nat
    BY <1>4, <1>c
  <1>13. CASE Len(lists) = 1
    <2>1. D = {} \/ D = {1}
      BY <1>5, <1>13
    <2>2. 1 \in DOMAIN lists
      BY <1>5, <1>13
    <2>3. G[D] = PartOf(lists, weight, 1, x) /\ PartOf(lists, weight, 1, x) \in Nat
      BY <2>1, <2>2, <1>4, <1>8, <1>10, <1>12
    <2>4. QED
      BY <1>3, <1>12, <1>13, <2>3
  <1>14. CASE Len(lists) = 2
    <2>1. D = {} \/ D = {1} \/ D = {2} \/ D = {1, 2}
      BY <1>5, <1>14
    <2>2. 1 \in DOMAIN lists /\ 2 \in DOMAIN lists
      BY <1>5, <1>14
    <2> DEFINE a == PartOf(lists, weight, 1, x)
               b == PartOf(lists, weight, 2, x)
    <2>3. a \in Nat /\ b \in Nat
      BY <1>12, <2>2
    <2>4. /\ 1 \in D => a = c[1]
          /\ 1 \notin D => a = 0
          /\ 2 \in D => b = c[2]
          /\ 2 \notin D => b = 0
      BY <1>4, <2>2
    <2> HIDE DEF a, b
    <2>5. G[D] = a + b
      <3>1. CASE D = {}
        BY <3>1, <2>3, <2>4, <1>8
      <3>2. CASE D = {1}
        <4>1. 1 \in D /\ 2 \notin D /\ G[D] = c[1]
          BY <3>2, <1>10
        <4>2. QED
          BY <4>1, <2>3, <2>4
      <3>3. CASE D = {2}
        <4>1. 2 \in D /\ 1 \notin D /\ G[D] = c[2]
          BY <3>3, <1>10
        <4>2. QED
          BY <4>1, <2>3, <2>4
      <3>4. CASE D = {1, 2}
        <4>1. 2 \in D /\ 1 \in D /\ G[D] = c[1] + c[2]
          BY <3>4, <1>11
        <4>2. QED
          BY <4>1, <2>3, <2>4
      <3>5. QED
        BY <2>1, <3>1, <3>2, <3>3, <3>4
    <2>6. QED
      BY <1>3, <1>12, <1>14, <2>3, <2>5 DEF a, b
  <1>15. QED
    BY <1>5, <1>13, <1>14

\* A ranking of the ids of all: those of first come first, and otherwise by their scores.
RankedBy(l, all, first, sc) ==
    /\ IsList(l, all) /\ ToSet(l) = all /\ Len(l) = Cardinality(all)
    /\ \A i, j \in 1..Len(l) : i < j => /\ l[j] \in first => l[i] \in first
                                        /\ (l[i] \in first <=> l[j] \in first)
                                           => sc[l[i]] >= sc[l[j]]

\* Ranked: its members are the candidates, in the order of Beats.
LEMMA RankedIs ==
    ASSUME NEW first, NEW lists, NEW weight, NEW all, NEW sc,
           all = first \cup Candidates(lists), all \subseteq Nat, IsFiniteSet(all),
           sc = [x \in all |-> Score(lists, weight, x)], \A x \in all : sc[x] \in Nat
    PROVE  RankedBy(Ranked(first, lists, weight), all, first, sc)
  <1> DEFINE rec == [x \in all |-> [id |-> x, first |-> x \in first, score |-> sc[x]]]
             T == Scored(first, lists, weight)
             l == InRanks(T)
             n == Cardinality(T)
  <1>1. T = {rec[x] : x \in all}
    BY DEF Scored
  <1>2. \A x \in all : /\ rec[x] \in Entries /\ rec[x].id = x
                       /\ rec[x].first = (x \in first) /\ rec[x].score = sc[x]
    BY DEF Entries
  <1>3. IsFiniteSet(T) /\ n = Cardinality(all)
    <2>1. rec \in Bijection(all, T)
      <3>1. rec \in [all -> T]
        BY <1>1
      <3>2. \A x, y \in all : rec[x] = rec[y] => x = y
        BY <1>2
      <3>3. \A t \in T : \E x \in all : rec[x] = t
        BY <1>1
      <3> HIDE DEF rec, T
      <3>4. QED
        BY <3>1, <3>2, <3>3 DEF Bijection, Injection, Surjection, IsInjective
    <2>2. ExistsBijection(all, T)
      BY <2>1 DEF ExistsBijection
    <2> HIDE DEF T
    <2>3. QED
      BY <2>2, FS_Bijection
  <1>4. T \in SUBSET Entries /\ \A a, b \in T : a.id = b.id => a = b
    <2> HIDE DEF rec
    <2>1. QED
      BY <1>1, <1>2
  <1>5. RankingOf(T, l)
    <2> HIDE DEF T
    <2>1. QED
      BY <1>3, <1>4, InRanksOK
  <1>6. Ranked(first, lists, weight) = [i \in 1..n |-> l[i].id]
    BY DEF Ranked, InRanks, Ahead
  <1> DEFINE r == Ranked(first, lists, weight)
  <1>n. n \in Nat
    BY <1>3, FS_CardinalityType
  <1> HIDE DEF n, T, l, rec
  <1>7. /\ l \in [1..n -> T]
        /\ \A i, j \in 1..n : i < j => Beats(l[i], l[j])
        /\ \A b \in T : \E i \in 1..n : l[i] = b
    BY <1>5 DEF RankingOf, n
  <1>8. \A i \in 1..n : r[i] \in all /\ l[i] = rec[r[i]] /\ r[i] = l[i].id
    <2> TAKE i \in 1..n
    <2>1. l[i] \in T /\ r[i] = l[i].id
      BY <1>6, <1>7
    <2>2. PICK x \in all : l[i] = rec[x]
      BY <1>1, <2>1
    <2>3. QED
      BY <1>2, <2>1, <2>2
  <1>9. r \in [1..n -> all]
    BY <1>6, <1>8
  <1>10. r \in Seq(all) /\ Len(r) = n
    BY <1>9, <1>n, IsListOf
  <1> HIDE DEF r
  <1>11. ASSUME NEW i \in 1..n, NEW j \in 1..n, i < j
         PROVE  /\ r[i] # r[j]
                /\ r[j] \in first => r[i] \in first
                /\ (r[i] \in first <=> r[j] \in first) => sc[r[i]] >= sc[r[j]]
    <2> DEFINE a == rec[r[i]]
               b == rec[r[j]]
    <2>1. Beats(a, b)
      BY <1>7, <1>8, <1>11
    <2>2. /\ a \in Entries /\ a.id = r[i] /\ a.first = (r[i] \in first) /\ a.score = sc[r[i]]
          /\ b \in Entries /\ b.id = r[j] /\ b.first = (r[j] \in first) /\ b.score = sc[r[j]]
      BY <1>2, <1>8
    <2> HIDE DEF a, b
    <2>3. ~Beats(b, a) /\ ~Beats(a, a)
      BY <2>1, <2>2, BeatsOrder
    <2>4. a.id # b.id \/ a.score # b.score \/ a.first # b.first
      BY <2>1, <2>2 DEF Beats, Entries
    <2>5. r[i] # r[j]
      BY <2>2, <2>4
    <2>6. a.score \in Nat /\ b.score \in Nat
      BY <2>2 DEF Entries
    <2>7. (b.first => a.first) /\ ((a.first <=> b.first) => a.score >= b.score)
      <3>1. a.first \in BOOLEAN /\ b.first \in BOOLEAN
        BY <2>2 DEF Entries
      <3>2. QED
        BY <2>1, <2>6, <3>1 DEF Beats
    <2>8. (a.first <=> r[i] \in first) /\ (b.first <=> r[j] \in first)
      BY <2>2
    <2>9. QED
      BY <2>2, <2>5, <2>7, <2>8
  <1>12. ToSet(r) = all
    <2>1. ToSet(r) \subseteq all
      BY <1>10, ListIs
    <2>2. ASSUME NEW x \in all PROVE x \in ToSet(r)
      <3>1. rec[x] \in T
        BY <1>1
      <3>2. PICK i \in 1..n : l[i] = rec[x]
        BY <1>7, <3>1
      <3>3. r[i] = x
        <4>1. r[i] = l[i].id
          BY <1>8
        <4>2. rec[x].id = x
          BY <1>2
        <4>3. QED
          BY <3>2, <4>1, <4>2
      <3>4. QED
        BY <3>3, <1>10, ListIs
    <2>3. QED
      BY <2>1, <2>2
  <1>13. NoRepeats(r)
    <2> SUFFICES ASSUME NEW i \in 1..n, NEW j \in 1..n, r[i] = r[j] PROVE i = j
      BY <1>10 DEF NoRepeats
    <2>1. ~(i < j) /\ ~(j < i)
      BY <1>11
    <2>2. QED
      BY <2>1, <1>n
  <1>14. QED
    BY <1>3, <1>10, <1>11, <1>12, <1>13 DEF RankedBy, IsList, r

\* What a text or a vector ranking of some candidates is.
LEMMA RankingsIs ==
    ASSUME NEW S, IsFiniteSet(S), NEW n \in Nat
    PROVE  /\ \A l \in TextRankings(S, n) : IsList(l, S) /\ Len(l) <= n
           /\ \A l \in VectorRankings(S, n) : IsList(l, S) /\ Len(l) <= n
  <1>1. AtMost(S, n) \in Nat /\ AtMost(S, n) <= n
    BY FS_CardinalityType DEF AtMost
  <1>2. ASSUME NEW m \in 0..AtMost(S, n), NEW l \in Orders(S, m)
        PROVE  IsList(l, S) /\ Len(l) <= n
    <2>1. m \in Nat /\ m <= n
      BY <1>1
    <2>2. l \in [1..m -> S] /\ \A i, j \in 1..m : l[i] = l[j] => i = j
      BY <1>2 DEF Orders
    <2>3. l \in Seq(S) /\ Len(l) = m
      BY <2>1, <2>2, IsListOf
    <2>4. QED
      BY <2>1, <2>2, <2>3 DEF IsList, NoRepeats
  <1>3. AtMost(S, n) \in 0..AtMost(S, n)
    BY <1>1
  <1>4. QED
    BY <1>2, <1>3 DEF TextRankings, VectorRankings

\* What a list is cut to: its first members.
CutOf(c, l, n) ==
    /\ Len(c) \in Nat /\ Len(c) <= n /\ Len(c) <= Len(l) /\ (Len(c) = n \/ Len(c) = Len(l))
    /\ \A i \in 1..Len(c) : c[i] = l[i]

\* Cut is the first members.
LEMMA CutIs ==
    ASSUME NEW S, NEW l \in Seq(S), NEW n \in Nat
    PROVE  Cut(l, n) \in Seq(S) /\ CutOf(Cut(l, n), l, n)
  <1> DEFINE m == IF Len(l) < n THEN Len(l) ELSE n
  <1>1. m \in 0..Len(l) /\ m <= n /\ m \in Nat /\ (m = n \/ m = Len(l)) /\ Len(l) \in Nat
    OBVIOUS
  <1>2. Cut(l, n) = SubSeq(l, 1, m)
    BY DEF Cut
  <1> HIDE DEF m
  <1>3. SubSeq(l, 1, m) \in Seq(S) /\ Len(SubSeq(l, 1, m)) = m
        /\ \A i \in 1..m : SubSeq(l, 1, m)[i] = l[i]
    BY <1>1
  <1>4. QED
    BY <1>1, <1>2, <1>3 DEF CutOf

\* What a list without repetitions is cut to has its members at the same ranks; what is
\* cut off is after them.
LEMMA CutRanks ==
    ASSUME NEW S, NEW l, IsList(l, S), NEW n \in Nat
    PROVE  LET c == Cut(l, n)
           IN /\ IsList(c, S) /\ Len(c) <= n /\ Len(c) = Cardinality(ToSet(c))
              /\ \A x \in ToSet(c) : x \in ToSet(l) /\ Rank(c, x) = Rank(l, x)
              /\ \A x \in ToSet(l) \ ToSet(c) :
                   Len(c) = n /\ \A y \in ToSet(c) : Rank(l, y) < Rank(l, x)
  <1> DEFINE c == Cut(l, n)
  <1>1. l \in Seq(S) /\ Len(l) \in Nat /\ ToSet(l) = {l[i] : i \in 1..Len(l)}
    BY ListIs DEF IsList
  <1>2. c \in Seq(S) /\ CutOf(c, l, n)
    BY <1>1, CutIs
  <1> HIDE DEF c
  <1>3. \A i \in 1..Len(c) : i \in 1..Len(l) /\ c[i] = l[i]
    BY <1>1, <1>2 DEF CutOf
  <1>4. IsList(c, S)
    BY <1>2, <1>3 DEF IsList, NoRepeats
  <1>5. ToSet(c) = {c[i] : i \in 1..Len(c)}
    BY <1>2, ListIs
  <1>6. ASSUME NEW x \in ToSet(c)
        PROVE  x \in ToSet(l) /\ Rank(c, x) = Rank(l, x) /\ Rank(c, x) \in 1..Len(c)
    <2>1. Rank(c, x) \in 1..Len(c) /\ c[Rank(c, x)] = x
      BY <1>4, RankIs
    <2>2. Rank(c, x) \in 1..Len(l) /\ l[Rank(c, x)] = x
      BY <1>3, <2>1
    <2>3. l[Rank(c, x)] \in ToSet(l) /\ Rank(l, l[Rank(c, x)]) = Rank(c, x)
      BY <2>2, RankIs
    <2>4. QED
      BY <2>1, <2>2, <2>3
  <1>7. ASSUME NEW x \in ToSet(l) \ ToSet(c)
        PROVE  Len(c) = n /\ \A y \in ToSet(c) : Rank(l, y) < Rank(l, x)
    <2> DEFINE i == Rank(l, x)
    <2>1. i \in 1..Len(l) /\ l[i] = x
      BY RankIs
    <2> HIDE DEF i
    <2>2. i \notin 1..Len(c)
      BY <1>3, <1>5, <2>1
    <2>3. i > Len(c)
      BY <1>2, <2>1, <2>2, <1>1 DEF CutOf
    <2>4. Len(c) = n
      BY <1>2, <2>1, <2>3, <1>1 DEF CutOf
    <2>5. \A y \in ToSet(c) : Rank(l, y) < i
      <3> TAKE y \in ToSet(c)
      <3>1. Rank(l, y) \in 1..Len(c)
        BY <1>6
      <3>2. QED
        BY <3>1, <2>1, <2>3, <1>2 DEF CutOf
    <2>6. QED
      BY <2>4, <2>5 DEF i
  <1>8. Len(c) = Cardinality(ToSet(c)) /\ Len(c) <= n
    BY <1>2, <1>4, ListLength DEF CutOf
  <1>9. QED
    BY <1>4, <1>6, <1>7, <1>8 DEF c

\* What has more is before what has less, and what is first before what is not.
LEMMA RankedOrder ==
    ASSUME NEW all, NEW first, NEW sc \in [all -> Nat], NEW l, RankedBy(l, all, first, sc),
           NEW x \in all, NEW y \in all,
           \/ x \in first /\ y \notin first
           \/ (x \in first <=> y \in first) /\ sc[y] < sc[x]
    PROVE  Rank(l, x) < Rank(l, y)
  <1> DEFINE i == Rank(l, x)
             j == Rank(l, y)
  <1>1. /\ i \in 1..Len(l) /\ l[i] = x /\ j \in 1..Len(l) /\ l[j] = y
    BY RankIs DEF RankedBy
  <1>2. Len(l) \in Nat
    BY ListIs DEF RankedBy, IsList
  <1>s. sc[x] \in Nat /\ sc[y] \in Nat
    OBVIOUS
  <1> HIDE DEF i, j
  <1>3. j < i => /\ x \in first => y \in first
                 /\ (y \in first <=> x \in first) => sc[y] >= sc[x]
    <2> SUFFICES ASSUME j < i PROVE /\ x \in first => y \in first
                                    /\ (y \in first <=> x \in first) => sc[y] >= sc[x]
      OBVIOUS
    <2>1. /\ l[i] \in first => l[j] \in first
          /\ (l[j] \in first <=> l[i] \in first) => sc[l[j]] >= sc[l[i]]
      BY <1>1 DEF RankedBy
    <2>2. QED
      BY <1>1, <2>1
  <1>4. ~(j < i) /\ i # j
    BY <1>1, <1>3, <1>s
  <1>5. QED
    BY <1>1, <1>2, <1>4 DEF i, j

\* What some ranking has, and every ranking that has the other has before it, gets more.
LEMMA ScoreOrder ==
    ASSUME NEW S, NEW lists, NEW weight, RankingsOK(lists, weight, S),
           \A i \in DOMAIN lists : weight[i] > 0,
           NEW x, NEW y, \E i \in DOMAIN lists : x \in ToSet(lists[i]),
           \A i \in DOMAIN lists : y \in ToSet(lists[i]) => InOrder(lists[i], x, y)
    PROVE  Score(lists, weight, y) < Score(lists, weight, x)
  <1> DEFINE X(i) == PartOf(lists, weight, i, x)
             Y(i) == PartOf(lists, weight, i, y)
  <1>1. ASSUME NEW i \in DOMAIN lists
        PROVE  /\ X(i) \in Nat /\ Y(i) \in Nat /\ Y(i) <= X(i)
               /\ x \in ToSet(lists[i]) => Y(i) < X(i)
    <2>1. /\ weight[i] \in Nat /\ weight[i] > 0 /\ IsList(lists[i], S)
          /\ \A z \in ToSet(lists[i]) : Rank(lists[i], z) \in 1..Fetch
      BY RankingsAre
    <2>2. X(i) \in Nat /\ Y(i) \in Nat
      BY ScoreIs
    <2>3. CASE x \notin ToSet(lists[i])
      <3>2. y \notin ToSet(lists[i])
        BY <2>3 DEF InOrder
      <3>3. Y(i) = 0
        BY <3>2 DEF PartOf
      <3>4. QED
        BY <2>2, <2>3, <3>3
    <2>4. CASE x \in ToSet(lists[i])
      <3>2. y \in ToSet(lists[i]) => Rank(lists[i], x) < Rank(lists[i], y)
        BY DEF InOrder
      <3> DEFINE r == Rank(lists[i], x)
                 s == Rank(lists[i], y)
                 w == weight[i]
      <3>3. r \in 1..Fetch /\ (y \in ToSet(lists[i]) => s \in 1..Fetch /\ r < s)
        BY <2>1, <2>4, <3>2
      <3>4. X(i) = w * Share(r)
        BY <2>4 DEF PartOf
      <3>5. Share(r) \in Nat /\ Share(r) > 0
        BY <3>3, ShareIs
      <3>6. CASE y \notin ToSet(lists[i])
        <4>1. Y(i) = 0
          BY <3>6 DEF PartOf
        <4> HIDE DEF r, s
        <4>2. w * Share(r) > 0
          BY <2>1, <3>5
        <4>3. QED
          BY <3>4, <4>1, <4>2, <2>2
      <3>7. CASE y \in ToSet(lists[i])
        <4>1. Y(i) = w * Share(s)
          BY <3>7 DEF PartOf
        <4>2. Share(s) < Share(r) /\ Share(s) \in Nat
          BY <3>3, <3>7, SharesFall, ShareIs
        <4> DEFINE a == Share(s)
                   b == Share(r)
        <4>3. a \in Nat /\ b \in Nat /\ a < b /\ w \in Nat /\ w > 0
          BY <4>2, <3>5, <2>1
        <4> HIDE DEF a, b, w
        <4>4. w * a < w * b
          BY <4>3
        <4>5. QED
          BY <4>1, <4>4, <3>4, <2>2 DEF a, b
      <3>8. QED
        BY <3>6, <3>7
    <2>5. QED
      BY <2>3, <2>4
  <1>2. /\ DOMAIN lists = 1..Len(lists) /\ Len(lists) \in {1, 2}
        /\ Len(lists) = 1 => DOMAIN lists = {1}
        /\ Len(lists) = 2 => DOMAIN lists = {1, 2}
    BY RankingsAre DEF RankingsOK
  <1> HIDE DEF X, Y
  <1>3. CASE Len(lists) = 1
    <2>1. Score(lists, weight, x) = X(1) /\ Score(lists, weight, y) = Y(1)
      BY <1>3, ScoreIs DEF X, Y
    <2>2. Y(1) < X(1)
      BY <1>1, <1>2, <1>3
    <2>3. QED
      BY <2>1, <2>2
  <1>4. CASE Len(lists) = 2
    <2>1. /\ Score(lists, weight, x) = X(1) + X(2)
          /\ Score(lists, weight, y) = Y(1) + Y(2)
      BY <1>4, ScoreIs DEF X, Y
    <2>2. Y(1) < X(1) \/ Y(2) < X(2)
      BY <1>1, <1>2, <1>4
    <2>3. /\ Y(1) <= X(1) /\ Y(2) <= X(2) /\ X(1) \in Nat /\ X(2) \in Nat
          /\ Y(1) \in Nat /\ Y(2) \in Nat
      BY <1>1, <1>2, <1>4
    <2>4. QED
      BY <2>1, <2>2, <2>3
  <1>5. QED
    BY <1>2, <1>3, <1>4

\* The two rankings of a document search.
TwoLists(text, vector, S) ==
    /\ IsList(text, S) /\ IsList(vector, S) /\ Len(text) <= Fetch /\ Len(vector) <= Fetch

\* A text and a vector ranking, with their weights.
LEMMA TwoListsOK ==
    ASSUME NEW S, NEW text, NEW vector, TwoLists(text, vector, S)
    PROVE  /\ RankingsOK(<<text, vector>>, Weights, S)
           /\ \A i \in DOMAIN <<text, vector>> : Weights[i] > 0
  <1>1. text \in Seq(S) /\ vector \in Seq(S)
    BY DEF TwoLists, IsList
  <1>2. <<text, vector>> \in Seq(Seq(S)) /\ Len(<<text, vector>>) = 2
    BY <1>1
  <1>3. Weights \in Seq(Nat) /\ Len(Weights) = 2 /\ Weights[1] > 0 /\ Weights[2] > 0
    BY DEF Weights
  <1>4. \A i \in 1..2 : /\ IsList(<<text, vector>>[i], S) /\ Len(<<text, vector>>[i]) <= Fetch
                        /\ Weights[i] > 0
    <2>1. \A i \in 1..2 : i = 1 \/ i = 2
      OBVIOUS
    <2>2. <<text, vector>>[1] = text /\ <<text, vector>>[2] = vector
      OBVIOUS
    <2>3. QED
      BY <1>3, <2>1, <2>2 DEF TwoLists
  <1>5. DOMAIN <<text, vector>> = 1..2
    OBVIOUS
  <1>6. QED
    BY <1>2, <1>3, <1>4, <1>5 DEF RankingsOK

\* What the vectors rank has more than what only the words match.
LEMMA VectorFirst ==
    ASSUME NEW S, NEW text, NEW vector, TwoLists(text, vector, S),
           NEW x \in ToSet(vector), NEW y, y \notin ToSet(vector)
    PROVE  Score(<<text, vector>>, Weights, y) < Score(<<text, vector>>, Weights, x)
  <1> DEFINE l == <<text, vector>>
             X(i) == PartOf(l, Weights, i, x)
             Y(i) == PartOf(l, Weights, i, y)
  <1>1. RankingsOK(l, Weights, S)
    BY TwoListsOK
  <1>2. l[1] = text /\ l[2] = vector /\ Len(l) = 2 /\ DOMAIN l = {1, 2}
        /\ Weights[1] = 1 /\ Weights[2] = 2
    BY DEF Weights
  <1> HIDE DEF l
  <1>3. /\ Score(l, Weights, x) = X(1) + X(2) /\ Score(l, Weights, y) = Y(1) + Y(2)
        /\ X(1) \in Nat /\ X(2) \in Nat /\ Y(1) \in Nat /\ Y(2) \in Nat
    BY <1>1, <1>2, ScoreIs
  <1>4. /\ Rank(vector, x) \in 1..Fetch
        /\ y \in ToSet(text) => Rank(text, y) \in 1..Fetch
    BY <1>1, <1>2, RankingsAre
  <1>5. X(2) = 2 * Share(Rank(vector, x)) /\ Y(2) = 0
    BY <1>2 DEF PartOf
  <1>6. CASE y \in ToSet(text)
    <2>1. Y(1) = 1 * Share(Rank(text, y))
      BY <1>2, <1>6 DEF PartOf
    <2>2. Share(Rank(text, y)) < 2 * Share(Rank(vector, x)) /\ Share(Rank(text, y)) \in Nat
          /\ Share(Rank(vector, x)) \in Nat
      BY <1>4, <1>6, SharesFall, ShareIs
    <2> HIDE DEF X, Y
    <2>3. QED
      BY <1>3, <1>5, <2>1, <2>2 DEF l
  <1>7. CASE y \notin ToSet(text)
    <2>1. Y(1) = 0
      BY <1>2, <1>7 DEF PartOf
    <2>2. Share(Rank(vector, x)) > 0 /\ Share(Rank(vector, x)) \in Nat
      BY <1>4, ShareIs
    <2> HIDE DEF X, Y
    <2>3. QED
      BY <1>3, <1>5, <2>1, <2>2 DEF l
  <1>8. QED
    BY <1>6, <1>7

\* What HitsAreRanked says of the hits of a search.
HitsFit(h, text, vector, k) ==
    /\ IsList(h, ToSet(text) \cup ToSet(vector))
    /\ Len(h) = Cardinality(ToSet(h)) /\ Len(h) <= k
VectorsFirst(h, vector) ==
    \A x, y \in ToSet(h) : x \in ToSet(vector) /\ y \notin ToSet(vector) => InOrder(h, x, y)
AgreedFirst(h, text, vector) ==
    \A x, y \in ToSet(h) :
      (\A l \in {text, vector} \ {<<>>} : InOrder(l, x, y)) => InOrder(h, x, y)
OthersAreWorse(h, text, vector, k) ==
    \A x \in (ToSet(text) \cup ToSet(vector)) \ ToSet(h) :
      Len(h) = k /\ (x \in ToSet(vector) => ToSet(h) \subseteq ToSet(vector))
HitsFrom(h, text, vector, k) ==
    /\ HitsFit(h, text, vector, k) /\ VectorsFirst(h, vector)
    /\ AgreedFirst(h, text, vector) /\ OthersAreWorse(h, text, vector, k)

\* SearchText and SearchVector.
LEMMA OneRanking ==
    ASSUME NEW S, NEW l, IsList(l, S), NEW k, Len(l) <= k
    PROVE  HitsFrom(l, l, <<>>, k) /\ HitsFrom(l, <<>>, l, k)
  <1>1. Len(l) = Cardinality(ToSet(l)) /\ IsList(l, ToSet(l))
    <2>1. Len(l) \in Nat /\ l \in [1..Len(l) -> S] /\ ToSet(l) = {l[i] : i \in 1..Len(l)}
      BY ListIs DEF IsList
    <2>2. l \in [1..Len(l) -> ToSet(l)]
      BY <2>1
    <2>3. l \in Seq(ToSet(l))
      BY <2>1, <2>2, IsListOf
    <2>4. QED
      BY <2>3, ListLength DEF IsList
  <1>2. ToSet(<<>>) = {}
    BY DEF ToSet
  <1>3. ASSUME NEW x \in ToSet(l) PROVE l # <<>>
    BY <1>2
  <1>4. AgreedFirst(l, l, <<>>) /\ AgreedFirst(l, <<>>, l)
    <2>1. ASSUME NEW x \in ToSet(l) PROVE l \in {l, <<>>} \ {<<>>} /\ l \in {<<>>, l} \ {<<>>}
      BY <1>3
    <2>2. QED
      BY <2>1 DEF AgreedFirst
  <1>5. VectorsFirst(l, <<>>) /\ VectorsFirst(l, l)
    BY <1>2 DEF VectorsFirst
  <1>6. OthersAreWorse(l, l, <<>>, k) /\ OthersAreWorse(l, <<>>, l, k)
    BY <1>2 DEF OthersAreWorse
  <1>7. QED
    <2>1. ToSet(l) \cup ToSet(<<>>) = ToSet(l) /\ ToSet(<<>>) \cup ToSet(l) = ToSet(l)
      BY <1>2
    <2>2. HitsFit(l, l, <<>>, k) /\ HitsFit(l, <<>>, l, k)
      BY <1>1, <2>1 DEF HitsFit
    <2>3. QED
      BY <2>2, <1>4, <1>5, <1>6 DEF HitsFrom

\* SearchHybrid.
LEMMA FusedRanking ==
    ASSUME NEW S \in SUBSET Nat, IsFiniteSet(S), NEW text, NEW vector,
           TwoLists(text, vector, S), NEW k \in Nat
    PROVE  HitsFrom(Cut(Fuse(<<text, vector>>, Weights), k), text, vector, k)
  <1> DEFINE lists == <<text, vector>>
             all == {} \cup Candidates(lists)
             sc == [x \in all |-> Score(lists, Weights, x)]
             r == Fuse(lists, Weights)
             h == Cut(r, k)
  <1>1. /\ RankingsOK(lists, Weights, S) /\ \A i \in DOMAIN lists : Weights[i] > 0
        /\ lists[1] = text /\ lists[2] = vector /\ Len(lists) = 2 /\ DOMAIN lists = {1, 2}
    BY TwoListsOK
  <1>2. all = ToSet(text) \cup ToSet(vector)
    BY <1>1 DEF Candidates
  <1>3. all \subseteq S /\ IsFiniteSet(all)
    <2>1. ToSet(text) \subseteq S /\ ToSet(vector) \subseteq S
      BY ListIs DEF TwoLists, IsList
    <2>2. all \in SUBSET S
      BY <1>2, <2>1
    <2>3. QED
      BY <2>2, FS_Subset
  <1> HIDE DEF lists
  <1>4. \A x : Score(lists, Weights, x) \in Nat
    BY <1>1, ScoreIs
  <1>5. sc \in [all -> Nat] /\ \A x \in all : sc[x] = Score(lists, Weights, x)
    BY <1>4
  <1>6. RankedBy(r, all, {}, sc)
    <2>1. all \subseteq Nat /\ \A x \in all : sc[x] \in Nat
      BY <1>3, <1>5
    <2> DEFINE first == {}
    <2>2. all = first \cup Candidates(lists)
      OBVIOUS
    <2> HIDE DEF first
    <2>3. RankedBy(Ranked(first, lists, Weights), all, first, sc)
      <3>0. sc = [x \in all |-> Score(lists, Weights, x)]
        OBVIOUS
      <3> HIDE DEF all, sc
      <3>1. QED
        BY <1>3, <2>1, <2>2, <3>0, RankedIs
    <2>4. QED
      BY <2>3 DEF first, Fuse
  <1>7. IsList(r, all) /\ ToSet(r) = all
    BY <1>6 DEF RankedBy
  <1> HIDE DEF all, sc, r
  <1>8. ASSUME NEW x \in all, NEW y \in all, sc[y] < sc[x] PROVE Rank(r, x) < Rank(r, y)
    <2> DEFINE first == {}
    <2>1. RankedBy(r, all, first, sc) /\ (x \in first <=> y \in first)
      BY <1>6
    <2> HIDE DEF first
    <2>2. QED
      BY <1>5, <1>8, <2>1, RankedOrder
  <1>9. /\ IsList(h, all) /\ Len(h) <= k /\ Len(h) = Cardinality(ToSet(h))
        /\ \A x \in ToSet(h) : x \in all /\ Rank(h, x) = Rank(r, x)
        /\ \A x \in all \ ToSet(h) :
             Len(h) = k /\ \A y \in ToSet(h) : Rank(r, y) < Rank(r, x)
    BY <1>7, CutRanks
  <1> HIDE DEF h
  <1>10. HitsFit(h, text, vector, k)
    BY <1>2, <1>9 DEF HitsFit
  <1>11. VectorsFirst(h, vector)
    <2> SUFFICES ASSUME NEW x \in ToSet(h), NEW y \in ToSet(h), x \in ToSet(vector),
                        y \notin ToSet(vector)
                 PROVE  InOrder(h, x, y)
      BY DEF VectorsFirst
    <2>1. sc[y] < sc[x]
      BY <1>5, <1>9, VectorFirst DEF lists
    <2>2. QED
      BY <1>8, <1>9, <2>1 DEF InOrder
  <1>12. AgreedFirst(h, text, vector)
    <2> SUFFICES ASSUME NEW x \in ToSet(h), NEW y \in ToSet(h),
                        \A l \in {text, vector} \ {<<>>} : InOrder(l, x, y)
                 PROVE  InOrder(h, x, y)
      BY DEF AgreedFirst
    <2>0. \A l : y \in ToSet(l) => l # <<>>
      BY DEF ToSet
    <2>1. \A i \in DOMAIN lists : y \in ToSet(lists[i]) => InOrder(lists[i], x, y)
      BY <1>1, <2>0
    <2>2. \E i \in DOMAIN lists : x \in ToSet(lists[i])
      BY <1>1, <1>2, <1>9
    <2>3. Score(lists, Weights, y) < Score(lists, Weights, x)
      BY <1>1, <2>1, <2>2, ScoreOrder
    <2>4. QED
      BY <1>5, <1>8, <1>9, <2>3 DEF InOrder
  <1>13. OthersAreWorse(h, text, vector, k)
    <2> SUFFICES ASSUME NEW x \in all \ ToSet(h)
                 PROVE  Len(h) = k /\ (x \in ToSet(vector) => ToSet(h) \subseteq ToSet(vector))
      BY <1>2 DEF OthersAreWorse
    <2>1. ASSUME x \in ToSet(vector), NEW y \in ToSet(h), y \notin ToSet(vector) PROVE FALSE
      <3>1. sc[y] < sc[x]
        BY <1>5, <1>9, <2>1, VectorFirst DEF lists
      <3>2. Rank(r, x) < Rank(r, y) /\ Rank(r, y) < Rank(r, x)
        BY <1>8, <1>9, <3>1
      <3>3. Rank(r, x) \in Nat /\ Rank(r, y) \in Nat
        <4>1. Rank(r, x) \in 1..Len(r) /\ Rank(r, y) \in 1..Len(r)
          BY <1>7, <1>9, RankIs
        <4>2. QED
          BY <4>1
      <3>4. QED
        BY <3>2, <3>3
    <2>2. QED
      BY <1>9, <2>1
  <1>14. QED
    BY <1>10, <1>11, <1>12, <1>13 DEF HitsFrom, h, r, lists

\* The rankings of a search are of what the database had when it was asked.
RankingsFound ==
    /\ IsList(found.text, ParaId) /\ IsList(found.vector, ParaId)
    /\ Len(found.text) <= Fetched /\ Len(found.vector) <= Fetched
    /\ query.mode = "text" => found.vector = <<>>
    /\ query.mode = "vector" => found.text = <<>>
    /\ reindexed = 0 =>
         ToSet(found.text) \subseteq Eligible /\ ToSet(found.vector) \subseteq Eligible

\* When which ranking is there.
RankedWhen ==
    /\ query.stage \in {"none", "asked", "words"} => found.text = <<>>
    /\ query.stage \in {"none", "asked", "words", "vectors"} =>
         found.vector = <<>> /\ found.hits = <<>>
    /\ query.stage = "words" => query.mode # "vector"
    /\ query.stage = "vectors" => query.mode # "text"

\* The hits are the rows of the ids, one after the other.
HitsRead ==
    /\ Len(found.hits) <= Len(Ids)
    /\ query.stage \in {"expand", "check", "answered"} => Len(found.hits) = Len(Ids)
    /\ reindexed = 0 => \A n \in DOMAIN found.hits : found.hits[n] = passages[Ids[n]]

HitsInv == RankingsFound /\ RankedWhen /\ HitsRead

\* A ranking of some of them is one of all.
LEMMA ListOfMore ==
    ASSUME NEW S, NEW T, S \subseteq T, NEW l, IsList(l, S) PROVE IsList(l, T)
  <1>1. Len(l) \in Nat /\ l \in [1..Len(l) -> S]
    BY ListIs DEF IsList
  <1>2. l \in [1..Len(l) -> T]
    BY <1>1
  <1>3. l \in Seq(T)
    BY <1>1, <1>2, IsListOf
  <1>4. QED
    BY <1>3 DEF IsList

\* No ranking at all is one.
LEMMA EmptyList == \A S : IsList(<<>>, S) /\ Len(<<>>) = 0 /\ ToSet(<<>>) = {}
  BY DEF IsList, NoRepeats, ToSet

\* The ids a search answers are made from its rankings.
LEMMA HitsFound ==
    ASSUME BodiesOK, RankingsFound
    PROVE  HitsFrom(Ids, found.text, found.vector, query.k)
  <1>0. query.mode \in {"text", "vector", "hybrid"} /\ query.k \in Nat
    BY DEF BodiesOK, DocQuery
  <1>1. CASE query.mode = "text"
    <2>1. Ids = found.text /\ found.vector = <<>> /\ Fetched = query.k
      BY <1>1 DEF Ids, RankingsFound, Fetched
    <2>2. QED
      BY <2>1, OneRanking DEF RankingsFound
  <1>2. CASE query.mode = "vector"
    <2>1. Ids = found.vector /\ found.text = <<>> /\ Fetched = query.k
      BY <1>2 DEF Ids, RankingsFound, Fetched
    <2>2. QED
      BY <2>1, OneRanking DEF RankingsFound
  <1>3. CASE query.mode = "hybrid"
    <2>1. Ids = Cut(Fuse(<<found.text, found.vector>>, Weights), query.k) /\ Fetched = Fetch
      BY <1>3 DEF Ids, Fetched, Fused
    <2>2. TwoLists(found.text, found.vector, ParaId)
      BY <2>1 DEF TwoLists, RankingsFound
    <2>3. ParaId \in SUBSET Nat /\ IsFiniteSet(ParaId)
      BY DocSearchAssumption
    <2>4. QED
      BY <1>0, <2>1, <2>2, <2>3, FusedRanking
  <1>4. QED
    BY <1>0, <1>1, <1>2, <1>3

\* They are as many as there are of them.
LEMMA IdsAre ==
    ASSUME BodiesOK, RankingsFound
    PROVE  /\ IsList(Ids, FoundParas) /\ Len(Ids) \in Nat
           /\ \A n \in 1..Len(Ids) : Ids[n] \in FoundParas
  <1>1. IsList(Ids, FoundParas)
    BY HitsFound DEF HitsFrom, HitsFit, FoundParas
  <1>2. QED
    BY <1>1, ListIs DEF IsList

\* A step that leaves the rankings and the request leaves the ids.
LEMMA IdsSame ==
    ASSUME found'.text = found.text, found'.vector = found.vector, query'.mode = query.mode,
           query'.k = query.k
    PROVE  Ids' = Ids
  BY DEF Ids, Fused

\* Before a search has rankings there is nothing to say.
LEMMA HitsInit == DocSearchInit => HitsInv
  <1> SUFFICES ASSUME DocSearchInit PROVE HitsInv
    OBVIOUS
  <1>1. /\ found.text = <<>> /\ found.vector = <<>> /\ found.hits = <<>>
        /\ query.mode = "text" /\ query.stage = "none" /\ query.k = 1
    BY DEF DocSearchInit, NothingFound
  <1>2. RankingsFound
    BY <1>1, EmptyList DEF RankingsFound, Fetched
  <1>3. Ids = <<>>
    BY <1>1 DEF Ids
  <1>4. HitsRead
    <2>1. DOMAIN <<>> = {} /\ Len(<<>>) = 0
      OBVIOUS
    <2>2. QED
      BY <1>1, <1>3, <2>1 DEF HitsRead
  <1>5. QED
    BY <1>1, <1>2, <1>4 DEF HitsInv, RankedWhen

\* The request stays what it was, or there was none.
SameRequest(q) == q.mode = query.mode /\ q.k = query.k /\ q.tags = query.tags

\* A step that leaves the rankings and the hits.
LEMMA HitsSame ==
    ASSUME HitsInv, SameRequest(query'), found' = found,
           reindexed' = 0 => reindexed = 0 /\ passages' = passages,
           query'.stage \in {"none", "asked", "words"} => found.text = <<>>,
           query'.stage \in {"none", "asked", "words", "vectors"} =>
             found.vector = <<>> /\ found.hits = <<>>,
           query'.stage = "words" => query.mode # "vector",
           query'.stage = "vectors" => query.mode # "text",
           query'.stage \in {"expand", "check", "answered"} => Len(found.hits) = Len(Ids)
    PROVE  HitsInv'
  <1>1. Ids' = Ids
    BY IdsSame DEF SameRequest
  <1>2. Fetched' = Fetched
    BY DEF Fetched, SameRequest
  <1>3. reindexed' = 0 => Eligible' = Eligible /\ reindexed = 0
    BY DEF Eligible, SameRequest
  <1>4. RankingsFound'
    BY <1>2, <1>3 DEF HitsInv, RankingsFound, SameRequest
  <1>5. RankedWhen'
    BY DEF HitsInv, RankedWhen, SameRequest
  <1>6. HitsRead'
    BY <1>1 DEF HitsInv, HitsRead, SameRequest
  <1>7. QED
    BY <1>4, <1>5, <1>6 DEF HitsInv

\* The stage only.
LEMMA HitsGo ==
    ASSUME BodiesOK, HitsInv, NEW s, Enters(s), UNCHANGED <<passages, found, reindexed>>,
           \/ s = "failed"
           \/ s \in {"expand", "check", "answered"} /\ Len(found.hits) = Len(Ids)
    PROVE  HitsInv'
  <1>1. SameRequest(query') /\ query'.stage = s
    BY DEF BodiesOK, DocQuery, Enters, SameRequest
  <1>2. QED
    BY <1>1, HitsSame

\* A ranking more.
LEMMA HitsRank == ASSUME BodiesOK, HitsInv, RankText \/ RankVectors PROVE HitsInv'
  <1>f. FoundShape /\ query \in DocQuery /\ query.k \in Nat
    BY DEF BodiesOK, DocQuery
  <1>1. /\ query.stage \in {"words", "vectors"} /\ found.hits = <<>> /\ found.vector = <<>>
        /\ passages' = passages /\ reindexed' = reindexed
    BY DEF RankText, RankVectors, HitsInv, RankedWhen
  <1>2. PICK s \in {"vectors", "read"} :
          /\ Enters(s) /\ (s = "vectors" => query.stage = "words" /\ query.mode = "hybrid")
    BY DEF RankText, RankVectors
  <1>3. SameRequest(query') /\ query'.stage = s
    BY <1>2, <1>f DEF DocQuery, Enters, SameRequest
  <1>4. Fetched \in Nat /\ Fetched' = Fetched /\ Eligible' = Eligible
    BY <1>f, <1>1, <1>3, FetchAssumption DEF Fetched, Eligible, SameRequest
  <1>5. Eligible \subseteq ParaId /\ IsFiniteSet(Eligible)
    <2>1. DOMAIN passages \subseteq ParaId /\ IsFiniteSet(ParaId)
      BY DocSearchAssumption DEF BodiesOK
    <2>2. Eligible \in SUBSET ParaId
      BY <2>1 DEF Eligible
    <2>3. QED
      BY <2>1, <2>2, FS_Subset
  <1>6. \A l : l \in TextRankings(Eligible, Fetched) \/ l \in VectorRankings(Eligible, Fetched) =>
          IsList(l, ParaId) /\ Len(l) <= Fetched /\ ToSet(l) \subseteq Eligible
    <2>1. \A l : l \in TextRankings(Eligible, Fetched) \/ l \in VectorRankings(Eligible, Fetched)
                   => IsList(l, Eligible) /\ Len(l) <= Fetched
      BY <1>4, <1>5, RankingsIs
    <2>2. \A l : IsList(l, Eligible) => IsList(l, ParaId) /\ ToSet(l) \subseteq Eligible
      BY <1>5, ListOfMore, ListIs DEF IsList
    <2>3. QED
      BY <2>1, <2>2
  <1>7. PICK l : /\ IsList(l, ParaId) /\ Len(l) <= Fetched /\ ToSet(l) \subseteq Eligible
                 /\ \/ query.stage = "words" /\ found' = [found EXCEPT !.text = l]
                    \/ query.stage = "vectors" /\ found' = [found EXCEPT !.vector = l]
                 /\ query.stage = "vectors" => s = "read"
    <2>1. CASE RankText
      BY <2>1, <1>6 DEF RankText
    <2>2. CASE RankVectors
      <3>1. Enters("read")
        BY <2>2 DEF RankVectors
      <3>2. s = "read"
        BY <3>1, <1>3, <1>f DEF Enters, DocQuery
      <3>3. QED
        BY <2>2, <1>6, <3>2 DEF RankVectors
    <2>3. QED
      BY <2>1, <2>2
  <1>8. /\ found'.hits = found.hits
        /\ \/ query.stage = "words" /\ found'.text = l /\ found'.vector = found.vector
           \/ query.stage = "vectors" /\ found'.vector = l /\ found'.text = found.text
    <2>1. CASE query.stage = "words"
      BY <2>1, <1>7, <1>f DEF FoundShape
    <2>2. CASE query.stage = "vectors"
      BY <2>2, <1>7, <1>f DEF FoundShape
    <2>3. QED
      BY <2>1, <2>2, <1>1
  <1>9. RankingsFound'
    <2>1. query.stage = "words" => query.mode # "vector"
      BY DEF HitsInv, RankedWhen
    <2>2. query.stage = "vectors" => query.mode # "text"
      BY DEF HitsInv, RankedWhen
    <2>3. RankingsFound
      BY DEF HitsInv
    <2>4. CASE query.stage = "words"
      BY <2>4, <1>1, <1>3, <1>4, <1>7, <1>8, <2>1, <2>3 DEF RankingsFound, SameRequest
    <2>5. CASE query.stage = "vectors"
      BY <2>5, <1>1, <1>3, <1>4, <1>7, <1>8, <2>2, <2>3 DEF RankingsFound, SameRequest
    <2>6. QED
      BY <2>4, <2>5, <1>1
  <1>10. RankedWhen'
    BY <1>1, <1>2, <1>3, <1>8 DEF RankedWhen, SameRequest
  <1>11. HitsRead'
    <2>1. BodiesOK'
      BY BodiesStep DEF DocSearchNext
    <2>2. (Len(Ids) \in Nat)'
      <3>1. (BodiesOK /\ RankingsFound => Len(Ids) \in Nat)'
        BY IdsAre, PTL
      <3>2. QED
        BY <2>1, <1>9, <3>1
    <2>3. found'.hits = <<>> /\ Len(<<>>) = 0 /\ DOMAIN <<>> = {}
      BY <1>1, <1>8
    <2>4. QED
      BY <1>2, <1>3, <2>2, <2>3 DEF HitsRead
  <1>12. QED
    BY <1>9, <1>10, <1>11 DEF HitsInv

\* One row more is read.
LEMMA HitsReadNext == ASSUME BodiesOK, HitsInv, ReadHit PROVE HitsInv'
  <1> DEFINE n == Len(found.hits) + 1
  <1>1. /\ query.stage = "read" /\ passages' = passages /\ reindexed' = reindexed
        /\ n <= Len(Ids)
    BY DEF ReadHit
  <1>2. CASE Ids[n] \notin DOMAIN passages
    <2>1. Enters("failed") /\ found' = found
      BY <1>2 DEF ReadHit
    <2>2. QED
      BY <1>1, <2>1, HitsGo
  <1>3. CASE Ids[n] \in DOMAIN passages
    <2> DEFINE row == passages[Ids[n]]
    <2>1. found' = [found EXCEPT !.hits = Append(@, row)] /\ query' = query
      BY <1>3 DEF ReadHit
    <2>2. found.hits \in Seq(Paras) /\ row \in Paras /\ FoundShape
      BY <1>3, ParaIs DEF BodiesOK
    <2>3. /\ found'.hits = Append(found.hits, row)
          /\ found'.text = found.text /\ found'.vector = found.vector
      <3> HIDE DEF row
      <3>1. QED
        BY <2>1, <2>2 DEF FoundShape
    <2>4. Ids' = Ids
      BY <2>1, <2>3, IdsSame
    <2>5. Fetched' = Fetched /\ Eligible' = Eligible
      BY <1>1, <2>1 DEF Fetched, Eligible
    <2>6. RankingsFound' /\ RankedWhen'
      BY <1>1, <2>1, <2>3, <2>5 DEF HitsInv, RankingsFound, RankedWhen
    <2>7. Len(found'.hits) = n /\ \A i \in DOMAIN found'.hits :
            \/ i = n /\ found'.hits[i] = row
            \/ i \in DOMAIN found.hits /\ found'.hits[i] = found.hits[i]
      BY <2>2, <2>3
    <2>8. HitsRead'
      BY <1>1, <2>1, <2>4, <2>7 DEF HitsInv, HitsRead
    <2>9. QED
      BY <2>6, <2>8 DEF HitsInv
  <1>4. QED
    BY <1>2, <1>3

\* Every step keeps the hits those of the rankings.
LEMMA HitsStep ==
    ASSUME BodiesOK, HitsInv, [DocSearchNext]_docSearchVars PROVE HitsInv'
  <1>f. FoundShape /\ query \in DocQuery
    BY DEF BodiesOK
  <1>1. CASE UNCHANGED docSearchVars
    <2>1. SameRequest(query)
      BY DEF SameRequest
    <2>2. QED
      BY <1>1, <2>1, HitsSame DEF docSearchVars, HitsInv, RankedWhen, HitsRead
  <1>2. CASE AskDocuments
    <2>1. /\ found.text = <<>> /\ found.vector = <<>> /\ found.hits = <<>> /\ found' = found
          /\ query'.stage = "asked" /\ query'.k \in Nat
          /\ query'.mode \in {"text", "vector", "hybrid"}
      <3>1. query' \in DocQuery
        BY <1>2, BodiesStep DEF DocSearchNext, BodiesOK
      <3>2. query'.stage = "asked"
        BY <1>2 DEF AskDocuments
      <3>3. QED
        BY <1>2, <3>1, <3>2 DEF AskDocuments, HitsInv, RankedWhen, DocQuery
    <2>2. Fetched' \in Nat
      BY <2>1, FetchAssumption DEF Fetched
    <2>3. RankingsFound'
      BY <2>1, <2>2, EmptyList DEF RankingsFound
    <2>4. RankedWhen'
      BY <2>1 DEF RankedWhen
    <2>5. HitsRead'
      <3>1. BodiesOK'
        BY <1>2, BodiesStep DEF DocSearchNext
      <3>2. (BodiesOK /\ RankingsFound => Len(Ids) \in Nat)'
        BY IdsAre, PTL
      <3>3. (Len(Ids) \in Nat)'
        BY <2>3, <3>1, <3>2
      <3>4. Len(<<>>) = 0 /\ DOMAIN <<>> = {}
        OBVIOUS
      <3>5. QED
        BY <2>1, <3>3, <3>4 DEF HitsRead
    <2>6. QED
      BY <2>3, <2>4, <2>5 DEF HitsInv
  <1>3. CASE EmbedQuery
    <2>1. PICK s \in {"words", "vectors"} :
            /\ Enters(s)
            /\ IF query.mode = "vector" THEN s = "vectors" ELSE s = "words"
      BY <1>3 DEF EmbedQuery
    <2>2. SameRequest(query') /\ query'.stage = s
      BY <2>1, <1>f DEF DocQuery, Enters, SameRequest
    <2>3. found.text = <<>> /\ found.vector = <<>> /\ found.hits = <<>>
      BY <1>3 DEF EmbedQuery, HitsInv, RankedWhen
    <2>4. QED
      BY <1>3, <2>1, <2>2, <2>3, HitsSame DEF EmbedQuery
  <1>4. CASE RankText \/ RankVectors
    BY <1>4, HitsRank
  <1>5. CASE ReadHit
    BY <1>5, HitsReadNext
  <1>6. CASE AnswerHits
    <2>1. PICK s \in {"expand", "answered"} : Enters(s)
      BY <1>6 DEF AnswerHits
    <2>2. QED
      BY <1>6, <2>1, HitsGo DEF AnswerHits
  <1>7. CASE ExpandHit
    <2>1. query.stage = "expand" /\ Len(found.hits) = Len(Ids)
      BY <1>7 DEF ExpandHit, HitsInv, HitsRead
    <2>2. PICK s \in {"check", "failed"} : Enters(s)
      BY <1>7 DEF ExpandHit
    <2>3. SameRequest(query') /\ query'.stage = s
      BY <2>2, <1>f DEF DocQuery, Enters, SameRequest
    <2>4. /\ found'.text = found.text /\ found'.vector = found.vector
          /\ found'.hits = found.hits /\ passages' = passages /\ reindexed' = reindexed
      BY <1>7, <1>f DEF ExpandHit, FoundShape
    <2>5. Ids' = Ids /\ Fetched' = Fetched /\ Eligible' = Eligible
      BY <2>3, <2>4, IdsSame DEF SameRequest, Fetched, Eligible
    <2>6. RankingsFound' /\ RankedWhen'
      BY <2>3, <2>4, <2>5 DEF HitsInv, RankingsFound, RankedWhen, SameRequest
    <2>7. HitsRead'
      BY <2>1, <2>4, <2>5 DEF HitsInv, HitsRead
    <2>8. QED
      BY <2>6, <2>7 DEF HitsInv
  <1>8. CASE CheckBody
    <2>1. PICK s \in {"expand", "failed"} : Enters(s)
      BY <1>8 DEF CheckBody
    <2>2. Len(found.hits) = Len(Ids)
      BY <1>8 DEF CheckBody, HitsInv, HitsRead
    <2>3. QED
      BY <1>8, <2>1, <2>2, HitsGo DEF CheckBody
  <1>9. CASE ExpandEnds
    <2>1. Len(found.hits) = Len(Ids)
      BY <1>9 DEF ExpandEnds, HitsInv, HitsRead
    <2>2. QED
      BY <1>9, <2>1, HitsGo DEF ExpandEnds
  <1>10. CASE SearchFails
    BY <1>10, HitsGo DEF SearchFails
  <1>11. CASE Reindex
    <2>1. /\ query' = query /\ found' = found /\ reindexed' = reindexed + 1 /\ reindexed \in Nat
      BY <1>11 DEF Reindex, BodiesOK
    <2>2. SameRequest(query') /\ reindexed' # 0
      BY <2>1 DEF SameRequest
    <2>3. QED
      BY <2>1, <2>2, HitsSame DEF HitsInv, RankedWhen, HitsRead
  <1>12. QED
    BY <1>1, <1>2, <1>3, <1>4, <1>5, <1>6, <1>7, <1>8, <1>9, <1>10, <1>11 DEF DocSearchNext

\* In a database that does not change the hits are those of the ids, all different.
LEMMA HitsSteady ==
    ASSUME BodiesOK, HitsInv, reindexed = 0
    PROVE  \A n \in DOMAIN found.hits :
             /\ found.hits[n] = passages[Ids[n]] /\ ToSet(query.tags) \subseteq found.hits[n].tags
             /\ \A m \in DOMAIN found.hits : found.hits[m] = found.hits[n] => m = n
  <1>1. /\ Len(found.hits) \in Nat /\ DOMAIN found.hits = 1..Len(found.hits)
        /\ Len(found.hits) <= Len(Ids) /\ Len(Ids) \in Nat
    BY IdsAre DEF BodiesOK, HitsInv, HitsRead
  <1>2. ASSUME NEW n \in DOMAIN found.hits
        PROVE  /\ n \in 1..Len(Ids) /\ found.hits[n] = passages[Ids[n]] /\ Ids[n] \in Eligible
    <2>1. n \in 1..Len(Ids)
      BY <1>1
    <2>2. Ids[n] \in FoundParas
      BY <2>1, IdsAre DEF HitsInv
    <2>3. QED
      BY <2>1, <2>2 DEF HitsInv, HitsRead, RankingsFound, FoundParas
  <1>3. \A n, m \in 1..Len(Ids) : Ids[n] = Ids[m] => n = m
    BY IdsAre DEF IsList, NoRepeats, HitsInv
  <1>4. \A x, y \in DOMAIN passages : passages[x] = passages[y] => x = y
    BY ParaIs
  <1>5. \A x \in Eligible : x \in DOMAIN passages /\ ToSet(query.tags) \subseteq passages[x].tags
    BY DEF Eligible
  <1>6. QED
    BY <1>2, <1>3, <1>4, <1>5

\* The hits of a document search are ranked as HitsAreRanked says, whatever the two indexes
\* have ranked and whatever the database does meanwhile (SearchText, SearchVector and
\* SearchHybrid of internal/store).
THEOREM HitsRanked == DocSearchSpec => []HitsAreRanked
  <1>1. BodiesOK /\ HitsInv => HitsAreRanked
    <2> SUFFICES ASSUME BodiesOK, HitsInv PROVE HitsAreRanked
      OBVIOUS
    <2>1. HitsFrom(Ids, found.text, found.vector, query.k)
      BY HitsFound DEF HitsInv
    <2>2. query.stage \in {"expand", "check", "answered"} => Len(found.hits) = Len(Ids)
      BY DEF HitsInv, HitsRead
    <2>3. reindexed = 0 => \A n \in DOMAIN found.hits :
             /\ found.hits[n] = passages[Ids[n]] /\ ToSet(query.tags) \subseteq found.hits[n].tags
             /\ \A m \in DOMAIN found.hits : found.hits[m] = found.hits[n] => m = n
      BY HitsSteady
    <2>4. QED
      BY <2>1, <2>2, <2>3 DEF HitsAreRanked, HitsFrom, HitsFit, VectorsFirst, AgreedFirst,
                              OthersAreWorse, FoundParas
  <1>2. DocSearchInit => BodiesOK /\ HitsInv
    BY BodiesInit, HitsInit
  <1>3. (BodiesOK /\ HitsInv) /\ [DocSearchNext]_docSearchVars => (BodiesOK /\ HitsInv)'
    BY BodiesStep, HitsStep
  <1>4. QED
    BY <1>1, <1>2, <1>3, PTL DEF DocSearchSpec

-------------------------------------------------------------------------------
\* Code search


\* What all the rankings have before another.
AllBefore(lists, x, y) ==
    \A i \in DOMAIN lists :
      x \in ToSet(lists[i]) /\ (y \in ToSet(lists[i]) => Rank(lists[i], x) < Rank(lists[i], y))

\* What the store finds: members of S, those that match exactly among them.
FoundIn(list, exact, lists, S) ==
    /\ IsList(list, S) /\ Len(list) <= Fetch /\ exact \subseteq S
    /\ ToSet(list) \subseteq exact \cup Candidates(lists)
FoundOrder(list, exact, lists) ==
    \A x, y \in ToSet(list) :
      (x \in exact <=> y \in exact) /\ AllBefore(lists, x, y) => Rank(list, x) < Rank(list, y)
FoundEnough(list, exact, lists) ==
    \A x \in (exact \cup Candidates(lists)) \ ToSet(list) :
      /\ Cardinality(exact \cup Candidates(lists)) > Fetch
      /\ x \in exact => Cardinality(exact) > Fetch

\* A finite set that has another and one element more has more elements.
LEMMA OneMore ==
    ASSUME NEW S, IsFiniteSet(S), NEW T \in SUBSET S, NEW x \in S \ T
    PROVE  Cardinality(T) < Cardinality(S)
  <1>1. IsFiniteSet(T) /\ Cardinality(T) <= Cardinality(S) /\ Cardinality(S) # Cardinality(T)
    BY FS_Subset
  <1>2. Cardinality(T) \in Nat /\ Cardinality(S) \in Nat
    BY <1>1, FS_CardinalityType
  <1>3. QED
    BY <1>1, <1>2

\* The candidates are members of the rankings.
LEMMA CandidatesIn ==
    ASSUME NEW S, NEW lists, NEW weight, RankingsOK(lists, weight, S)
    PROVE  Candidates(lists) \subseteq S
           /\ \A x \in Candidates(lists) : \E i \in DOMAIN lists : x \in ToSet(lists[i])
  <1>1. \A i \in DOMAIN lists : ToSet(lists[i]) \subseteq S
    BY RankingsAre
  <1>2. QED
    BY <1>1 DEF Candidates

\* PinExact: what the store finds has the exact matches first, is in the order of its
\* rankings otherwise, and lacks something only when there is more than is fetched.
LEMMA Pinned ==
    ASSUME NEW S \in SUBSET Nat, IsFiniteSet(S), NEW lists, RankingsOK(lists, <<1, 1>>, S),
           NEW exact \in SUBSET S
    PROVE  LET p == PinExact(exact, lists)
           IN FoundIn(p, exact, lists, S) /\ FoundOrder(p, exact, lists)
              /\ FoundEnough(p, exact, lists)
  <1> DEFINE w == <<1, 1>>
             all == exact \cup Candidates(lists)
             sc == [x \in all |-> Score(lists, w, x)]
             r == Ranked(exact, lists, w)
             p == PinExact(exact, lists)
  <1>w. \A i \in {1, 2} : w[i] > 0
    OBVIOUS
  <1>d. DOMAIN lists \subseteq {1, 2} /\ DOMAIN lists # {}
    BY RankingsAre DEF RankingsOK
  <1>1. all \in SUBSET S /\ all \in SUBSET Nat
    <2>1. Candidates(lists) \subseteq S
      BY CandidatesIn
    <2>2. QED
      BY <2>1
  <1>2. IsFiniteSet(all) /\ IsFiniteSet(exact)
    BY <1>1, FS_Subset
  <1>3. p = Cut(r, Fetch)
    BY DEF PinExact
  <1>k. RankingsOK(lists, w, S)
    OBVIOUS
  <1> HIDE DEF w
  <1>4. \A x : Score(lists, w, x) \in Nat
    BY <1>k, ScoreIs
  <1>5. sc \in [all -> Nat] /\ \A x \in all : sc[x] = Score(lists, w, x)
    BY <1>4
  <1>6. RankedBy(r, all, exact, sc)
    <2>1. \A x \in all : sc[x] \in Nat
      BY <1>5
    <2>2. sc = [x \in all |-> Score(lists, w, x)] /\ all = exact \cup Candidates(lists)
      OBVIOUS
    <2> HIDE DEF all, sc
    <2>3. QED
      BY <1>1, <1>2, <2>1, <2>2, RankedIs
  <1>7. IsList(r, all) /\ ToSet(r) = all
    BY <1>6 DEF RankedBy
  <1>a. \A x \in all : x \in exact \/ \E i \in DOMAIN lists : x \in ToSet(lists[i])
    BY <1>k, CandidatesIn
  <1>e. exact \subseteq all
    OBVIOUS
  <1> DEFINE a == all
  <1>8. /\ IsList(p, a) /\ Len(p) <= Fetch /\ Len(p) = Cardinality(ToSet(p))
        /\ \A x \in ToSet(p) : x \in a /\ Rank(p, x) = Rank(r, x)
        /\ \A x \in a \ ToSet(p) :
             Len(p) = Fetch /\ \A y \in ToSet(p) : Rank(r, y) < Rank(r, x)
    <2> HIDE DEF all, r, p
    <2>1. QED
      BY <1>3, <1>7, FetchAssumption, CutRanks
  <1> HIDE DEF all, sc, r, p
  <1>9. \A x, y \in all : \/ x \in exact /\ y \notin exact
                          \/ (x \in exact <=> y \in exact) /\ sc[y] < sc[x]
                          => Rank(r, x) < Rank(r, y)
    BY <1>5, <1>6, RankedOrder
  <1>10. \A x \in all : Rank(r, x) \in Nat
    <2>1. \A x \in all : Rank(r, x) \in 1..Len(r)
      BY <1>7, RankIs
    <2>2. QED
      BY <2>1
  <1>11. FoundIn(p, exact, lists, S)
    <2>1. p \in Seq(all) /\ NoRepeats(p) /\ Len(p) <= Fetch
      BY <1>8 DEF IsList
    <2>2. p \in Seq(S)
      <3>1. Len(p) \in Nat /\ p \in [1..Len(p) -> all]
        BY <2>1, ListIs
      <3>2. p \in [1..Len(p) -> S]
        BY <1>1, <3>1
      <3>3. QED
        BY <3>1, <3>2, IsListOf
    <2>3. ToSet(p) \subseteq exact \cup Candidates(lists)
      BY <1>8 DEF all
    <2>4. QED
      BY <2>1, <2>2, <2>3 DEF FoundIn, IsList
  <1>12. FoundOrder(p, exact, lists)
    <2> SUFFICES ASSUME NEW x \in ToSet(p), NEW y \in ToSet(p), x \in exact <=> y \in exact,
                        AllBefore(lists, x, y)
                 PROVE  Rank(p, x) < Rank(p, y)
      BY DEF FoundOrder
    <2>1. \A i \in DOMAIN lists : y \in ToSet(lists[i]) => InOrder(lists[i], x, y)
      BY DEF AllBefore, InOrder
    <2>2. \E i \in DOMAIN lists : x \in ToSet(lists[i])
      BY <1>d DEF AllBefore
    <2>3. Score(lists, w, y) < Score(lists, w, x)
      BY <1>k, <1>w, <1>d, <2>1, <2>2, ScoreOrder
    <2>4. QED
      BY <1>5, <1>8, <1>9, <2>3
  <1>13. FoundEnough(p, exact, lists)
    <2> SUFFICES ASSUME NEW x \in all \ ToSet(p)
                 PROVE  Cardinality(all) > Fetch /\ (x \in exact => Cardinality(exact) > Fetch)
      BY DEF FoundEnough, all
    <2>1. Cardinality(ToSet(p)) = Fetch /\ \A y \in ToSet(p) : Rank(r, y) < Rank(r, x)
      BY <1>8
    <2>2. ToSet(p) \subseteq all
      BY <1>8
    <2>3. Cardinality(ToSet(p)) < Cardinality(all)
      BY <1>2, <2>2, OneMore
    <2>4. ASSUME x \in exact PROVE Cardinality(ToSet(p)) < Cardinality(exact)
      <3>1. ASSUME NEW y \in ToSet(p), y \notin exact PROVE FALSE
        <4>1. Rank(r, x) < Rank(r, y) /\ Rank(r, y) < Rank(r, x)
          BY <1>9, <2>1, <2>2, <2>4, <3>1
        <4>2. QED
          BY <1>10, <2>2, <4>1
      <3>2. QED
        BY <1>2, <2>4, <3>1, OneMore
    <2>5. /\ Cardinality(all) \in Nat /\ (x \in exact => Cardinality(exact) \in Nat)
      BY <1>2, FS_CardinalityType
    <2>6. QED
      BY <2>1, <2>3, <2>4, <2>5, FetchAssumption
  <1>14. QED
    BY <1>11, <1>12, <1>13 DEF p

\* What overlaps a better hit is left out.
Apply(out, x) == IF \E y \in ToSet(out) : Overlaps(x, y) THEN out ELSE Append(out, x)
WithoutOverlaps(s) ==
    FoldLeft(LAMBDA out, x : IF \E y \in ToSet(out) : Overlaps(x, y) THEN out
                             ELSE Append(out, x), <<>>, s)

\* mergeServiceHits goes through the merged ranking step by step.
LEMMA WithoutOverlapsSteps ==
    ASSUME NEW K, NEW s \in Seq(K)
    PROVE  \E f \in [0..Len(s) -> Seq(K)] :
              /\ f[0] = <<>> /\ f[Len(s)] = WithoutOverlaps(s)
              /\ \A k \in 1..Len(s) : f[k] = Apply(f[k - 1], s[k])
  <1> DEFINE n == Len(s)
             V == Seq(K)
             h == [p \in V \X (1..n) |-> Apply(p[1], s[p[2]])]
             Eq(g) == g = [T \in SUBSET (1..n) |->
                             IF T = {} THEN <<>> ELSE Apply(g[T \ {Max(T)}], s[Max(T)])]
             G == CHOOSE g : Eq(g)
  <1>1. n \in Nat /\ DOMAIN s = 1..n /\ \A k \in 1..n : s[k] \in K
    OBVIOUS
  <1>e. <<>> \in V
    OBVIOUS
  <1>a. ASSUME NEW v \in V, NEW x \in K PROVE Apply(v, x) \in V
    BY <1>a DEF Apply
  <1>3. WithoutOverlaps(s) = G[1..n]
    BY <1>1 DEF WithoutOverlaps, FoldLeft, MapThenFoldSet, Apply
  <1> HIDE DEF V
  <1>2. \A v \in V, k \in 1..n : h[<<v, k>>] = Apply(v, s[k]) /\ h[<<v, k>>] \in V
    BY <1>1, <1>a
  <1> HIDE DEF h, n
  <1>4. \A T \in SUBSET (1..n) : T # {} => Max(T) \in 1..n /\ T \ {Max(T)} \in SUBSET (1..n)
    BY <1>1, Intervals
  <1>5. \E g : Eq(g)
    <2>1. PICK g : IsFoldLeft(g, n, V, <<>>, h)
      BY <1>1, <1>e, <1>2, FoldLeftExists
    <2>2. ASSUME NEW T \in SUBSET (1..n), T # {}
          PROVE  g[T] = Apply(g[T \ {Max(T)}], s[Max(T)])
      BY <1>2, <1>4, <2>1, <2>2 DEF IsFoldLeft
    <2>3. Eq(g)
      BY <2>1, <2>2 DEF IsFoldLeft
    <2>4. QED
      BY <2>3
  <1>6. Eq(G)
    BY <1>5
  <1> HIDE DEF G
  <1>7. Computes(G, n, V, <<>>, h)
    BY <1>2, <1>4, <1>6 DEF Computes
  <1>8. PICK f : Steps(f, n, V, <<>>, h, G[1..n])
    BY <1>1, <1>e, <1>2, <1>7, FoldLeftSteps
  <1>9. \A k \in 1..n : f[k] = Apply(f[k - 1], s[k])
    BY <1>1, <1>2, <1>8 DEF Steps
  <1>10. QED
    BY <1>3, <1>8, <1>9 DEF n, Steps, V

\* What the first k of s leave: in the order of s, none of the lines of another, and what
\* is not among it overlaps what s has before.
Separate(out, s, k) ==
    /\ \A i \in 1..Len(out) : out[i] \in ToSet(s) /\ Rank(s, out[i]) <= k
    /\ \A i, j \in 1..Len(out) : i < j => /\ Rank(s, out[i]) < Rank(s, out[j])
                                          /\ ~Overlaps(out[j], out[i])
LeftOut(out, s, k) ==
    \A i \in 1..k : \/ s[i] \in ToSet(out)
                    \/ \E y \in ToSet(out) : Overlaps(s[i], y) /\ Rank(s, y) < i

\* Overlaps goes both ways.
LEMMA OverlapsBoth == \A x, y : Overlaps(x, y) <=> Overlaps(y, x)
  BY DEF Overlaps

\* One hit more is kept, or overlaps one that is.
LEMMA SeparateNext ==
    ASSUME NEW K, NEW s, IsList(s, K), NEW k \in Nat, k + 1 \in 1..Len(s), NEW out \in Seq(K),
           Separate(out, s, k), LeftOut(out, s, k)
    PROVE  /\ Separate(Apply(out, s[k + 1]), s, k + 1)
           /\ LeftOut(Apply(out, s[k + 1]), s, k + 1)
  <1> DEFINE x == s[k + 1]
             n == Len(out)
  <1>1. x \in ToSet(s) /\ Rank(s, x) = k + 1 /\ x \in K
    <2>1. x \in ToSet(s) /\ Rank(s, x) = k + 1
      BY RankIs
    <2>2. QED
      BY <2>1, ListIs DEF IsList
  <1>2. n \in Nat /\ ToSet(out) = {out[i] : i \in 1..n}
    BY ListIs
  <1>3. \A y \in ToSet(s) : Rank(s, y) \in Nat
    <2>1. \A y \in ToSet(s) : Rank(s, y) \in 1..Len(s)
      BY RankIs
    <2>2. QED
      BY <2>1
  <1> HIDE DEF x
  <1>i. \A i \in 1..(k + 1) : i = k + 1 \/ i \in 1..k
    OBVIOUS
  <1>4. CASE \E y \in ToSet(out) : Overlaps(x, y)
    <2>1. Apply(out, x) = out
      BY <1>4 DEF Apply
    <2>2. \A i \in 1..n : Rank(s, out[i]) <= k + 1
      BY <1>3 DEF Separate
    <2>3. Separate(out, s, k + 1)
      BY <2>2 DEF Separate
    <2>4. PICK y \in ToSet(out) : Overlaps(x, y)
      BY <1>4
    <2>5. Rank(s, y) < k + 1
      <3>1. PICK i \in 1..n : y = out[i]
        BY <1>2
      <3>2. Rank(s, y) <= k /\ Rank(s, y) \in Nat
        BY <1>3, <3>1 DEF Separate
      <3>3. QED
        BY <3>2
    <2>6. LeftOut(out, s, k + 1)
      BY <1>i, <2>4, <2>5 DEF LeftOut, x
    <2>7. QED
      BY <2>1, <2>3, <2>6 DEF x
  <1>5. CASE ~\E y \in ToSet(out) : Overlaps(x, y)
    <2> DEFINE new == Append(out, x)
    <2>1. Apply(out, x) = new
      BY <1>5 DEF Apply
    <2>2. /\ new \in Seq(K) /\ Len(new) = n + 1 /\ new[n + 1] = x
          /\ \A i \in 1..n : new[i] = out[i]
      BY <1>1
    <2>3. ToSet(new) = {new[i] : i \in 1..(n + 1)}
      BY <2>2, ListIs
    <2>j. \A i \in 1..(n + 1) : i = n + 1 \/ i \in 1..n
      BY <1>2
    <2> HIDE DEF new
    <2>4. ToSet(out) \subseteq ToSet(new) /\ x \in ToSet(new)
      <3>1. n + 1 \in 1..(n + 1) /\ \A i \in 1..n : i \in 1..(n + 1)
        BY <1>2
      <3> HIDE DEF n
      <3>2. QED
        BY <1>2, <2>2, <2>3, <3>1
    <2>5. LeftOut(new, s, k + 1)
      BY <1>i, <2>4 DEF LeftOut, x
    <2>6. \A i \in 1..(n + 1) : new[i] \in ToSet(s) /\ Rank(s, new[i]) <= k + 1
      <3> TAKE i \in 1..(n + 1)
      <3>1. CASE i = n + 1
        BY <1>1, <2>2, <3>1
      <3>2. CASE i \in 1..n
        <4>1. new[i] = out[i] /\ out[i] \in ToSet(s) /\ Rank(s, out[i]) <= k
          BY <2>2, <3>2 DEF Separate
        <4>2. Rank(s, out[i]) \in Nat
          BY <1>3, <4>1
        <4>3. QED
          BY <4>1, <4>2
      <3>3. QED
        BY <2>j, <3>1, <3>2
    <2>7. ASSUME NEW i \in 1..(n + 1), NEW j \in 1..(n + 1), i < j
          PROVE  Rank(s, new[i]) < Rank(s, new[j]) /\ ~Overlaps(new[j], new[i])
      <3>1. i \in 1..n
        BY <2>7, <1>2
      <3>2. CASE j \in 1..n
        BY <2>2, <2>7, <3>1, <3>2 DEF Separate
      <3>3. CASE j = n + 1
        <4>1. new[j] = x /\ new[i] = out[i] /\ out[i] \in ToSet(out)
          BY <1>2, <2>2, <3>1, <3>3
        <4>2. Rank(s, out[i]) <= k /\ Rank(s, out[i]) \in Nat
          BY <1>3, <3>1 DEF Separate
        <4>3. QED
          BY <4>1, <4>2, <1>1, <1>5
      <3>4. QED
        BY <2>j, <3>2, <3>3
    <2>8. Separate(new, s, k + 1)
      BY <2>2, <2>6, <2>7 DEF Separate
    <2>9. QED
      BY <2>1, <2>5, <2>8 DEF x
  <1>6. QED
    BY <1>4, <1>5

\* So what is left of a ranking s is a list, in the order of s, of which no two overlap,
\* and what is left out overlaps what is before it.
Thinned(out, s, K) ==
    /\ IsList(out, K) /\ ToSet(out) \subseteq ToSet(s)
    /\ \A x, y \in ToSet(out) : /\ Rank(s, x) < Rank(s, y) <=> Rank(out, x) < Rank(out, y)
                                /\ x # y => ~Overlaps(x, y)
    /\ \A x \in ToSet(s) \ ToSet(out) :
         \E y \in ToSet(out) : Overlaps(x, y) /\ Rank(s, y) < Rank(s, x)

\* So the hits are thinned.
LEMMA WithoutOverlapsIs ==
    ASSUME NEW K, NEW s, IsList(s, K)
    PROVE  Thinned(WithoutOverlaps(s), s, K)
  <1> DEFINE n == Len(s)
             out == WithoutOverlaps(s)
  <1>0. s \in Seq(K) /\ n \in Nat /\ ToSet(s) = {s[i] : i \in 1..n}
    BY ListIs DEF IsList
  <1>1. PICK f \in [0..n -> Seq(K)] :
           /\ f[0] = <<>> /\ f[n] = out
           /\ \A k \in 1..n : f[k] = Apply(f[k - 1], s[k])
    BY <1>0, WithoutOverlapsSteps
  <1> HIDE DEF n, out
  <1> DEFINE P == {k \in 0..n : Separate(f[k], s, k) /\ LeftOut(f[k], s, k)}
  <1>2. 0 \in P
    <2>1. Separate(<<>>, s, 0) /\ LeftOut(<<>>, s, 0)
      BY DEF Separate, LeftOut
    <2>2. QED
      BY <1>0, <1>1, <2>1
  <1>3. ASSUME NEW k \in 0..n, k # n, k \in P PROVE k + 1 \in P
    <2>a. n \in Nat /\ k \in 0..n /\ k # n
      BY <1>0, <1>3
    <2>b. k \in Nat /\ k + 1 \in 1..n /\ (k + 1) - 1 = k /\ k + 1 \in 0..n
      BY <2>a
    <2>c. f[k] \in Seq(K)
      BY <1>1
    <2>1. k \in Nat /\ k + 1 \in 1..n /\ (k + 1) - 1 = k /\ f[k] \in Seq(K) /\ k + 1 \in 0..n
      BY <2>b, <2>c
    <2>2. f[k + 1] = Apply(f[k], s[k + 1])
      BY <1>1, <2>1
    <2>3. k + 1 \in 1..Len(s) /\ Separate(f[k], s, k) /\ LeftOut(f[k], s, k)
      BY <1>3, <2>1 DEF n
    <2>4. /\ Separate(Apply(f[k], s[k + 1]), s, k + 1)
          /\ LeftOut(Apply(f[k], s[k + 1]), s, k + 1)
      BY <2>1, <2>3, SeparateNext
    <2>5. QED
      BY <2>1, <2>2, <2>4
  <1>4. 0..n \subseteq P
    <2> HIDE DEF P
    <2>1. QED
      BY <1>0, <1>2, <1>3, InductionTo
  <1>5. Separate(out, s, n) /\ LeftOut(out, s, n) /\ out \in Seq(K)
    <2>1. n \in 0..n
      BY <1>0
    <2>2. QED
      BY <1>1, <1>4, <2>1
  <1>6. Len(out) \in Nat /\ ToSet(out) = {out[i] : i \in 1..Len(out)}
    BY <1>5, ListIs
  <1>r. /\ \A y \in ToSet(s) : Rank(s, y) \in 1..n /\ s[Rank(s, y)] = y
        /\ \A i \in 1..n : s[i] \in ToSet(s) /\ Rank(s, s[i]) = i
    BY RankIs DEF n
  <1>7. NoRepeats(out)
    <2> SUFFICES ASSUME NEW i \in 1..Len(out), NEW j \in 1..Len(out), out[i] = out[j]
                 PROVE  i = j
      BY DEF NoRepeats
    <2>1. Rank(s, out[i]) \in Int
      <3>1. out[i] \in ToSet(s)
        BY <1>5 DEF Separate
      <3>2. Rank(s, out[i]) \in 1..n
        BY <1>r, <3>1
      <3>3. QED
        BY <3>2
    <2>2. i < j => Rank(s, out[i]) < Rank(s, out[j])
      BY <1>5 DEF Separate
    <2>3. j < i => Rank(s, out[j]) < Rank(s, out[i])
      BY <1>5 DEF Separate
    <2>4. QED
      BY <1>6, <2>1, <2>2, <2>3
  <1>8. IsList(out, K) /\ ToSet(out) \subseteq ToSet(s)
    <2>1. ToSet(out) \subseteq ToSet(s)
      BY <1>5, <1>6 DEF Separate
    <2>2. QED
      BY <1>5, <1>7, <2>1 DEF IsList
  <1>9. ASSUME NEW x \in ToSet(out), NEW y \in ToSet(out)
        PROVE  /\ Rank(s, x) < Rank(s, y) <=> Rank(out, x) < Rank(out, y)
               /\ x # y => ~Overlaps(x, y)
    <2> DEFINE i == Rank(out, x)
               j == Rank(out, y)
    <2>1. i \in 1..Len(out) /\ out[i] = x /\ j \in 1..Len(out) /\ out[j] = y
      BY <1>8, RankIs
    <2>2. Rank(s, x) \in 1..n /\ Rank(s, y) \in 1..n
      BY <1>8, <1>r
    <2> HIDE DEF i, j
    <2>3. /\ i < j => Rank(s, x) < Rank(s, y) /\ ~Overlaps(y, x)
          /\ j < i => Rank(s, y) < Rank(s, x) /\ ~Overlaps(x, y)
      BY <1>5, <2>1 DEF Separate
    <2>4. i = j => x = y
      BY <2>1
    <2>5. x # y => ~Overlaps(x, y)
      <3>1. i \in Int /\ j \in Int
        BY <2>1, <1>6
      <3>2. x # y => i < j \/ j < i
        BY <2>4, <3>1
      <3>3. QED
        BY <2>3, <3>2, OverlapsBoth
    <2>6. Rank(s, x) < Rank(s, y) <=> i < j
      <3>1. i \in Int /\ j \in Int /\ Rank(s, x) \in Int /\ Rank(s, y) \in Int
        BY <2>1, <2>2, <1>6
      <3> DEFINE a == Rank(s, x)
                 b == Rank(s, y)
      <3>2. (i < j => a < b) /\ (j < i => b < a) /\ (i = j => a = b)
        BY <2>3, <2>4
      <3>3. a \in Int /\ b \in Int
        BY <3>1
      <3> HIDE DEF a, b
      <3>4. a < b <=> i < j
        BY <3>1, <3>2, <3>3
      <3>5. QED
        BY <3>4 DEF a, b
    <2>7. QED
      BY <2>5, <2>6 DEF i, j
  <1>10. ASSUME NEW x \in ToSet(s) \ ToSet(out)
         PROVE  \E y \in ToSet(out) : Overlaps(x, y) /\ Rank(s, y) < Rank(s, x)
    <2>1. Rank(s, x) \in 1..n /\ s[Rank(s, x)] = x
      BY <1>r
    <2>2. QED
      BY <1>5, <2>1 DEF LeftOut
  <1>11. QED
    BY <1>8, <1>9, <1>10 DEF Thinned, out

\* The merged ranking: what is exact is before what is not, and what the first list has
\* before another, and the second has not.
MergedOrder(s, list, live, exact) ==
    \A x, y \in ToSet(s) :
      /\ x \in exact /\ y \notin exact => Rank(s, x) < Rank(s, y)
      /\ (x \in exact <=> y \in exact) /\ InOrder(list, x, y) /\ y \notin ToSet(live)
           => Rank(s, x) < Rank(s, y)

\* Two lists, merged by mergeServiceHits before it leaves anything out.
LEMMA MergedIs ==
    ASSUME NEW K \in SUBSET Nat, IsFiniteSet(K), NEW list, NEW live, IsList(list, K),
           IsList(live, K), Len(list) <= Fetch, Len(live) <= Fetch,
           NEW exact \in SUBSET Candidates(<<list, live>>)
    PROVE  LET s == Ranked(exact, <<list, live>>, <<1, 1>>)
           IN /\ IsList(s, K) /\ ToSet(s) = ToSet(list) \cup ToSet(live)
              /\ MergedOrder(s, list, live, exact)
  <1> DEFINE lists == <<list, live>>
             w == <<1, 1>>
             all == exact \cup Candidates(lists)
             sc == [x \in all |-> Score(lists, w, x)]
             s == Ranked(exact, lists, w)
  <1>1. RankingsOK(lists, w, K)
    <2>1. list \in Seq(K) /\ live \in Seq(K)
      BY DEF IsList
    <2>2. lists \in Seq(Seq(K)) /\ Len(lists) = 2 /\ lists[1] = list /\ lists[2] = live
      BY <2>1
    <2>3. w \in Seq(Nat) /\ Len(w) = 2
      OBVIOUS
    <2>4. \A i \in 1..2 : i = 1 \/ i = 2
      OBVIOUS
    <2> HIDE DEF lists, w
    <2>5. QED
      BY <2>2, <2>3, <2>4 DEF RankingsOK
  <1>2. /\ DOMAIN lists = {1, 2} /\ lists[1] = list /\ lists[2] = live
        /\ \A i \in {1, 2} : w[i] > 0
    OBVIOUS
  <1>3. Candidates(lists) = ToSet(list) \cup ToSet(live) /\ all = Candidates(lists)
    <2>1. Candidates(lists) = ToSet(list) \cup ToSet(live)
      BY <1>2 DEF Candidates
    <2>2. QED
      BY <2>1
  <1>4. all \in SUBSET K /\ all \in SUBSET Nat
    <2>1. Candidates(lists) \subseteq K
      BY <1>1, CandidatesIn
    <2>2. QED
      BY <1>3, <2>1
  <1>5. IsFiniteSet(all)
    BY <1>4, FS_Subset
  <1>6. sc \in [all -> Nat] /\ \A x \in all : sc[x] = Score(lists, w, x)
    <2>1. \A x : Score(lists, w, x) \in Nat
      <3> HIDE DEF lists, w
      <3>1. QED
        BY <1>1, ScoreIs
    <2>2. QED
      BY <2>1
  <1>7. RankedBy(s, all, exact, sc)
    <2>1. \A x \in all : sc[x] \in Nat
      BY <1>6
    <2>2. sc = [x \in all |-> Score(lists, w, x)] /\ all = exact \cup Candidates(lists)
      OBVIOUS
    <2> HIDE DEF all, sc, lists, w
    <2>3. QED
      BY <1>4, <1>5, <2>1, <2>2, RankedIs
  <1> HIDE DEF lists, w, all, sc, s
  <1>8. IsList(s, all) /\ ToSet(s) = all
    BY <1>7 DEF RankedBy
  <1>9. IsList(s, K)
    BY <1>4, <1>8, ListOfMore
  <1>10. ASSUME NEW x \in all, NEW y \in all, x \in exact <=> y \in exact,
                InOrder(list, x, y), y \notin ToSet(live)
         PROVE  Rank(s, x) < Rank(s, y)
    <2>1. \A i \in DOMAIN lists : y \in ToSet(lists[i]) => InOrder(lists[i], x, y)
      BY <1>2, <1>10
    <2>2. \E i \in DOMAIN lists : x \in ToSet(lists[i])
      BY <1>2, <1>10 DEF InOrder
    <2>3. Score(lists, w, y) < Score(lists, w, x)
      BY <1>1, <1>2, <2>1, <2>2, ScoreOrder
    <2>4. sc[y] < sc[x]
      BY <1>6, <2>3
    <2>5. QED
      BY <1>6, <1>7, <1>10, <2>4, RankedOrder
  <1>11. ASSUME NEW x \in all, NEW y \in all, x \in exact, y \notin exact
         PROVE  Rank(s, x) < Rank(s, y)
    BY <1>6, <1>7, <1>11, RankedOrder
  <1>12. MergedOrder(s, list, live, exact)
    BY <1>8, <1>10, <1>11 DEF MergedOrder
  <1>13. QED
    BY <1>3, <1>8, <1>9, <1>12 DEF s, lists, w

\* What an answer is made from: the unsaved files, and what the store has found.
AnswerFrom(list, exact, lists) ==
    /\ IsList(hits.live, Unsaved) /\ Len(hits.live) <= Fetch /\ hits.liveExact \subseteq Unsaved
    /\ FoundIn(list, exact, lists, Visible)
    /\ FoundOrder(list, exact, lists) /\ FoundEnough(list, exact, lists)
    /\ DOMAIN lists # {} /\ Candidates(lists) \subseteq Visible
    /\ Rankers = {lists[i] : i \in DOMAIN lists}
    /\ hits.exact = exact \cup hits.liveExact
    /\ hits.answer = Merge([list |-> list, exact |-> exact])
    /\ search.k \in Nat

\* What may be found is stored and not hidden, or unsaved and not deleted.
LEMMA VisibleOK ==
    /\ IsFiniteSet(SearchKey) /\ SearchKey \in SUBSET Nat
    /\ Visible \in SUBSET SearchKey /\ Unsaved \in SUBSET SearchKey
    /\ IsFiniteSet(Visible) /\ IsFiniteSet(Unsaved)
    /\ Visible \in SUBSET Nat /\ Unsaved \in SUBSET Nat
    /\ \A x \in Visible : x \in Durable /\ Place[x].path \notin HiddenPaths
    /\ \A x \in Unsaved : /\ x \notin Durable /\ Place[x].path \in HiddenPaths
                          /\ overlay[Place[x].path] # "deleted"
  <1>1. IsFiniteSet(SearchKey) /\ SearchKey \in SUBSET Nat
    BY CodeAssumption DEF SearchKey
  <1>2. Visible \in SUBSET SearchKey /\ Unsaved \in SUBSET SearchKey
    BY DEF Visible, Unsaved, Durable
  <1>3. IsFiniteSet(Visible) /\ IsFiniteSet(Unsaved)
    BY <1>1, <1>2, FS_Subset
  <1>4. /\ \A x \in Visible : x \in Durable /\ Place[x].path \notin HiddenPaths
        /\ \A x \in Unsaved : /\ x \notin Durable /\ Place[x].path \in HiddenPaths
                              /\ overlay[Place[x].path] # "deleted"
    BY DEF Visible, Unsaved
  <1>5. QED
    BY <1>1, <1>2, <1>3, <1>4

\* What is listed is what is left of a merged ranking, cut.
Shown(h, out, k) ==
    /\ Len(h) <= k /\ Len(h) = Cardinality(ToSet(h)) /\ ToSet(h) \subseteq ToSet(out)
    /\ \A x \in ToSet(h) : Rank(h, x) = Rank(out, x)
    /\ \A x \in ToSet(out) \ ToSet(h) :
         Len(h) = k /\ \A y \in ToSet(h) : Rank(out, y) < Rank(out, x)

\* So an answer is a merged ranking, thinned and cut.
LEMMA MergedHits ==
    ASSUME NEW list, NEW exact, NEW lists, AnswerFrom(list, exact, lists)
    PROVE  \E s, out :
             /\ IsList(s, SearchKey) /\ ToSet(s) = ToSet(list) \cup ToSet(hits.live)
             /\ MergedOrder(s, list, hits.live,
                            hits.exact \cap (ToSet(list) \cup ToSet(hits.live)))
             /\ Thinned(out, s, SearchKey) /\ Shown(hits.answer, out, search.k)
  <1> DEFINE live == hits.live
             both == Candidates(<<list, live>>)
             ex == hits.exact \cap both
             s == Ranked(ex, <<list, live>>, <<1, 1>>)
             out == WithoutOverlaps(s)
  <1>1. both = ToSet(list) \cup ToSet(live)
    <2> DEFINE l == <<list, live>>
    <2>1. DOMAIN l = {1, 2} /\ l[1] = list /\ l[2] = live
      OBVIOUS
    <2> HIDE DEF l
    <2>2. Candidates(l) = ToSet(list) \cup ToSet(live)
      BY <2>1 DEF Candidates
    <2>3. QED
      BY <2>2 DEF l
  <1>2. hits.answer = Cut(out, search.k)
    <2> DEFINE d == [list |-> list, exact |-> exact]
    <2>1. hits.answer = Merge(d) /\ d.list = list /\ d.exact = exact
          /\ hits.exact = exact \cup hits.liveExact
      BY DEF AnswerFrom
    <2> HIDE DEF d
    <2>2. QED
      BY <2>1 DEF Merge, WithoutOverlaps
  <1>3. /\ IsList(list, SearchKey) /\ Len(list) <= Fetch
        /\ IsList(live, SearchKey) /\ Len(live) <= Fetch
    BY VisibleOK, ListOfMore DEF AnswerFrom, FoundIn
  <1>4. ex \in SUBSET Candidates(<<list, live>>)
    OBVIOUS
  <1> HIDE DEF ex, live, both
  <1>5. /\ IsList(s, SearchKey) /\ ToSet(s) = ToSet(list) \cup ToSet(live)
        /\ MergedOrder(s, list, live, ex)
    BY <1>3, <1>4, VisibleOK, MergedIs
  <1> HIDE DEF s
  <1>6. Thinned(out, s, SearchKey)
    BY <1>5, WithoutOverlapsIs
  <1> HIDE DEF out
  <1>7. Shown(hits.answer, out, search.k)
    <2>1. IsList(out, SearchKey) /\ search.k \in Nat
      BY <1>6 DEF Thinned, AnswerFrom
    <2> DEFINE Cuts(c, l, n) ==
                 /\ IsList(c, SearchKey) /\ Len(c) <= n /\ Len(c) = Cardinality(ToSet(c))
                 /\ \A x \in ToSet(c) : x \in ToSet(l) /\ Rank(c, x) = Rank(l, x)
                 /\ \A x \in ToSet(l) \ ToSet(c) :
                      Len(c) = n /\ \A y \in ToSet(c) : Rank(l, y) < Rank(l, x)
    <2>2. Cuts(Cut(out, search.k), out, search.k)
      BY <2>1, CutRanks
    <2>3. Cuts(hits.answer, out, search.k)
      BY <1>2, <2>2
    <2>4. QED
      BY <2>3 DEF Shown
  <1>8. QED
    BY <1>1, <1>5, <1>6, <1>7 DEF live, ex

\* What every ranking has before another of those that are stored is before it in what
\* the store finds, and so in the merged ranking.
LEMMA StoredBefore ==
    ASSUME NEW list, NEW exact, NEW lists, AnswerFrom(list, exact, lists), NEW s,
           MergedOrder(s, list, hits.live, hits.exact \cap (ToSet(list) \cup ToSet(hits.live))),
           ToSet(s) = ToSet(list) \cup ToSet(hits.live),
           NEW x \in ToSet(s), NEW y \in ToSet(s), x \in Durable, y \in Durable,
           RankedBefore(x, y)
    PROVE  Rank(s, x) < Rank(s, y)
  <1>1. \A z \in ToSet(hits.live) : z \notin Durable
    <2>1. ToSet(hits.live) \subseteq Unsaved
      BY ListIs DEF AnswerFrom, IsList
    <2>2. QED
      BY <2>1, VisibleOK
  <1>2. x \in ToSet(list) /\ y \in ToSet(list) /\ y \notin ToSet(hits.live)
    BY <1>1
  <1>3. x \notin hits.liveExact /\ y \notin hits.liveExact
    BY VisibleOK DEF AnswerFrom
  <1>4. hits.exact = exact \cup hits.liveExact
    BY DEF AnswerFrom
  <1>5. x \in exact <=> y \in exact
    BY <1>3, <1>4 DEF RankedBefore
  <1>6. AllBefore(lists, x, y)
    BY DEF AllBefore, RankedBefore, AnswerFrom
  <1>7. Rank(list, x) < Rank(list, y)
    BY <1>2, <1>5, <1>6 DEF AnswerFrom, FoundOrder
  <1>8. InOrder(list, x, y)
    BY <1>2, <1>7 DEF InOrder
  <1>9. QED
    BY <1>2, <1>8 DEF MergedOrder, RankedBefore

\* What the rankings and the exact matches have is stored, and visible.
LEMMA FoundIs ==
    ASSUME NEW list, NEW exact, NEW lists, AnswerFrom(list, exact, lists)
    PROVE  /\ FoundStored = exact \cup Candidates(lists)
           /\ FoundStored \subseteq Visible /\ ToSet(list) \subseteq FoundStored
           /\ ToSet(hits.live) \subseteq Unsaved
  <1>1. exact \subseteq Visible /\ Candidates(lists) \subseteq Visible
    BY DEF AnswerFrom, FoundIn
  <1>2. hits.exact \cap Durable = exact
    <2>1. hits.exact = exact \cup hits.liveExact /\ hits.liveExact \subseteq Unsaved
      BY DEF AnswerFrom
    <2>2. QED
      BY <1>1, <2>1, VisibleOK
  <1>3. UNION {ToSet(l) : l \in Rankers} = Candidates(lists)
    BY DEF AnswerFrom, Candidates
  <1>4. FoundStored = exact \cup Candidates(lists)
    BY <1>2, <1>3 DEF FoundStored
  <1>5. ToSet(list) \subseteq FoundStored
    BY <1>4 DEF AnswerFrom, FoundIn
  <1>6. ToSet(hits.live) \subseteq Unsaved
    BY ListIs DEF AnswerFrom, IsList
  <1>7. QED
    BY <1>1, <1>4, <1>5, <1>6

\* Why a candidate is missing.
LEMMA MissingIs ==
    ASSUME NEW list, NEW exact, NEW lists, AnswerFrom(list, exact, lists), NEW s, NEW out,
           IsList(s, SearchKey), ToSet(s) = ToSet(list) \cup ToSet(hits.live),
           MergedOrder(s, list, hits.live, hits.exact \cap (ToSet(list) \cup ToSet(hits.live))),
           Thinned(out, s, SearchKey), Shown(hits.answer, out, search.k),
           NEW x \in (FoundStored \cup ToSet(hits.live)) \ Listed
    PROVE  MayBeLeftOut(x)
  <1>l. Listed = ToSet(hits.answer)
    BY DEF Listed
  <1>r. \A y \in ToSet(s) : Rank(s, y) \in Int
    <2>1. \A y \in ToSet(s) : Rank(s, y) \in 1..Len(s)
      BY RankIs
    <2>2. QED
      BY <2>1
  <1>e. ASSUME NEW y \in ToSet(s), NEW z \in ToSet(s), Rank(s, y) < Rank(s, z), z \in hits.exact
        PROVE  y \in hits.exact
    <2>1. ~(Rank(s, z) < Rank(s, y))
      BY <1>r, <1>e
    <2>2. QED
      BY <1>e, <2>1 DEF MergedOrder
  <1>o. /\ ToSet(hits.answer) \subseteq ToSet(out) /\ ToSet(out) \subseteq ToSet(s)
        /\ \A y, z \in ToSet(out) : Rank(out, y) < Rank(out, z) => Rank(s, y) < Rank(s, z)
    BY DEF Shown, Thinned
  <1>c. ASSUME NEW y \in ToSet(out) \ ToSet(hits.answer)
        PROVE  /\ Len(hits.answer) = search.k
               /\ y \in hits.exact => Listed \subseteq hits.exact
    <2>1. /\ Len(hits.answer) = search.k
          /\ \A z \in ToSet(hits.answer) : Rank(out, z) < Rank(out, y)
      BY DEF Shown
    <2>2. \A z \in ToSet(hits.answer) : Rank(s, z) < Rank(s, y)
      BY <2>1, <1>o
    <2>3. QED
      BY <2>1, <2>2, <1>e, <1>l, <1>o
  <1>1. CASE x \notin ToSet(s)
    <2>1. x \in (exact \cup Candidates(lists)) \ ToSet(list)
      BY <1>1, FoundIs
    <2>2. /\ Cardinality(exact \cup Candidates(lists)) > Fetch
          /\ x \in exact => Cardinality(exact) > Fetch
      BY <2>1 DEF AnswerFrom, FoundEnough
    <2>v. x \in Visible
      <3>1. FoundStored = exact \cup Candidates(lists) /\ FoundStored \subseteq Visible
        BY FoundIs
      <3>2. QED
        BY <2>1, <3>1
    <2>3. x \in Durable /\ x \in Visible
      BY <2>v, VisibleOK
    <2>4. x \in hits.exact => Cardinality(hits.exact) > Fetch
      <3> SUFFICES ASSUME x \in hits.exact PROVE Cardinality(hits.exact) > Fetch
        OBVIOUS
      <3>1. hits.exact = exact \cup hits.liveExact /\ hits.liveExact \subseteq Unsaved
            /\ exact \subseteq Visible
        BY DEF AnswerFrom, FoundIn
      <3>2. x \in exact
        BY <2>3, <3>1, VisibleOK
      <3>3. hits.exact \in SUBSET SearchKey /\ exact \in SUBSET hits.exact
        BY <3>1, VisibleOK
      <3>4. IsFiniteSet(hits.exact)
        BY <3>3, VisibleOK, FS_Subset
      <3>5. IsFiniteSet(exact) /\ Cardinality(exact) <= Cardinality(hits.exact)
        BY <3>3, <3>4, FS_Subset
      <3>6. Cardinality(exact) \in Nat /\ Cardinality(hits.exact) \in Nat
        BY <3>4, <3>5, FS_CardinalityType
      <3>7. Cardinality(exact) > Fetch
        BY <2>2, <3>2
      <3>8. QED
        BY <3>5, <3>6, <3>7, FetchAssumption
    <2>5. Cardinality(FoundStored) > Fetch
      BY <2>2, FoundIs
    <2>6. QED
      BY <2>3, <2>4, <2>5 DEF MayBeLeftOut
  <1>2. CASE x \in ToSet(out)
    BY <1>2, <1>c, <1>l DEF MayBeLeftOut
  <1>3. CASE x \in ToSet(s) \ ToSet(out)
    <2>1. PICK y \in ToSet(out) : Overlaps(x, y) /\ Rank(s, y) < Rank(s, x)
      BY <1>3 DEF Thinned
    <2>2. y \in ToSet(s) /\ (x \in hits.exact => y \in hits.exact)
      BY <2>1, <1>3, <1>e, <1>o
    <2>3. CASE y \in ToSet(hits.answer)
      <3>1. ASSUME RankedBefore(x, y) PROVE FALSE
        <4>1. \A i \in DOMAIN lists : x \in ToSet(lists[i])
          BY <3>1 DEF RankedBefore, AnswerFrom
        <4>2. x \in Visible
          BY <4>1 DEF AnswerFrom, Candidates
        <4>3. Place[x].path = Place[y].path
          BY <2>1 DEF Overlaps
        <4>4. y \notin Unsaved
          BY <4>2, <4>3, VisibleOK
        <4>5. y \in Visible
          BY <2>2, <4>4, FoundIs
        <4>6. Rank(s, x) < Rank(s, y)
          BY <1>3, <2>2, <3>1, <4>2, <4>5, VisibleOK, StoredBefore
        <4>7. QED
          BY <1>3, <1>r, <2>1, <2>2, <4>6
      <3>2. QED
        BY <2>1, <2>2, <2>3, <3>1, <1>l DEF MayBeLeftOut
    <2>4. CASE y \notin ToSet(hits.answer)
      <3>1. /\ Len(hits.answer) = search.k
            /\ y \in hits.exact => Listed \subseteq hits.exact
        BY <2>4, <1>c
      <3>2. QED
        BY <2>2, <3>1 DEF MayBeLeftOut
    <2>5. QED
      BY <2>3, <2>4
  <1>4. QED
    BY <1>1, <1>2, <1>3

\* The answer that is made from them.
LEMMA AnswerIs ==
    ASSUME NEW list, NEW exact, NEW lists, AnswerFrom(list, exact, lists),
           hits.degraded => ~hits.usedVector /\ hits.answer = Merge(TextExact)
    PROVE  SearchIsRanked
  <1>1. PICK s, out :
             /\ IsList(s, SearchKey) /\ ToSet(s) = ToSet(list) \cup ToSet(hits.live)
             /\ MergedOrder(s, list, hits.live,
                            hits.exact \cap (ToSet(list) \cup ToSet(hits.live)))
             /\ Thinned(out, s, SearchKey) /\ Shown(hits.answer, out, search.k)
    BY MergedHits
  <1>2. Listed = ToSet(hits.answer) /\ Listed \subseteq ToSet(out) /\ ToSet(out) \subseteq ToSet(s)
    BY <1>1 DEF Listed, Shown, Thinned
  <1>3. ASSUME NEW x \in Listed, NEW y \in Listed, Rank(s, x) < Rank(s, y) PROVE Before(x, y)
    <2>1. Rank(out, x) < Rank(out, y)
      BY <1>1, <1>2, <1>3 DEF Thinned
    <2>2. QED
      BY <1>1, <1>2, <2>1 DEF Before, Shown
  <1>4. Len(hits.answer) = Cardinality(Listed) /\ Len(hits.answer) <= search.k
    BY <1>1, <1>2 DEF Shown
  <1>5. \A x \in Listed : IF x \in Durable THEN Place[x].path \notin HiddenPaths
                          ELSE Place[x].path \in HiddenPaths /\ overlay[Place[x].path] # "deleted"
    <2> TAKE x \in Listed
    <2>1. x \in Visible \/ x \in Unsaved
      BY <1>1, <1>2, FoundIs
    <2>2. QED
      BY <2>1, VisibleOK
  <1>6. \A x, y \in Listed : x # y => ~Overlaps(x, y)
    BY <1>1, <1>2 DEF Thinned
  <1>7. \A x \in Listed \cap hits.exact, y \in Listed \ hits.exact : Before(x, y)
    BY <1>1, <1>2, <1>3 DEF MergedOrder
  <1>8. \A x, y \in Listed \cap Durable : RankedBefore(x, y) => Before(x, y)
    BY <1>1, <1>2, <1>3, StoredBefore
  <1>9. \A x \in (FoundStored \cup ToSet(hits.live)) \ Listed : MayBeLeftOut(x)
    BY <1>1, MissingIs
  <1>10. QED
    BY <1>4, <1>5, <1>6, <1>7, <1>8, <1>9 DEF SearchIsRanked

\* The spec of a code search on its own.
CodeSearchSpec == CodeSearchInit /\ [][CodeSearchNext]_codeSearchVars

\* The unsaved files, and what the indexes rank, from when they are found.
LiveFound ==
    IsList(hits.live, Unsaved) /\ Len(hits.live) <= Fetch /\ hits.liveExact \subseteq Unsaved
TextFound == IsList(hits.text, Visible) /\ Len(hits.text) <= Fetch
VectorFound == IsList(hits.vector, Visible) /\ Len(hits.vector) <= Fetch

\* What the store has found.
FromStore == IF ~hits.usedVector THEN TextExact
          ELSE IF search.mode = "vector" THEN ByVector ELSE Hybrid

CodeTypes ==
    /\ hits = [live |-> hits.live, liveExact |-> hits.liveExact, text |-> hits.text,
               vector |-> hits.vector, answer |-> hits.answer, exact |-> hits.exact,
               degraded |-> hits.degraded, usedVector |-> hits.usedVector]
    /\ search = [stage |-> search.stage, mode |-> search.mode, k |-> search.k,
                 path |-> search.path, named |-> search.named]
    /\ search.k \in Nat /\ hits.degraded \in BOOLEAN /\ hits.usedVector \in BOOLEAN
    /\ search.stage \in {"none", "asked", "live", "embed", "text", "vector", "answered",
                         "cancelled"}

\* A search has a vector once it is at the stage that has one, and is degraded only
\* without one; its answer is made from what it has found.
CodeInv ==
    /\ CodeTypes
    /\ search.stage \in {"live", "embed", "text", "vector", "answered"} => LiveFound
    /\ search.stage \in {"embed", "text", "vector", "answered"} => TextFound
    /\ search.stage \in {"none", "asked", "live", "embed", "text"} => ~hits.usedVector
    /\ search.stage \in {"none", "asked", "live", "embed", "vector"} => ~hits.degraded
    /\ search.stage = "vector" => hits.usedVector
    /\ search.stage \in {"vector", "answered"} /\ hits.usedVector => VectorFound
    /\ hits.degraded => ~hits.usedVector
    /\ search.stage = "answered" => /\ hits.answer = Merge(FromStore)
                                    /\ hits.exact = FromStore.exact \cup hits.liveExact

\* What matches exactly is visible.
LEMMA ExactIs == Exact \in SUBSET Visible
  BY DEF Exact

\* One or two rankings of the store.
LEMMA OneList ==
    ASSUME NEW l, IsList(l, Visible), Len(l) <= Fetch
    PROVE  /\ RankingsOK(<<l>>, <<1, 1>>, Visible)
           /\ DOMAIN <<l>> # {} /\ {<<l>>[i] : i \in DOMAIN <<l>>} = {l}
  <1>1. l \in Seq(Visible)
    BY DEF IsList
  <1> DEFINE lists == <<l>>
             w == <<1, 1>>
  <1>2. lists \in Seq(Seq(Visible)) /\ Len(lists) = 1 /\ lists[1] = l /\ DOMAIN lists = {1}
    BY <1>1
  <1>3. w \in Seq(Nat) /\ Len(w) = 2 /\ \A i \in 1..1 : i = 1
    OBVIOUS
  <1> HIDE DEF lists, w
  <1>4. RankingsOK(lists, w, Visible)
    BY <1>2, <1>3 DEF RankingsOK
  <1>5. DOMAIN lists # {} /\ {lists[i] : i \in DOMAIN lists} = {l}
    BY <1>2
  <1>6. QED
    BY <1>4, <1>5 DEF lists, w

\* Two of them.
LEMMA TwoStoreLists ==
    ASSUME NEW l, IsList(l, Visible), Len(l) <= Fetch,
           NEW m, IsList(m, Visible), Len(m) <= Fetch
    PROVE  /\ RankingsOK(<<l, m>>, <<1, 1>>, Visible)
           /\ DOMAIN <<l, m>> # {} /\ {<<l, m>>[i] : i \in DOMAIN <<l, m>>} = {l, m}
  <1>1. l \in Seq(Visible) /\ m \in Seq(Visible)
    BY DEF IsList
  <1> DEFINE lists == <<l, m>>
             w == <<1, 1>>
  <1>2. /\ lists \in Seq(Seq(Visible)) /\ Len(lists) = 2 /\ lists[1] = l /\ lists[2] = m
        /\ DOMAIN lists = {1, 2}
    BY <1>1
  <1>3. w \in Seq(Nat) /\ Len(w) = 2 /\ \A i \in 1..2 : i = 1 \/ i = 2
    OBVIOUS
  <1> HIDE DEF lists, w
  <1>4. RankingsOK(lists, w, Visible)
    BY <1>2, <1>3 DEF RankingsOK
  <1>5. DOMAIN lists # {} /\ {lists[i] : i \in DOMAIN lists} = {l, m}
    BY <1>2
  <1>6. QED
    BY <1>4, <1>5 DEF lists, w

\* Vectors alone are the ranking they are.
LEMMA VectorAlone ==
    ASSUME NEW l, IsList(l, Visible), Len(l) <= Fetch
    PROVE  /\ FoundIn(l, {}, <<l>>, Visible) /\ FoundOrder(l, {}, <<l>>)
           /\ FoundEnough(l, {}, <<l>>) /\ Candidates(<<l>>) \subseteq Visible
  <1> DEFINE lists == <<l>>
  <1>1. DOMAIN lists = {1} /\ lists[1] = l
    OBVIOUS
  <1> HIDE DEF lists
  <1>2. Candidates(lists) = ToSet(l)
    BY <1>1 DEF Candidates
  <1>3. ToSet(l) \subseteq Visible
    BY ListIs DEF IsList
  <1>4. FoundIn(l, {}, lists, Visible) /\ FoundEnough(l, {}, lists)
    BY <1>2 DEF FoundIn, FoundEnough
  <1>5. FoundOrder(l, {}, lists)
    BY <1>1 DEF FoundOrder, AllBefore
  <1>6. QED
    BY <1>2, <1>3, <1>4, <1>5 DEF lists

\* So an answer is made from rankings, whatever it was that found them.
LEMMA AnsweredFrom ==
    ASSUME CodeInv, search.stage = "answered"
    PROVE  \E lists : AnswerFrom(FromStore.list, FromStore.exact, lists)
  <1>1. /\ LiveFound /\ TextFound /\ (hits.usedVector => VectorFound) /\ search.k \in Nat
        /\ (hits.degraded => ~hits.usedVector)
        /\ hits.answer = Merge(FromStore) /\ hits.exact = FromStore.exact \cup hits.liveExact
    BY DEF CodeInv, CodeTypes
  <1>2. FromStore = [list |-> FromStore.list, exact |-> FromStore.exact]
    BY DEF FromStore, TextExact, ByVector, Hybrid
  <1> DEFINE Found(d, lists) ==
               /\ FoundIn(d.list, d.exact, lists, Visible) /\ FoundOrder(d.list, d.exact, lists)
               /\ FoundEnough(d.list, d.exact, lists)
               /\ DOMAIN lists # {} /\ Candidates(lists) \subseteq Visible
               /\ Rankers = {lists[i] : i \in DOMAIN lists}
  <1>3. \E lists : Found(FromStore, lists)
    <2>1. CASE ~hits.usedVector
      <3> DEFINE lists == <<hits.text>>
      <3>1. /\ RankingsOK(lists, <<1, 1>>, Visible) /\ DOMAIN lists # {}
            /\ {lists[i] : i \in DOMAIN lists} = {hits.text}
        BY <1>1, OneList DEF TextFound
      <3>2. Rankers = {hits.text}
        BY <2>1 DEF Rankers
      <3>3. FromStore.list = PinExact(Exact, lists) /\ FromStore.exact = Exact
        BY <2>1 DEF FromStore, TextExact
      <3> HIDE DEF lists
      <3>4. Candidates(lists) \subseteq Visible
        BY <3>1, CandidatesIn
      <3> DEFINE Ok(p) == FoundIn(p, Exact, lists, Visible) /\ FoundOrder(p, Exact, lists)
                          /\ FoundEnough(p, Exact, lists)
      <3>5. Ok(PinExact(Exact, lists))
        BY <3>1, ExactIs, VisibleOK, Pinned
      <3>6. Found(FromStore, lists)
        BY <3>1, <3>2, <3>3, <3>4, <3>5
      <3>7. QED
        BY <3>6
    <2>2. CASE hits.usedVector /\ search.mode = "vector"
      <3> DEFINE lists == <<hits.vector>>
      <3>1. /\ DOMAIN lists # {} /\ {lists[i] : i \in DOMAIN lists} = {hits.vector}
        BY <1>1, <2>2, OneList DEF VectorFound
      <3>2. Rankers = {hits.vector}
        BY <1>1, <2>2 DEF Rankers
      <3>3. FromStore.list = hits.vector /\ FromStore.exact = {}
        BY <2>2 DEF FromStore, ByVector
      <3>4. /\ FoundIn(hits.vector, {}, lists, Visible) /\ FoundOrder(hits.vector, {}, lists)
            /\ FoundEnough(hits.vector, {}, lists) /\ Candidates(lists) \subseteq Visible
        BY <1>1, <2>2, VectorAlone DEF VectorFound
      <3> HIDE DEF lists
      <3>5. Found(FromStore, lists)
        BY <3>1, <3>2, <3>3, <3>4
      <3>6. QED
        BY <3>5
    <2>3. CASE hits.usedVector /\ search.mode # "vector"
      <3> DEFINE lists == <<hits.text, hits.vector>>
      <3>1. /\ RankingsOK(lists, <<1, 1>>, Visible) /\ DOMAIN lists # {}
            /\ {lists[i] : i \in DOMAIN lists} = {hits.text, hits.vector}
        BY <1>1, <2>3, TwoStoreLists DEF TextFound, VectorFound
      <3>2. Rankers = {hits.text, hits.vector}
        BY <1>1, <2>3 DEF Rankers
      <3>3. FromStore.list = PinExact(Exact, lists) /\ FromStore.exact = Exact
        BY <2>3 DEF FromStore, Hybrid
      <3> HIDE DEF lists
      <3>4. Candidates(lists) \subseteq Visible
        BY <3>1, CandidatesIn
      <3> DEFINE Ok(p) == FoundIn(p, Exact, lists, Visible) /\ FoundOrder(p, Exact, lists)
                          /\ FoundEnough(p, Exact, lists)
      <3>5. Ok(PinExact(Exact, lists))
        BY <3>1, ExactIs, VisibleOK, Pinned
      <3>6. Found(FromStore, lists)
        BY <3>1, <3>2, <3>3, <3>4, <3>5
      <3>7. QED
        BY <3>6
    <2>4. QED
      BY <2>1, <2>2, <2>3
  <1>4. PICK lists : Found(FromStore, lists)
    BY <1>3
  <1>5. hits.answer = Merge([list |-> FromStore.list, exact |-> FromStore.exact])
    BY <1>1, <1>2
  <1>6. AnswerFrom(FromStore.list, FromStore.exact, lists)
    <2> HIDE DEF Found
    <2>1. Found(FromStore, lists)
      BY <1>4
    <2>2. QED
      BY <1>1, <1>5, <2>1 DEF AnswerFrom, LiveFound, Found
  <1>7. QED
    BY <1>6

\* And so the answer is ranked.
LEMMA CodeSafe == CodeInv => SearchIsRanked
  <1> SUFFICES ASSUME CodeInv, search.stage = "answered" PROVE SearchIsRanked
    BY DEF SearchIsRanked, Answered
  <1>1. PICK lists : AnswerFrom(FromStore.list, FromStore.exact, lists)
    BY AnsweredFrom
  <1>2. hits.degraded => ~hits.usedVector /\ hits.answer = Merge(TextExact)
    BY DEF CodeInv, FromStore
  <1>3. QED
    BY <1>1, <1>2, AnswerIs

\* What is merged depends on these alone.
MergeOf(list, exact, live, liveExact, k) ==
    Cut(WithoutOverlaps(Ranked((exact \cup liveExact) \cap Candidates(<<list, live>>),
                               <<list, live>>, <<1, 1>>)), k)

\* Merge is a function of these.
LEMMA MergeWas ==
    \A d : Merge(d) = MergeOf(d.list, d.exact, hits.live, hits.liveExact, search.k)
  BY DEF Merge, MergeOf, WithoutOverlaps

\* The same of the next state.
LEMMA MergeWasNext ==
    (\A d : Merge(d) = MergeOf(d.list, d.exact, hits.live, hits.liveExact, search.k))'
  BY MergeWas, PTL

\* A step that leaves what is merged leaves the answer that would be made.
LEMMA MergeSame ==
    ASSUME NEW d, hits'.live = hits.live, hits'.liveExact = hits.liveExact, search'.k = search.k
    PROVE  Merge(d)' = Merge(d)
  <1>1. Merge(d) = MergeOf(d.list, d.exact, hits.live, hits.liveExact, search.k)
    BY MergeWas
  <1>2. Merge(d)' = MergeOf(d.list, d.exact, hits'.live, hits'.liveExact, search'.k)
    BY MergeWasNext
  <1>3. QED
    BY <1>1, <1>2

\* A step that leaves the overlay and the query leaves what may be found.
LEMMA FoundSame ==
    ASSUME overlay' = overlay, search'.path = search.path, search'.named = search.named
    PROVE  Visible' = Visible /\ Unsaved' = Unsaved /\ Exact' = Exact
  <1>1. Visible' = Visible /\ Unsaved' = Unsaved
    BY DEF Visible, Unsaved, HiddenPaths, Durable, SearchKey
  <1>2. QED
    BY <1>1 DEF Exact

\* A step that leaves the rankings too leaves what the store finds.
LEMMA StoredSame ==
    ASSUME overlay' = overlay, search'.path = search.path, search'.named = search.named,
           search'.mode = search.mode, hits'.text = hits.text, hits'.vector = hits.vector,
           hits'.usedVector = hits.usedVector
    PROVE  FromStore' = FromStore
  <1>1. Exact' = Exact
    BY FoundSame
  <1>2. QED
    BY <1>1 DEF FromStore, TextExact, ByVector, Hybrid

\* Before the request nothing is found.
LEMMA CodeInit == CodeSearchInit => CodeInv
  <1> SUFFICES ASSUME CodeSearchInit PROVE CodeInv
    OBVIOUS
  <1>1. hits = NoHits
        /\ search = [stage |-> "none", mode |-> "auto", k |-> 1, path |-> "words", named |-> {}]
    BY DEF CodeSearchInit
  <1>2. CodeTypes /\ ~hits.usedVector /\ ~hits.degraded /\ search.stage = "none"
    BY <1>1 DEF CodeTypes, NoHits
  <1>3. QED
    BY <1>2 DEF CodeInv

\* The number of hits asked for.
LEMMA ClampIs == \A k \in {0, MaxK, MaxK + 1} : Clamp(k) \in Nat
  BY CodeAssumption DEF Clamp

\* The files the query names, one after another.
LEMMA OwnList ==
    ASSUME NEW S, IsFiniteSet(S) PROVE IsList(SetToSeq(S), S) /\ ToSet(SetToSeq(S)) = S
  <1> DEFINE n == Cardinality(S)
  <1>1. n \in Nat
    BY FS_CardinalityType
  <1>2. \E f \in [1..n -> S] : IsInjective(f)
    <2>1. ExistsBijection(1..n, S)
      BY FS_CardinalityType
    <2>2. PICK f : f \in Bijection(1..n, S)
      BY <2>1 DEF ExistsBijection
    <2>3. QED
      BY <2>2 DEF Bijection, Injection
  <1>3. SetToSeq(S) \in [1..n -> S] /\ IsInjective(SetToSeq(S))
    BY <1>2 DEF SetToSeq
  <1> DEFINE q == SetToSeq(S)
  <1> HIDE DEF n, q
  <1>4. q \in Seq(S) /\ Len(q) = n
    BY <1>1, <1>3, IsListOf DEF q
  <1>5. IsList(q, S)
    <2>1. DOMAIN q = 1..n
      BY <1>3 DEF q
    <2>2. QED
      BY <1>3, <1>4, <2>1 DEF IsList, NoRepeats, IsInjective, q
  <1>6. ToSet(q) \subseteq S /\ Cardinality(ToSet(q)) = Cardinality(S)
    BY <1>4, <1>5, ListIs, ListLength DEF n
  <1>7. ToSet(q) = S
    BY <1>6, FS_Subset
  <1>8. QED
    BY <1>5, <1>7 DEF q

\* One list after another that has none of its members.
LEMMA JoinList ==
    ASSUME NEW S, NEW own \in SUBSET S, NEW p, IsList(p, own), NEW q, IsList(q, S \ own)
    PROVE  IsList(p \o q, S) /\ ToSet(p \o q) = ToSet(p) \cup ToSet(q)
  <1> DEFINE m == Len(p)
             n == Len(q)
             r == p \o q
  <1>1. /\ m \in Nat /\ n \in Nat /\ p \in Seq(S) /\ q \in Seq(S)
        /\ \A i \in 1..m : p[i] \in own
        /\ \A i \in 1..n : q[i] \in S \ own
    <2>1. /\ m \in Nat /\ n \in Nat /\ p \in [1..m -> own] /\ q \in [1..n -> S \ own]
      BY ListIs DEF IsList
    <2>2. p \in [1..m -> S] /\ q \in [1..n -> S]
      BY <2>1
    <2>3. QED
      BY <2>1, <2>2, IsListOf
  <1>2. /\ r \in Seq(S) /\ Len(r) = m + n
        /\ \A i \in 1..m : r[i] = p[i]
        /\ \A i \in 1..n : r[m + i] = q[i]
    BY <1>1
  <1>i. \A i \in 1..(m + n) : i \in 1..m \/ (i - m \in 1..n /\ m + (i - m) = i)
    BY <1>1
  <1>j. \A i \in 1..n : m + i \in 1..(m + n)
    BY <1>1
  <1>k. \A i \in 1..m : i \in 1..(m + n)
    BY <1>1
  <1>p. /\ ToSet(p) = {p[i] : i \in 1..m} /\ ToSet(q) = {q[i] : i \in 1..n}
        /\ ToSet(r) = {r[i] : i \in 1..(m + n)}
    <2>1. ToSet(p) = {p[i] : i \in 1..m}
      BY <1>1, ListIs
    <2>2. ToSet(q) = {q[i] : i \in 1..n}
      BY <1>1, ListIs
    <2>3. ToSet(r) = {r[i] : i \in 1..Len(r)}
      <3> HIDE DEF r
      <3>1. QED
        BY <1>2, ListIs
    <2> HIDE DEF m, n, r
    <2>4. QED
      BY <1>2, <2>1, <2>2, <2>3
  <1>n. /\ \A i, j \in 1..m : p[i] = p[j] => i = j
        /\ \A i, j \in 1..n : q[i] = q[j] => i = j
    BY DEF IsList, NoRepeats
  <1> HIDE DEF m, n, r
  <1>3. ASSUME NEW i \in 1..(m + n), NEW j \in 1..(m + n), r[i] = r[j] PROVE i = j
    <2>1. CASE i \in 1..m /\ j \in 1..m
      BY <1>2, <1>3, <1>n, <2>1
    <2>2. CASE i \in 1..m /\ j \notin 1..m
      <3>1. r[i] \in own /\ r[j] \notin own
        <4>1. r[i] = p[i] /\ p[i] \in own
          BY <1>1, <1>2, <2>2
        <4>2. j - m \in 1..n /\ m + (j - m) = j
          BY <1>i, <2>2
        <4>3. r[j] = q[j - m] /\ q[j - m] \notin own
          BY <1>1, <1>2, <4>2
        <4>4. QED
          BY <4>1, <4>3
      <3>2. QED
        BY <1>3, <3>1
    <2>3. CASE i \notin 1..m /\ j \in 1..m
      <3>1. r[j] \in own /\ r[i] \notin own
        <4>1. r[j] = p[j] /\ p[j] \in own
          BY <1>1, <1>2, <2>3
        <4>2. i - m \in 1..n /\ m + (i - m) = i
          BY <1>i, <2>3
        <4>3. r[i] = q[i - m] /\ q[i - m] \notin own
          BY <1>1, <1>2, <4>2
        <4>4. QED
          BY <4>1, <4>3
      <3>2. QED
        BY <1>3, <3>1
    <2>4. CASE i \notin 1..m /\ j \notin 1..m
      <3>1. /\ i - m \in 1..n /\ r[i] = q[i - m] /\ j - m \in 1..n /\ r[j] = q[j - m]
        BY <1>2, <1>i, <2>4
      <3>2. i - m = j - m
        BY <1>3, <1>n, <3>1
      <3>3. QED
        BY <1>1, <3>2
    <2>5. QED
      BY <2>1, <2>2, <2>3, <2>4
  <1>4. IsList(r, S)
    BY <1>2, <1>3 DEF IsList, NoRepeats
  <1>5. ToSet(r) = ToSet(p) \cup ToSet(q)
    <2>1. ToSet(r) \subseteq ToSet(p) \cup ToSet(q)
      <3> SUFFICES ASSUME NEW x \in ToSet(r) PROVE x \in ToSet(p) \cup ToSet(q)
        OBVIOUS
      <3>1. PICK i \in 1..(m + n) : x = r[i]
        BY <1>p
      <3>2. QED
        BY <1>2, <1>i, <1>p, <3>1
    <2>2. ToSet(p) \subseteq ToSet(r) /\ ToSet(q) \subseteq ToSet(r)
      BY <1>2, <1>j, <1>k, <1>p
    <2>3. QED
      BY <2>1, <2>2
  <1>6. QED
    BY <1>4, <1>5 DEF r

\* A step of something else.
LEMMA CodeSame ==
    ASSUME CodeInv, UNCHANGED codeSearchVars PROVE CodeInv'
  <1>1. overlay' = overlay /\ search' = search /\ hits' = hits
    BY DEF codeSearchVars
  <1>2. /\ Visible' = Visible /\ Unsaved' = Unsaved
        /\ FromStore' = FromStore
    BY <1>1, FoundSame, StoredSame
  <1>3. \A d : Merge(d)' = Merge(d)
    BY <1>1, MergeSame
  <1>4. Merge(FromStore)' = Merge(FromStore)
    <2>1. Merge(FromStore)' = MergeOf(FromStore'.list, FromStore'.exact, hits'.live,
                                      hits'.liveExact, search'.k)
      BY MergeWasNext
    <2>2. QED
      BY <1>1, <1>2, <2>1, MergeWas
  <1>5. QED
    BY <1>1, <1>2, <1>4 DEF CodeInv, CodeTypes, LiveFound, TextFound, VectorFound

\* The stages in which a search looks for something.
LEMMA CodeFinds ==
    ASSUME CodeInv, FindLive \/ FindSymbols \/ Embed PROVE CodeInv'
  <1>t. CodeTypes /\ overlay' = overlay /\ search'.k = search.k /\ search'.mode = search.mode
        /\ search'.path = search.path /\ search'.named = search.named
        /\ search' = [stage |-> search'.stage, mode |-> search.mode, k |-> search.k,
                      path |-> search.path, named |-> search.named]
    BY DEF CodeInv, CodeTypes, FindLive, FindSymbols, Embed
  <1>f. Visible' = Visible /\ Unsaved' = Unsaved
    BY <1>t, FoundSame
  <1>h. /\ hits = [live |-> hits.live, liveExact |-> hits.liveExact, text |-> hits.text,
                   vector |-> hits.vector, answer |-> hits.answer, exact |-> hits.exact,
                   degraded |-> hits.degraded, usedVector |-> hits.usedVector]
        /\ hits.degraded \in BOOLEAN /\ hits.usedVector \in BOOLEAN /\ search.k \in Nat
    BY <1>t DEF CodeTypes
  <1>F. Fetch \in Nat
    BY FetchAssumption
  <1>1. CASE FindLive
    <2> DEFINE own == {x \in Unsaved : Place[x].path = search.path}
    <2>1. PICK list \in TextRankings(Unsaved \ own, Fetch) :
             \E exact \in IF search.path = "words" THEN SUBSET ToSet(list) ELSE {{}} :
               hits' = [hits EXCEPT !.live = Cut(SetToSeq(own) \o list, Fetch),
                                    !.liveExact = exact \cup own]
      BY <1>1 DEF FindLive
    <2>2. PICK exact \in SUBSET ToSet(list) :
               hits' = [hits EXCEPT !.live = Cut(SetToSeq(own) \o list, Fetch),
                                    !.liveExact = exact \cup own]
      BY <2>1
    <2> DEFINE both == SetToSeq(own) \o list
               live == Cut(both, Fetch)
    <2>3. hits' = [live |-> live, liveExact |-> exact \cup own, text |-> hits.text,
                   vector |-> hits.vector, answer |-> hits.answer, exact |-> hits.exact,
                   degraded |-> hits.degraded, usedVector |-> hits.usedVector]
      BY <1>h, <2>2
    <2>4. search'.stage = "live" /\ search.stage = "asked"
      BY <1>1, <1>t DEF FindLive, CodeTypes
    <2>5. own \in SUBSET Unsaved /\ IsFiniteSet(own) /\ IsFiniteSet(Unsaved \ own)
      <3>1. own \in SUBSET Unsaved /\ Unsaved \ own \in SUBSET Unsaved
        OBVIOUS
      <3>2. QED
        BY <3>1, VisibleOK, FS_Subset
    <2> HIDE DEF own
    <2>6. IsList(list, Unsaved \ own)
      BY <1>F, <2>5, RankingsIs
    <2>7. IsList(SetToSeq(own), own)
      BY <2>5, OwnList
    <2>8. IsList(both, Unsaved)
      BY <2>5, <2>6, <2>7, JoinList
    <2> HIDE DEF both
    <2>9. IsList(live, Unsaved) /\ Len(live) <= Fetch
      BY <1>F, <2>8, CutRanks
    <2>10. exact \cup own \subseteq Unsaved
      <3>1. ToSet(list) \subseteq Unsaved
        BY <2>6, ListIs DEF IsList
      <3>2. QED
        BY <2>5, <3>1
    <2> HIDE DEF live
    <2>11. LiveFound'
      BY <1>f, <2>3, <2>9, <2>10 DEF LiveFound
    <2>12. CodeTypes'
      BY <1>t, <1>h, <2>3, <2>4 DEF CodeTypes
    <2>13. ~hits.usedVector /\ ~hits.degraded
      BY <2>4 DEF CodeInv
    <2>14. ~hits'.usedVector /\ ~hits'.degraded
      BY <2>3, <2>13
    <2>15. QED
      BY <2>4, <2>11, <2>12, <2>14 DEF CodeInv
  <1>2. CASE FindSymbols
    <2>1. PICK t \in TextRankings(Visible, Fetch) : hits' = [hits EXCEPT !.text = t]
      BY <1>2 DEF FindSymbols
    <2>2. hits' = [live |-> hits.live, liveExact |-> hits.liveExact, text |-> t,
                   vector |-> hits.vector, answer |-> hits.answer, exact |-> hits.exact,
                   degraded |-> hits.degraded, usedVector |-> hits.usedVector]
      BY <1>h, <2>1
    <2>3. search.stage = "live" /\ search'.stage \in {"embed", "text"}
      BY <1>2, <1>t DEF FindSymbols, CodeTypes
    <2>4. IsList(t, Visible) /\ Len(t) <= Fetch
      BY <1>F, VisibleOK, RankingsIs
    <2>5. LiveFound /\ ~hits.usedVector /\ ~hits.degraded
      BY <2>3 DEF CodeInv
    <2>6. LiveFound' /\ TextFound'
      BY <1>f, <2>2, <2>4, <2>5 DEF LiveFound, TextFound
    <2>7. CodeTypes'
      BY <1>t, <1>h, <2>2, <2>3 DEF CodeTypes
    <2>8. ~hits'.usedVector /\ ~hits'.degraded
      BY <2>2, <2>5
    <2>9. QED
      BY <2>3, <2>6, <2>7, <2>8 DEF CodeInv
  <1>3. CASE Embed
    <2>1. PICK v \in VectorRankings(Visible, Fetch) :
             hits' = [hits EXCEPT !.vector = v, !.usedVector = TRUE]
      BY <1>3 DEF Embed
    <2>2. hits' = [live |-> hits.live, liveExact |-> hits.liveExact, text |-> hits.text,
                   vector |-> v, answer |-> hits.answer, exact |-> hits.exact,
                   degraded |-> hits.degraded, usedVector |-> TRUE]
      BY <1>h, <2>1
    <2>3. search.stage = "embed" /\ search'.stage = "vector"
      BY <1>3, <1>t DEF Embed, CodeTypes
    <2>4. IsList(v, Visible) /\ Len(v) <= Fetch
      BY <1>F, VisibleOK, RankingsIs
    <2>5. LiveFound /\ TextFound /\ ~hits.degraded
      BY <2>3 DEF CodeInv
    <2>6. LiveFound' /\ TextFound' /\ VectorFound'
      BY <1>f, <2>2, <2>4, <2>5 DEF LiveFound, TextFound, VectorFound
    <2>7. CodeTypes'
      BY <1>t, <1>h, <2>2, <2>3 DEF CodeTypes
    <2>8. hits'.usedVector /\ ~hits'.degraded
      BY <2>2, <2>5
    <2>9. QED
      BY <2>3, <2>6, <2>7, <2>8 DEF CodeInv
  <1>4. QED
    BY <1>1, <1>2, <1>3

\* The stages in which it gives up on a vector, or answers.
LEMMA CodeEnds ==
    ASSUME CodeInv, EmbedFails \/ EmbedCancelled \/ Answer PROVE CodeInv'
  <1>t. CodeTypes /\ overlay' = overlay /\ search'.k = search.k /\ search'.mode = search.mode
        /\ search'.path = search.path /\ search'.named = search.named
        /\ search' = [stage |-> search'.stage, mode |-> search.mode, k |-> search.k,
                      path |-> search.path, named |-> search.named]
    BY DEF CodeInv, CodeTypes, EmbedFails, EmbedCancelled, Answer
  <1>f. Visible' = Visible /\ Unsaved' = Unsaved
    BY <1>t, FoundSame
  <1>h. /\ hits = [live |-> hits.live, liveExact |-> hits.liveExact, text |-> hits.text,
                   vector |-> hits.vector, answer |-> hits.answer, exact |-> hits.exact,
                   degraded |-> hits.degraded, usedVector |-> hits.usedVector]
        /\ hits.degraded \in BOOLEAN /\ hits.usedVector \in BOOLEAN /\ search.k \in Nat
    BY <1>t DEF CodeTypes
  <1>1. CASE EmbedFails
    <2>1. hits' = [live |-> hits.live, liveExact |-> hits.liveExact, text |-> hits.text,
                   vector |-> hits.vector, answer |-> hits.answer, exact |-> hits.exact,
                   degraded |-> TRUE, usedVector |-> hits.usedVector]
      BY <1>1, <1>h DEF EmbedFails
    <2>2. search.stage = "embed" /\ search'.stage = "text"
      BY <1>1, <1>t DEF EmbedFails, CodeTypes
    <2>3. LiveFound /\ TextFound /\ ~hits.usedVector
      BY <2>2 DEF CodeInv
    <2>4. LiveFound' /\ TextFound'
      BY <1>f, <2>1, <2>3 DEF LiveFound, TextFound
    <2>5. CodeTypes'
      BY <1>t, <1>h, <2>1, <2>2 DEF CodeTypes
    <2>6. ~hits'.usedVector
      BY <2>1, <2>3
    <2>7. QED
      BY <2>2, <2>4, <2>5, <2>6 DEF CodeInv
  <1>2. CASE EmbedCancelled
    <2>1. hits' = hits
      BY <1>2 DEF EmbedCancelled
    <2>2. search.stage = "embed" /\ search'.stage = "cancelled"
      BY <1>2, <1>t DEF EmbedCancelled, CodeTypes
    <2>3. ~hits.usedVector /\ ~hits.degraded
      BY <2>2 DEF CodeInv
    <2>4. CodeTypes'
      BY <1>t, <1>h, <2>1, <2>2 DEF CodeTypes
    <2>5. QED
      BY <2>1, <2>2, <2>3, <2>4 DEF CodeInv
  <1>3. CASE Answer
    <2> DEFINE durable == IF search.stage = "text" THEN TextExact
                          ELSE IF search.mode = "vector" THEN ByVector ELSE Hybrid
               merged == Merge(durable)
               exact == durable.exact \cup hits.liveExact
    <2>1. hits' = [hits EXCEPT !.answer = merged, !.exact = exact]
      BY <1>3 DEF Answer
    <2>2. search.stage \in {"text", "vector"} /\ search'.stage = "answered"
      BY <1>3, <1>t DEF Answer, CodeTypes
    <2>3. /\ LiveFound /\ TextFound /\ (hits.usedVector => VectorFound)
          /\ (hits.usedVector <=> search.stage = "vector") /\ (hits.degraded => ~hits.usedVector)
      BY <2>2 DEF CodeInv
    <2>4. durable = FromStore
      BY <2>2, <2>3 DEF FromStore
    <2> HIDE DEF merged, exact
    <2>5. hits' = [live |-> hits.live, liveExact |-> hits.liveExact, text |-> hits.text,
                   vector |-> hits.vector, answer |-> merged, exact |-> exact,
                   degraded |-> hits.degraded, usedVector |-> hits.usedVector]
      BY <1>h, <2>1
    <2>6. /\ hits'.live = hits.live /\ hits'.liveExact = hits.liveExact
          /\ hits'.text = hits.text /\ hits'.vector = hits.vector
          /\ hits'.usedVector = hits.usedVector /\ hits'.degraded = hits.degraded
          /\ hits'.answer = merged /\ hits'.exact = exact
      BY <2>5
    <2>7. FromStore' = FromStore
      BY <1>t, <2>6, StoredSame
    <2>8. Merge(FromStore)' = Merge(FromStore)
      <3>1. Merge(FromStore)' = MergeOf(FromStore'.list, FromStore'.exact, hits'.live,
                                        hits'.liveExact, search'.k)
        BY MergeWasNext
      <3>2. QED
        BY <1>t, <2>6, <2>7, <3>1, MergeWas
    <2>9. hits'.answer = Merge(FromStore)' /\ hits'.exact = FromStore'.exact \cup hits'.liveExact
      BY <2>4, <2>6, <2>7, <2>8 DEF merged, exact
    <2>10. LiveFound' /\ TextFound' /\ (hits'.usedVector => VectorFound')
      BY <1>f, <2>3, <2>6 DEF LiveFound, TextFound, VectorFound
    <2>11. CodeTypes'
      BY <1>t, <1>h, <2>2, <2>5 DEF CodeTypes
    <2>12. hits'.degraded => ~hits'.usedVector
      BY <2>3, <2>6
    <2>13. QED
      BY <2>2, <2>9, <2>10, <2>11, <2>12 DEF CodeInv
  <1>4. QED
    BY <1>1, <1>2, <1>3

\* Every step keeps what a search has found.
LEMMA CodeStep ==
    ASSUME CodeInv, [CodeSearchNext]_codeSearchVars PROVE CodeInv'
  <1>1. CASE UNCHANGED codeSearchVars
    BY <1>1, CodeSame
  <1>2. CASE AskCode
    <2>0. \E q \in [spelling : Spelling, file : File], n \in SUBSET Durable,
             m \in {"auto", "text", "vector", "hybrid"}, k \in {0, MaxK, MaxK + 1} :
            /\ Canonical(q) # "words" => n = {}
            /\ search' = [stage |-> "asked", mode |-> m, k |-> Clamp(k), path |-> Canonical(q),
                          named |-> n]
      BY <1>2 DEF AskCode
    <2>1. PICK q \in [spelling : Spelling, file : File], n \in SUBSET Durable,
               m \in {"auto", "text", "vector", "hybrid"}, k \in {0, MaxK, MaxK + 1} :
             search' = [stage |-> "asked", mode |-> m, k |-> Clamp(k), path |-> Canonical(q),
                        named |-> n]
      BY <2>0
    <2>2. hits' = hits /\ search.stage = "none"
      BY <1>2 DEF AskCode
    <2>3. CodeTypes /\ ~hits.usedVector /\ ~hits.degraded
      BY <2>2 DEF CodeInv
    <2>4. Clamp(k) \in Nat
      BY ClampIs
    <2>5. /\ search' = [stage |-> search'.stage, mode |-> search'.mode, k |-> search'.k,
                        path |-> search'.path, named |-> search'.named]
          /\ search'.k \in Nat /\ search'.stage = "asked"
      BY <2>1, <2>4
    <2>6. CodeTypes'
      BY <2>2, <2>3, <2>5 DEF CodeTypes
    <2>7. QED
      BY <2>2, <2>3, <2>5, <2>6 DEF CodeInv
  <1>3. QED
    BY <1>1, <1>2, CodeFinds, CodeEnds DEF CodeSearchNext

\* A code search answers as SearchIsRanked says, whatever the two indexes rank and whether
\* there is an embedding or not (code_service.go searchSnapshot and mergeServiceHits).
THEOREM SearchRanked == CodeSearchSpec => []SearchIsRanked
  <1>1. CodeInv => SearchIsRanked
    BY CodeSafe
  <1>2. CodeSearchInit => CodeInv
    BY CodeInit
  <1>3. CodeInv /\ [CodeSearchNext]_codeSearchVars => CodeInv'
    BY CodeStep
  <1>4. QED
    BY <1>1, <1>2, <1>3, PTL DEF CodeSearchSpec
===============================================================================

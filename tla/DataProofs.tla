------------------------------- MODULE DataProofs -------------------------------
(***************************************************************************)
(* Lemmas about the data of the quests and parties, of any size: sums over *)
(* a finite set, rounding, how a requirement tree is numbered and grows,   *)
(* the order of its nodes, recursion over it, ranks in an ordered set,     *)
(* joined sequences.                                                       *)
(***************************************************************************)
EXTENDS QuestTree, SequencesExt, FiniteSetTheorems, SequenceTheorems, WellFoundedInduction, TLAPS

\* The image of a finite set under a function is finite.
LEMMA FiniteImage ==
  ASSUME NEW S, IsFiniteSet(S), NEW f, f = [x \in S |-> f[x]]
  PROVE  IsFiniteSet({f[x] : x \in S})
<1> DEFINE T == {f[x] : x \in S}
<1>1. f \in [S -> T]
  OBVIOUS
<1>2. f \in Surjection(S, T)
  BY <1>1 DEF Surjection
<1> HIDE DEF T
<1>3. IsFiniteSet(T)
  BY <1>2, FS_Surjection
<1> QED BY <1>3 DEF T

-----------------------------------------------------------------------------
(* Sums over a finite set.  SumFunctionOnSet is a recursive function behind *)
(* a CHOOSE, so the first lemmas show that there is such a function and    *)
(* that it does what its recursion says.                                   *)

\* Induction over the subsets of a finite set; F holds those for which the claim is true.
LEMMA SubsetInduction ==
  ASSUME NEW S, IsFiniteSet(S), NEW F,
         \A T \in SUBSET S : (\A U \in SUBSET T : U # T => U \in F) => T \in F
  PROVE  \A T \in SUBSET S : T \in F
<1> DEFINE Bad == (SUBSET S) \ F
           R == StrictSubsetOrdering(S)
<1> SUFFICES ASSUME Bad # {} PROVE FALSE
  OBVIOUS
<1>1. IsWellFoundedOn(R, SUBSET S)
  <2>1. IsWellFoundedOn(StrictSubsetOrdering(S), FiniteSubsetsOf(S))
    BY FS_StrictSubsetOrderingWellFounded
  <2>2. FiniteSubsetsOf(S) = SUBSET S
    BY FS_FiniteSubsetsOfFinite
  <2> HIDE DEF Bad
  <2> QED BY <2>1, <2>2
<1>2. PICK T \in Bad : \A U \in Bad : ~ (<<U, T>> \in R)
  <2> HIDE DEF Bad, R
  <2>1. Bad \subseteq SUBSET S
    BY DEF Bad
  <2> QED BY <1>1, <2>1, WFMin
<1>3. \A U \in SUBSET T : U # T => U \in F
  BY <1>2 DEF StrictSubsetOrdering
<1> QED BY <1>2, <1>3

Pick(s) == CHOOSE x \in s : TRUE

\* g is the recursive function behind the sum of f over the subsets of T.
Adds(f, T, g) ==
  g = [s \in SUBSET T |-> IF s = {} THEN 0 ELSE f[Pick(s)] + g[s \ {Pick(s)}]]

LEMMA SumIsChoice ==
  ASSUME NEW f, NEW S
  PROVE  SumFunctionOnSet(f, S) = (CHOOSE g : Adds(f, S, g))[S]
BY DEF SumFunctionOnSet, FoldFunctionOnSet, MapThenFoldSet, Adds, Pick

LEMMA PickInside == ASSUME NEW s, s # {} PROVE Pick(s) \in s
BY DEF Pick

LEMMA AddsAgree ==
  ASSUME NEW f, NEW S, IsFiniteSet(S), NEW T, NEW g, NEW h, S \subseteq T, Adds(f, S, g), Adds(f, T, h)
  PROVE  \A s \in SUBSET S : g[s] = h[s]
<1> DEFINE F == {s \in SUBSET S : g[s] = h[s]}
<1>1. ASSUME NEW s \in SUBSET S, \A u \in SUBSET s : u # s => u \in F
      PROVE  s \in F
  <2>1. CASE s = {}
    BY <2>1 DEF Adds
  <2>2. CASE s # {}
    <3>1. Pick(s) \in s
      BY <2>2, PickInside
    <3>2. s \ {Pick(s)} \in F
      BY <1>1, <3>1
    <3>3. g[s] = f[Pick(s)] + g[s \ {Pick(s)}] /\ h[s] = f[Pick(s)] + h[s \ {Pick(s)}]
      BY <2>2 DEF Adds
    <3> QED BY <3>2, <3>3
  <2> QED BY <2>1, <2>2
<1> HIDE DEF F
<1>2. \A s \in SUBSET S : s \in F
  BY <1>1, SubsetInduction
<1> QED BY <1>2 DEF F

\* There is such a function.
LEMMA AddsExists ==
  ASSUME NEW f, NEW S, IsFiniteSet(S)
  PROVE  \E g : Adds(f, S, g)
<1> DEFINE F == {s \in SUBSET S : \E g : Adds(f, s, g)}
<1>1. ASSUME NEW s \in SUBSET S, \A u \in SUBSET s : u # s => u \in F
      PROVE  s \in F
  <2> DEFINE sub(u) == CHOOSE g : Adds(f, u, g)
             below(u) == IF u = {} THEN 0 ELSE f[Pick(u)] + sub(u \ {Pick(u)})[u \ {Pick(u)}]
             g == [u \in SUBSET s |-> below(u)]
  <2>1. ASSUME NEW u \in SUBSET s, u # s PROVE Adds(f, u, sub(u))
    BY <1>1, <2>1
  <2>2. ASSUME NEW u \in SUBSET s, u # {}
        PROVE  sub(u \ {Pick(u)})[u \ {Pick(u)}] = g[u \ {Pick(u)}]
    <3> DEFINE v == u \ {Pick(u)}
    <3>1. Pick(u) \in u
      BY <2>2, PickInside
    <3>2. Adds(f, v, sub(v)) /\ v \in SUBSET s
      BY <2>1, <3>1
    <3>3. CASE v = {}
      BY <3>2, <3>3 DEF Adds
    <3>4. CASE v # {}
      <4> DEFINE w == v \ {Pick(v)}
      <4>1. Pick(v) \in v
        BY <3>4, PickInside
      <4>2. Adds(f, w, sub(w)) /\ w \subseteq v /\ IsFiniteSet(w)
        BY <2>1, <3>1, <4>1, FS_Subset
      <4>3. sub(w)[w] = sub(v)[w]
        <5> HIDE DEF sub, w, v
        <5> QED BY <3>2, <4>2, AddsAgree
      <4>4. sub(v)[v] = f[Pick(v)] + sub(v)[w]
        <5> HIDE DEF sub
        <5> QED BY <3>2, <3>4 DEF Adds
      <4>5. g[v] = f[Pick(v)] + sub(w)[w]
        BY <3>2, <3>4
      <4> QED BY <4>3, <4>4, <4>5
    <3> QED BY <3>3, <3>4
  <2>3. g = [u \in SUBSET s |-> IF u = {} THEN 0 ELSE f[Pick(u)] + g[u \ {Pick(u)}]]
    <3> HIDE DEF sub
    <3> QED BY <2>2
  <2>4. Adds(f, s, g)
    BY <2>3 DEF Adds
  <2> QED BY <2>4
<1> HIDE DEF F
<1>2. \A s \in SUBSET S : s \in F
  BY <1>1, SubsetInduction
<1> QED BY <1>2 DEF F

\* What the recursion of a sum says.
LEMMA SumUnfolds ==
  ASSUME NEW f, NEW S, IsFiniteSet(S)
  PROVE  SumFunctionOnSet(f, S) =
           IF S = {} THEN 0 ELSE f[Pick(S)] + SumFunctionOnSet(f, S \ {Pick(S)})
<1> DEFINE g == CHOOSE g : Adds(f, S, g)
           T == S \ {Pick(S)}
           h == CHOOSE h : Adds(f, T, h)
<1>1. IsFiniteSet(T)
  BY FS_Subset
<1>2. Adds(f, S, g) /\ Adds(f, T, h)
  BY <1>1, AddsExists
<1>3. SumFunctionOnSet(f, S) = g[S] /\ SumFunctionOnSet(f, T) = h[T]
  BY SumIsChoice
<1> HIDE DEF g, h
<1>4. h[T] = g[T]
  <2> HIDE DEF T
  <2>1. T \subseteq S
    BY DEF T
  <2> QED BY <1>1, <1>2, <2>1, AddsAgree
<1>5. g[S] = IF S = {} THEN 0 ELSE f[Pick(S)] + g[T]
  BY <1>2 DEF Adds
<1> QED BY <1>3, <1>4, <1>5

LEMMA SumIsNat ==
  ASSUME NEW S, IsFiniteSet(S), NEW f, \A x \in S : f[x] \in Nat
  PROVE  SumFunctionOnSet(f, S) \in Nat
<1> DEFINE F == {s \in SUBSET S : SumFunctionOnSet(f, s) \in Nat}
<1>1. ASSUME NEW s \in SUBSET S, \A u \in SUBSET s : u # s => u \in F
      PROVE  s \in F
  <2>1. IsFiniteSet(s)
    BY FS_Subset
  <2>2. CASE s = {}
    <3>1. SumFunctionOnSet(f, s) = 0
      BY <2>1, <2>2, SumUnfolds
    <3> QED BY <3>1
  <2>3. CASE s # {}
    <3>1. Pick(s) \in s
      BY <2>3, PickInside
    <3>2. SumFunctionOnSet(f, s \ {Pick(s)}) \in Nat
      BY <1>1, <3>1
    <3> QED BY <2>1, <2>3, <3>1, <3>2, SumUnfolds
  <2> QED BY <2>2, <2>3
<1> HIDE DEF F
<1>2. \A s \in SUBSET S : s \in F
  BY <1>1, SubsetInduction
<1> QED BY <1>2 DEF F

\* In which order the elements are added makes no difference.
LEMMA SumWithout ==
  ASSUME NEW S, IsFiniteSet(S), NEW f, \A x \in S : f[x] \in Nat
  PROVE  \A x \in S : SumFunctionOnSet(f, S) = f[x] + SumFunctionOnSet(f, S \ {x})
<1> DEFINE Sum(s) == SumFunctionOnSet(f, s)
           F == {s \in SUBSET S : \A x \in s : Sum(s) = f[x] + Sum(s \ {x})}
<1>n. ASSUME NEW s \in SUBSET S PROVE Sum(s) \in Nat /\ IsFiniteSet(s)
  BY SumIsNat, FS_Subset
<1>1. ASSUME NEW s \in SUBSET S, \A u \in SUBSET s : u # s => u \in F,
             NEW x \in s
      PROVE  Sum(s) = f[x] + Sum(s \ {x})
  <2> DEFINE y == Pick(s)
  <2>1. y \in s
    BY PickInside
  <2>2. Sum(s) = f[y] + Sum(s \ {y})
    BY <1>n, SumUnfolds
  <2>3. CASE x = y
    BY <2>2, <2>3
  <2>4. CASE x # y
    <3> HIDE DEF y
    <3>1. s \ {y} \in F /\ s \ {x} \in F
      BY <1>1, <2>1
    <3>2. Sum(s \ {y}) = f[x] + Sum((s \ {y}) \ {x})
      BY <3>1, <2>4
    <3>3. Sum(s \ {x}) = f[y] + Sum((s \ {x}) \ {y})
      BY <3>1, <2>1, <2>4
    <3>4. (s \ {y}) \ {x} = (s \ {x}) \ {y}
      OBVIOUS
    <3> HIDE DEF Sum, F
    <3>5. f[x] \in Nat /\ f[y] \in Nat /\ Sum((s \ {x}) \ {y}) \in Nat
      BY <1>n, <2>1
    <3>6. \A a, b, c \in Nat : a + (b + c) = b + (a + c)
      OBVIOUS
    <3>7. Sum(s) = f[y] + (f[x] + Sum((s \ {x}) \ {y}))
      BY <2>2, <3>2, <3>4
    <3>8. f[x] + Sum(s \ {x}) = f[x] + (f[y] + Sum((s \ {x}) \ {y}))
      BY <3>3
    <3> QED BY <3>5, <3>6, <3>7, <3>8
  <2> QED BY <2>3, <2>4
<1>2. ASSUME NEW s \in SUBSET S, \A u \in SUBSET s : u # s => u \in F
      PROVE  s \in F
  BY <1>1, <1>2
<1> HIDE DEF F
<1>3. \A s \in SUBSET S : s \in F
  BY <1>2, SubsetInduction
<1> QED BY <1>3 DEF F

\* Functions that agree on a set have the same sum.
LEMMA SumAgrees ==
  ASSUME NEW S, IsFiniteSet(S), NEW f, NEW g, \A x \in S : f[x] = g[x]
  PROVE  SumFunctionOnSet(f, S) = SumFunctionOnSet(g, S)
<1> DEFINE F == {s \in SUBSET S : SumFunctionOnSet(f, s) = SumFunctionOnSet(g, s)}
<1>1. ASSUME NEW s \in SUBSET S, \A u \in SUBSET s : u # s => u \in F
      PROVE  s \in F
  <2>1. IsFiniteSet(s)
    BY FS_Subset
  <2>2. CASE s = {}
    BY <2>1, <2>2, SumUnfolds
  <2>3. CASE s # {}
    <3>1. Pick(s) \in s
      BY <2>3, PickInside
    <3>2. SumFunctionOnSet(f, s \ {Pick(s)}) = SumFunctionOnSet(g, s \ {Pick(s)})
      BY <1>1, <3>1
    <3> QED BY <2>1, <2>3, <3>1, <3>2, SumUnfolds
  <2> QED BY <2>2, <2>3
<1> HIDE DEF F
<1>2. \A s \in SUBSET S : s \in F
  BY <1>1, SubsetInduction
<1> QED BY <1>2 DEF F

\* Induction from 0 to n; F holds the numbers for which the claim is true.
LEMMA InductionUpTo ==
  ASSUME NEW n \in Nat, NEW F, 0 \in F, \A k \in 0..(n - 1) : k \in F => k + 1 \in F
  PROVE  \A k \in 0..n : k \in F
<1> DEFINE Bad == {k \in 0..n : k \notin F}
<1> SUFFICES ASSUME Bad # {} PROVE FALSE
  OBVIOUS
<1>1. Bad \subseteq Nat
  OBVIOUS
<1>2. PICK k \in Bad : \A j \in Bad : ~(<<j, k>> \in OpToRel(<, Nat))
  <2> HIDE DEF Bad
  <2> QED BY <1>1, WFMin, NatLessThanWellFounded
<1>3. k \in 0..n /\ k # 0 /\ k \notin F
  BY <1>2
<1>4. k - 1 \in 0..(n - 1) /\ k - 1 < k
  BY <1>3
<1>5. <<k - 1, k>> \in OpToRel(<, Nat)
  BY <1>3, <1>4 DEF OpToRel
<1>6. k - 1 \in F
  <2>1. k - 1 \notin Bad
    <3> HIDE DEF Bad
    <3> QED BY <1>2, <1>5
  <2>2. k - 1 \in 0..n
    BY <1>3
  <2> QED BY <2>1, <2>2
<1> HIDE DEF Bad
<1>7. (k - 1) + 1 \in F
  BY <1>4, <1>6
<1> QED BY <1>3, <1>7

-----------------------------------------------------------------------------
(* Sums along a chain *)

\* f holds the sums of the fractions s[0], s[1], ... up to each of them.
Sums(s, n, f) == f = [k \in 0..n |-> IF k = 0 THEN s[0] ELSE Plus(f[k - 1], s[k])]

LEMMA SumsExist ==
  ASSUME NEW s, NEW n \in Nat
  PROVE  \E f : Sums(s, n, f)
<1> DEFINE F == {m \in 0..n : \E f : Sums(s, m, f)}
<1>1. 0 \in F
  <2>1. Sums(s, 0, [k \in 0..0 |-> s[0]])
    BY DEF Sums
  <2> QED BY <2>1
<1>2. ASSUME NEW m \in 0..(n - 1), m \in F PROVE m + 1 \in F
  <2>1. PICK f : Sums(s, m, f)
    BY <1>2
  <2> DEFINE g == [k \in 0..(m + 1) |-> IF k = m + 1 THEN Plus(f[m], s[m + 1]) ELSE f[k]]
  <2>2. ASSUME NEW k \in 0..(m + 1)
        PROVE  g[k] = IF k = 0 THEN s[0] ELSE Plus(g[k - 1], s[k])
    <3>1. CASE k = m + 1
      BY <3>1
    <3>2. CASE k # m + 1
      <4>1. f[k] = IF k = 0 THEN s[0] ELSE Plus(f[k - 1], s[k])
        BY <2>1, <3>2 DEF Sums
      <4> QED BY <3>2, <4>1
    <3> QED BY <3>1, <3>2
  <2>3. Sums(s, m + 1, g)
    <3>1. g = [k \in 0..(m + 1) |-> g[k]]
      OBVIOUS
    <3> HIDE DEF g
    <3> QED BY <2>2, <3>1 DEF Sums
  <2> QED BY <2>3
<1> HIDE DEF F
<1>3. \A k \in 0..n : k \in F
  BY <1>1, <1>2, InductionUpTo
<1>4. n \in F
  BY <1>3
<1> QED BY <1>4 DEF F

Fractions == Nat \X (Nat \ {0})

LEMMA PlusIsFraction ==
  ASSUME NEW f \in Fractions, NEW g \in Fractions
  PROVE  Plus(f, g) \in Fractions
<1>1. /\ f[1] \in Nat /\ g[1] \in Nat /\ f[2] \in Nat \ {0} /\ g[2] \in Nat \ {0}
  BY DEF Fractions
<1>2. \A a, b \in Nat : a * b \in Nat
  OBVIOUS
<1>3. \A a, b \in Nat \ {0} : a * b \in Nat \ {0}
  OBVIOUS
<1>4. f[1] * g[2] + g[1] * f[2] \in Nat
  BY <1>1, <1>2
<1>5. f[2] * g[2] \in Nat \ {0}
  BY <1>1, <1>3
<1> QED BY <1>4, <1>5 DEF Plus, Fractions

LEMMA SumsAreFractions ==
  ASSUME NEW s, NEW n \in Nat, NEW f, Sums(s, n, f), \A k \in 0..n : s[k] \in Fractions
  PROVE  \A k \in 0..n : f[k] \in Fractions
<1> DEFINE F == {k \in 0..n : f[k] \in Fractions}
<1>1. 0 \in F
  BY DEF Sums
<1>2. ASSUME NEW k \in 0..(n - 1), k \in F PROVE k + 1 \in F
  <2>1. f[k + 1] = Plus(f[k], s[k + 1])
    BY DEF Sums
  <2> QED BY <1>2, <2>1, PlusIsFraction
<1> HIDE DEF F
<1>3. \A k \in 0..n : k \in F
  BY <1>1, <1>2, InductionUpTo
<1> QED BY <1>3 DEF F

\* Where two chains are the same, so are their sums.
LEMMA SumsAgree ==
  ASSUME NEW s, NEW n \in Nat, NEW f, Sums(s, n, f),
         NEW t, NEW m \in Nat, NEW g, Sums(t, m, g),
         n <= m, \A k \in 0..n : s[k] = t[k]
  PROVE  \A k \in 0..n : f[k] = g[k]
<1> DEFINE F == {k \in 0..n : f[k] = g[k]}
<1>1. 0 \in F
  BY DEF Sums
<1>2. ASSUME NEW k \in 0..(n - 1), k \in F PROVE k + 1 \in F
  <2>1. f[k + 1] = Plus(f[k], s[k + 1]) /\ g[k + 1] = Plus(g[k], t[k + 1])
    BY DEF Sums
  <2> QED BY <1>2, <2>1
<1> HIDE DEF F
<1>3. \A k \in 0..n : k \in F
  BY <1>1, <1>2, InductionUpTo
<1> QED BY <1>3 DEF F

\* What adds up to one node's requirement adds up to that of every node below.
LEMMA SumsKeepCovering ==
  ASSUME NEW s, NEW n \in Nat, NEW f, Sums(s, n, f), \A k \in 0..n : s[k] \in Fractions,
         NEW i \in 0..n, Covers(f[i])
  PROVE  \A k \in i..n : Covers(f[k])
<1> DEFINE F == {k \in 0..n : k < i \/ Covers(f[k])}
<1>1. 0 \in F
  OBVIOUS
<1>2. ASSUME NEW k \in 0..(n - 1), k \in F PROVE k + 1 \in F
  <2>1. CASE k + 1 <= i
    BY <2>1
  <2>2. CASE k + 1 > i
    <3>1. f[k + 1] = Plus(f[k], s[k + 1])
      BY DEF Sums
    <3>2. f[k] \in Fractions /\ s[k + 1] \in Fractions
      BY SumsAreFractions
    <3>3. Covers(f[k])
      BY <1>2, <2>2
    <3>4. \A a, c \in Nat, b, d \in Nat \ {0} : a >= b => a * d + c * b >= b * d
      <4>1. ASSUME NEW a \in Nat, NEW c \in Nat, NEW b \in Nat \ {0}, NEW d \in Nat \ {0}, a >= b
            PROVE  a * d + c * b >= b * d
        <5>1. (a - b) * d >= 0 /\ c * b >= 0
          BY <4>1
        <5>2. a * d = (a - b) * d + b * d
          BY <4>1
        <5> QED BY <5>1, <5>2
      <4> QED BY <4>1
    <3>5. /\ f[k][1] \in Nat /\ f[k][2] \in Nat \ {0}
          /\ s[k + 1][1] \in Nat /\ s[k + 1][2] \in Nat \ {0}
      BY <3>2 DEF Fractions
    <3>6. f[k][1] * s[k + 1][2] + s[k + 1][1] * f[k][2] >= f[k][2] * s[k + 1][2]
      BY <3>3, <3>4, <3>5 DEF Covers
    <3>7. Covers(f[k + 1])
      BY <3>1, <3>6 DEF Covers, Plus
    <3> QED BY <3>7
  <2> QED BY <2>1, <2>2
<1> HIDE DEF F
<1>3. \A k \in 0..n : k \in F
  BY <1>1, <1>2, InductionUpTo
<1> QED BY <1>3 DEF F

\* Larger shares of the same requirements give a larger sum over the same denominator.
LEMMA SumsGrow ==
  ASSUME NEW s, NEW n \in Nat, NEW f, Sums(s, n, f), \A k \in 0..n : s[k] \in Fractions,
         NEW t, NEW g, Sums(t, n, g), \A k \in 0..n : t[k] \in Fractions,
         \A k \in 0..n : s[k][1] <= t[k][1] /\ s[k][2] = t[k][2]
  PROVE  \A k \in 0..n : f[k][1] <= g[k][1] /\ f[k][2] = g[k][2]
<1> DEFINE F == {k \in 0..n : f[k][1] <= g[k][1] /\ f[k][2] = g[k][2]}
<1>1. 0 \in F
  BY DEF Sums
<1>2. ASSUME NEW k \in 0..(n - 1), k \in F PROVE k + 1 \in F
  <2>1. f[k + 1] = Plus(f[k], s[k + 1]) /\ g[k + 1] = Plus(g[k], t[k + 1])
    BY DEF Sums
  <2>2. f[k] \in Fractions /\ s[k + 1] \in Fractions /\ g[k] \in Fractions /\ t[k + 1] \in Fractions
    BY SumsAreFractions
  <2>3. /\ f[k][1] \in Nat /\ f[k][2] \in Nat /\ s[k + 1][1] \in Nat /\ s[k + 1][2] \in Nat
        /\ g[k][1] \in Nat /\ g[k][2] \in Nat /\ t[k + 1][1] \in Nat /\ t[k + 1][2] \in Nat
    BY <2>2 DEF Fractions
  <2>4. f[k][1] <= g[k][1] /\ f[k][2] = g[k][2] /\ s[k + 1][1] <= t[k + 1][1] /\ s[k + 1][2] = t[k + 1][2]
    BY <1>2
  <2>5. \A a, b, c, d, e, h \in Nat : a <= b /\ c <= d => a * e + c * h <= b * e + d * h
    <3>1. ASSUME NEW a \in Nat, NEW b \in Nat, NEW e \in Nat, a <= b PROVE a * e <= b * e
      <4>1. (b - a) * e >= 0 /\ b * e = a * e + (b - a) * e /\ a * e \in Nat
        BY <3>1
      <4> QED BY <4>1
    <3>2. \A a, e \in Nat : a * e \in Nat
      OBVIOUS
    <3>3. \A a, b, c, d \in Nat : a <= b /\ c <= d => a + c <= b + d
      OBVIOUS
    <3> QED BY <3>1, <3>2, <3>3
  <2>6. f[k][1] * s[k + 1][2] + s[k + 1][1] * f[k][2] <= g[k][1] * s[k + 1][2] + t[k + 1][1] * f[k][2]
    BY <2>3, <2>4, <2>5
  <2>7. f[k + 1][1] <= g[k + 1][1] /\ f[k + 1][2] = g[k + 1][2]
    BY <2>1, <2>4, <2>6 DEF Plus
  <2> QED BY <2>7
<1> HIDE DEF F
<1>3. \A k \in 0..n : k \in F
  BY <1>1, <1>2, InductionUpTo
<1> QED BY <1>3 DEF F

-----------------------------------------------------------------------------
(* Rounding *)

LEMMA Division ==
  ASSUME NEW d \in Nat \ {0}, NEW n \in Nat
  PROVE  n % d \in 0..(d - 1) /\ n \div d \in Nat /\ n = d * (n \div d) + (n % d)
  OBVIOUS

\* Rounding keeps the order and stays on its side of every whole number.
LEMMA RoundingIsMonotone ==
  ASSUME NEW d \in Nat \ {0}, NEW m \in Nat, NEW n \in Nat, m <= n
  PROVE  RoundHalfEven(m, d) <= RoundHalfEven(n, d)
<1> DEFINE p == m \div d
           q == n \div d
           r == m % d
           t == n % d
<1>1. /\ p \in Nat /\ q \in Nat /\ r \in 0..(d - 1) /\ t \in 0..(d - 1)
      /\ m = d * p + r /\ n = d * q + t
  BY Division
<1>2. /\ RoundHalfEven(m, d) = IF 2 * r < d \/ (2 * r = d /\ p % 2 = 0) THEN p ELSE p + 1
      /\ RoundHalfEven(n, d) = IF 2 * t < d \/ (2 * t = d /\ q % 2 = 0) THEN q ELSE q + 1
  BY DEF RoundHalfEven
<1> HIDE DEF p, q, r, t
<1>3. p <= q
  <2> SUFFICES ASSUME p >= q + 1 PROVE FALSE
    BY <1>1
  <2>1. d * p >= d * (q + 1)
    <3>1. d * p = d * (q + 1) + d * (p - (q + 1)) /\ d * (p - (q + 1)) >= 0
      BY <1>1
    <3> QED BY <1>1, <3>1
  <2>2. d * (q + 1) = d * q + d
    BY <1>1
  <2> QED BY <1>1, <2>1, <2>2
<1>4. CASE p < q
  BY <1>1, <1>2, <1>4
<1>5. CASE p = q
  <2>1. r <= t
    BY <1>1, <1>5
  <2> QED BY <1>1, <1>2, <1>5, <2>1
<1> QED BY <1>1, <1>3, <1>4, <1>5

LEMMA RoundingOfWhole ==
  ASSUME NEW d \in Nat \ {0}, NEW q \in Nat
  PROVE  RoundHalfEven(d * q, d) = q
<1>1. d * q \in Nat
  OBVIOUS
<1> DEFINE p == (d * q) \div d
           r == (d * q) % d
<1>2. p \in Nat /\ r \in 0..(d - 1) /\ d * q = d * p + r
  BY <1>1, Division
<1>3. RoundHalfEven(d * q, d) = IF 2 * r < d \/ (2 * r = d /\ p % 2 = 0) THEN p ELSE p + 1
  BY DEF RoundHalfEven
<1> HIDE DEF p, r
<1>4. d * (q - p) = r
  BY <1>2
<1>5. q - p = 0
  <2>1. CASE q - p >= 1
    <3>1. d * (q - p) = d + d * (q - p - 1) /\ d * (q - p - 1) >= 0
      BY <1>2, <2>1
    <3> QED BY <1>2, <1>4, <3>1
  <2>2. CASE q - p <= -1
    <3>1. d * (q - p) = -d + d * (q - p + 1) /\ d * (q - p + 1) <= 0
      BY <1>2, <2>2
    <3> QED BY <1>2, <1>4, <3>1
  <2> QED BY <1>2, <2>1, <2>2
<1>6. r = 0
  BY <1>2, <1>4, <1>5
<1> QED BY <1>2, <1>3, <1>5, <1>6

\* Units are whole, at most the requirement, and grow with the fraction.
LEMMA UnitsBounded ==
  ASSUME NEW f \in Fractions, NEW qty \in Nat
  PROVE  Units(f, qty) \in 0..qty
<1> DEFINE a == f[1]
           d == f[2]
<1>1. a \in Nat /\ d \in Nat \ {0} /\ a * qty \in Nat /\ d * qty \in Nat
  BY DEF Fractions
<1>2. CASE Covers(f)
  BY <1>2 DEF Units
<1>3. CASE ~ Covers(f)
  <2>1. a * qty <= d * qty
    <3>1. a < d
      BY <1>1, <1>3 DEF Covers
    <3>2. d * qty = a * qty + (d - a) * qty /\ (d - a) * qty >= 0
      BY <1>1, <3>1
    <3> QED BY <1>1, <3>2
  <2>2. RoundHalfEven(a * qty, d) <= RoundHalfEven(d * qty, d)
    BY <1>1, <2>1, RoundingIsMonotone
  <2>3. RoundHalfEven(d * qty, d) = qty
    BY <1>1, RoundingOfWhole
  <2>4. RoundHalfEven(a * qty, d) \in Nat
    <3>1. (a * qty) \div d \in Nat
      BY <1>1, Division
    <3> QED BY <3>1 DEF RoundHalfEven
  <2>5. Units(f, qty) = RoundHalfEven(a * qty, d)
    BY <1>3 DEF Units
  <2> QED BY <2>2, <2>3, <2>4, <2>5
<1> QED BY <1>2, <1>3

LEMMA UnitsGrow ==
  ASSUME NEW f \in Fractions, NEW g \in Fractions, NEW qty \in Nat, f[1] <= g[1], f[2] = g[2]
  PROVE  Units(f, qty) <= Units(g, qty)
<1> DEFINE a == f[1]
           b == g[1]
           d == f[2]
<1>1. a \in Nat /\ b \in Nat /\ d \in Nat \ {0} /\ a * qty \in Nat /\ b * qty \in Nat
  BY DEF Fractions
<1>2. CASE Covers(g)
  <2>1. Units(g, qty) = qty
    BY <1>2 DEF Units
  <2> QED BY <2>1, UnitsBounded
<1>3. CASE ~ Covers(g)
  <2>1. ~ Covers(f)
    BY <1>1, <1>3 DEF Covers
  <2>2. a * qty <= b * qty
    <3>1. b * qty = a * qty + (b - a) * qty /\ (b - a) * qty >= 0
      BY <1>1
    <3> QED BY <1>1, <3>1
  <2>3. RoundHalfEven(a * qty, d) <= RoundHalfEven(b * qty, d)
    BY <1>1, <2>2, RoundingIsMonotone
  <2> QED BY <1>3, <2>1, <2>3 DEF Units
<1> QED BY <1>2, <1>3

-----------------------------------------------------------------------------
(* Chains of a tree of any depth *)

\* The first k steps of a path.
LEMMA PathUpTo ==
  ASSUME NEW p \in Seq(Nat), NEW k \in 0..Len(p)
  PROVE  /\ SubSeq(p, 1, k) \in Seq(Nat)
         /\ Len(SubSeq(p, 1, k)) = k
         /\ \A i \in 1..k : SubSeq(p, 1, k)[i] = p[i]
<1>1. Len(p) \in Nat /\ \A i \in 1..Len(p) : p[i] \in Nat
  BY LenProperties, ElementOfSeq
<1>2. \A i \in 1..k : p[i] \in Nat
  BY <1>1
<1>3. /\ SubSeq(p, 1, k) \in Seq(Nat)
      /\ Len(SubSeq(p, 1, k)) = IF 1 <= k THEN k - 1 + 1 ELSE 0
      /\ \A i \in 1..(k - 1 + 1) : SubSeq(p, 1, k)[i] = p[1 + i - 1]
  BY <1>2, SubSeqProperties
<1> QED BY <1>1, <1>3

\* A path leads through nodes of the tree.
LEMMA PathsAreClosed ==
  ASSUME NEW T, IsTree(T), NEW p \in DOMAIN T
  PROVE  \A k \in 0..Len(p) : SubSeq(p, 1, k) \in DOMAIN T
<1> DEFINE n == Len(p)
           F == {j \in 0..n : SubSeq(p, 1, n - j) \in DOMAIN T}
<1>1. p \in Seq(Nat) /\ n \in Nat
  BY LenProperties DEF IsTree
<1>2. 0 \in F
  <2>1. SubSeq(p, 1, n) = p
    BY <1>1, SubSeqFull
  <2>2. 0 \in 0..n /\ n - 0 = n
    BY <1>1
  <2>3. SubSeq(p, 1, n - 0) \in DOMAIN T
    BY <2>1, <2>2
  <2> QED BY <2>2, <2>3
<1>3. ASSUME NEW j \in 0..(n - 1), j \in F PROVE j + 1 \in F
  <2> DEFINE q == SubSeq(p, 1, n - j)
             r == SubSeq(p, 1, n - (j + 1))
  <2>1. q \in DOMAIN T /\ n - j \in 1..n /\ n - (j + 1) \in 0..n
    BY <1>1, <1>3
  <2>2. q \in Seq(Nat) /\ Len(q) = n - j /\ \A i \in 1..(n - j) : q[i] = p[i]
    BY <1>1, <2>1, PathUpTo
  <2>3. r \in Seq(Nat) /\ Len(r) = n - (j + 1) /\ \A i \in 1..(n - (j + 1)) : r[i] = p[i]
    BY <1>1, <2>1, PathUpTo
  <2> HIDE DEF q, r
  <2>4. q # Root
    BY <2>1, <2>2, EmptySeq DEF Root
  <2>5. SubSeq(q, 1, Len(q) - 1) \in DOMAIN T
    BY <2>1, <2>4 DEF IsTree
  <2>6. SubSeq(q, 1, Len(q) - 1) = r
    <3> DEFINE u == SubSeq(q, 1, Len(q) - 1)
    <3>1. Len(q) - 1 \in 0..Len(q) /\ Len(q) - 1 = n - (j + 1)
      BY <1>1, <2>1, <2>2
    <3>2. u \in Seq(Nat) /\ Len(u) = n - (j + 1) /\ \A i \in 1..(n - (j + 1)) : u[i] = q[i]
      BY <2>2, <3>1, PathUpTo
    <3>3. \A i \in 1..(n - (j + 1)) : i \in 1..(n - j)
      BY <1>1
    <3> HIDE DEF u
    <3>4. \A i \in 1..Len(u) : u[i] = r[i]
      BY <2>2, <2>3, <3>2, <3>3
    <3>5. u = r
      BY <2>3, <3>2, <3>4, SeqEqual
    <3> QED BY <3>5 DEF u
  <2>7. j + 1 \in 0..n
    BY <1>1
  <2> QED BY <2>5, <2>6, <2>7 DEF r
<1> HIDE DEF F
<1>4. \A j \in 0..n : j \in F
  BY <1>1, <1>2, <1>3, InductionUpTo
<1>5. ASSUME NEW k \in 0..n PROVE SubSeq(p, 1, k) \in DOMAIN T
  <2>1. n - k \in F /\ n - (n - k) = k
    BY <1>1, <1>4
  <2> QED BY <2>1 DEF F
<1> QED BY <1>5

\* The fractions that ChainSum adds up.
Shares(T, amounts, p) ==
  [k \in 0..Len(p) |->
     <<AmountOf(amounts, NodeId(T, SubSeq(p, 1, k))), T[SubSeq(p, 1, k)].qty>>]

LEMMA ChainUnfolds ==
  ASSUME NEW T, NEW amounts, NEW p, Len(p) \in Nat
  PROVE  \E f : Sums(Shares(T, amounts, p), Len(p), f) /\ ChainSum(T, amounts, p) = f[Len(p)]
<1> DEFINE n == Len(p)
           s == Shares(T, amounts, p)
           node(k) == SubSeq(p, 1, k)
           share(k) == <<AmountOf(amounts, NodeId(T, node(k))), T[node(k)].qty>>
           Chain(g) == g = [k \in 0..n |-> IF k = 0 THEN share(0) ELSE Plus(g[k - 1], share(k))]
           sum == CHOOSE g : Chain(g)
<1>1. ASSUME NEW g PROVE Chain(g) <=> Sums(s, n, g)
  <2>1. \A k \in 0..n : s[k] = share(k)
    BY DEF Shares
  <2> HIDE DEF share, s
  <2>2. 0 \in 0..n
    OBVIOUS
  <2>3. [k \in 0..n |-> IF k = 0 THEN share(0) ELSE Plus(g[k - 1], share(k))]
          = [k \in 0..n |-> IF k = 0 THEN s[0] ELSE Plus(g[k - 1], s[k])]
    BY <2>1, <2>2
  <2> QED BY <2>3 DEF Sums
<1>2. PICK g : Sums(s, n, g)
  BY SumsExist
<1>3. Chain(sum)
  <2>1. Chain(g)
    BY <1>1, <1>2
  <2> HIDE DEF Chain
  <2> QED BY <2>1
<1>4. ChainSum(T, amounts, p) = sum[n]
  BY DEF ChainSum
<1> HIDE DEF sum
<1>5. Sums(s, n, sum)
  <2> HIDE DEF Chain, s
  <2> QED BY <1>1, <1>3
<1> QED BY <1>4, <1>5

\* A tree whose requirements are positive; amounts that are quantities.
IsCounted(T) == IsTree(T) /\ \A p \in DOMAIN T : T[p].qty \in Nat \ {0}

ArePaid(amounts) == \A id \in DOMAIN amounts : amounts[id] \in Nat

LEMMA SharesAreFractions ==
  ASSUME NEW T, IsCounted(T), NEW amounts, ArePaid(amounts), NEW p \in DOMAIN T
  PROVE  Len(p) \in Nat /\ \A k \in 0..Len(p) : Shares(T, amounts, p)[k] \in Fractions
<1>1. p \in Seq(Nat) /\ IsTree(T)
  BY DEF IsCounted, IsTree
<1>2. Len(p) \in Nat
  BY <1>1, LenProperties
<1>3. ASSUME NEW k \in 0..Len(p) PROVE Shares(T, amounts, p)[k] \in Fractions
  <2>1. SubSeq(p, 1, k) \in DOMAIN T
    BY <1>1, PathsAreClosed
  <2>2. T[SubSeq(p, 1, k)].qty \in Nat \ {0}
    BY <2>1 DEF IsCounted
  <2>3. \A id : AmountOf(amounts, id) \in Nat
    BY DEF AmountOf, ArePaid
  <2> QED BY <2>2, <2>3 DEF Shares, Fractions
<1> QED BY <1>2, <1>3

LEMMA ChainIsFraction ==
  ASSUME NEW T, IsCounted(T), NEW amounts, ArePaid(amounts), NEW p \in DOMAIN T
  PROVE  ChainSum(T, amounts, p) \in Fractions
<1>1. Len(p) \in Nat /\ \A k \in 0..Len(p) : Shares(T, amounts, p)[k] \in Fractions
  BY SharesAreFractions
<1>2. PICK f : Sums(Shares(T, amounts, p), Len(p), f) /\ ChainSum(T, amounts, p) = f[Len(p)]
  BY <1>1, ChainUnfolds
<1>3. f[Len(p)] \in Fractions
  BY <1>1, <1>2, SumsAreFractions
<1> QED BY <1>2, <1>3

\* The chain of a node begins with the chain of each node above it.
LEMMA ChainsShare ==
  ASSUME NEW T, IsTree(T), NEW amounts, NEW p \in DOMAIN T, NEW q \in DOMAIN T, IsPrefixOf(p, q)
  PROVE  /\ Len(p) \in Nat /\ Len(q) \in Nat /\ Len(p) <= Len(q)
         /\ \A k \in 0..Len(p) : SubSeq(q, 1, k) = SubSeq(p, 1, k)
         /\ \A k \in 0..Len(p) : Shares(T, amounts, q)[k] = Shares(T, amounts, p)[k]
<1>1. p \in Seq(Nat) /\ q \in Seq(Nat)
  BY DEF IsTree
<1>2. /\ Len(p) \in Nat /\ Len(q) \in Nat /\ Len(p) <= Len(q)
      /\ \A i \in 1..Len(p) : p[i] = q[i]
  BY <1>1, LenProperties DEF IsPrefixOf
<1>3. ASSUME NEW k \in 0..Len(p) PROVE SubSeq(q, 1, k) = SubSeq(p, 1, k)
  <2> DEFINE a == SubSeq(q, 1, k)
             b == SubSeq(p, 1, k)
  <2>1. k \in 0..Len(q) /\ \A i \in 1..k : i \in 1..Len(p)
    BY <1>2
  <2>2. a \in Seq(Nat) /\ Len(a) = k /\ \A i \in 1..k : a[i] = q[i]
    BY <1>1, <2>1, PathUpTo
  <2>3. b \in Seq(Nat) /\ Len(b) = k /\ \A i \in 1..k : b[i] = p[i]
    BY <1>1, PathUpTo
  <2> HIDE DEF a, b
  <2>4. a = b
    BY <1>2, <2>1, <2>2, <2>3, SeqEqual
  <2> QED BY <2>4 DEF a, b
<1>4. \A k \in 0..Len(p) : k \in 0..Len(q)
  BY <1>2
<1>5. \A k \in 0..Len(p) : Shares(T, amounts, q)[k] = Shares(T, amounts, p)[k]
  BY <1>3, <1>4 DEF Shares
<1> QED BY <1>2, <1>3, <1>5

\* What covers a node covers everything below it.
LEMMA CoverIsInherited ==
  ASSUME NEW T, IsCounted(T), NEW amounts, ArePaid(amounts),
         NEW p \in DOMAIN T, NEW q \in DOMAIN T, IsPrefixOf(p, q), Covers(ChainSum(T, amounts, p))
  PROVE  Covers(ChainSum(T, amounts, q))
<1> DEFINE s == Shares(T, amounts, p)
           t == Shares(T, amounts, q)
<1>1. /\ Len(p) \in Nat /\ Len(q) \in Nat /\ Len(p) <= Len(q)
      /\ \A k \in 0..Len(p) : t[k] = s[k]
  <2>1. IsTree(T)
    BY DEF IsCounted
  <2> QED BY <2>1, ChainsShare
<1>2. \A k \in 0..Len(q) : t[k] \in Fractions
  BY SharesAreFractions
<1>3. PICK f : Sums(s, Len(p), f) /\ ChainSum(T, amounts, p) = f[Len(p)]
  BY <1>1, ChainUnfolds
<1>4. PICK g : Sums(t, Len(q), g) /\ ChainSum(T, amounts, q) = g[Len(q)]
  BY <1>1, ChainUnfolds
<1> HIDE DEF s, t
<1>5. f[Len(p)] = g[Len(p)]
  <2>1. \A k \in 0..Len(p) : f[k] = g[k]
    BY <1>1, <1>3, <1>4, SumsAgree
  <2> QED BY <1>1, <2>1
<1>6. Covers(g[Len(p)]) /\ Len(p) \in 0..Len(q) /\ Len(q) \in Len(p)..Len(q)
  BY <1>1, <1>3, <1>5
<1>7. Covers(g[Len(q)])
  BY <1>1, <1>2, <1>4, <1>6, SumsKeepCovering
<1> QED BY <1>4, <1>7

\* More delivered anywhere is no less on any chain.
LEMMA ChainGrows ==
  ASSUME NEW T, IsCounted(T), NEW amounts, ArePaid(amounts), NEW more, ArePaid(more),
         \A id : AmountOf(amounts, id) <= AmountOf(more, id), NEW p \in DOMAIN T
  PROVE  /\ ChainSum(T, amounts, p)[1] <= ChainSum(T, more, p)[1]
         /\ ChainSum(T, amounts, p)[2] = ChainSum(T, more, p)[2]
<1> DEFINE s == Shares(T, amounts, p)
           t == Shares(T, more, p)
           n == Len(p)
<1>1. n \in Nat /\ \A k \in 0..n : s[k] \in Fractions /\ t[k] \in Fractions
  BY SharesAreFractions
<1>2. \A k \in 0..n : s[k][1] <= t[k][1] /\ s[k][2] = t[k][2]
  BY DEF Shares
<1>3. PICK f : Sums(s, n, f) /\ ChainSum(T, amounts, p) = f[n]
  BY <1>1, ChainUnfolds
<1>4. PICK g : Sums(t, n, g) /\ ChainSum(T, more, p) = g[n]
  BY <1>1, ChainUnfolds
<1> HIDE DEF s, t, n
<1>5. \A k \in 0..n : f[k][1] <= g[k][1] /\ f[k][2] = g[k][2]
  BY <1>1, <1>2, <1>3, <1>4, SumsGrow
<1> QED BY <1>1, <1>3, <1>4, <1>5

\* What is delivered off the chain of a node does not count for it.
LEMMA ChainUntouched ==
  ASSUME NEW T, NEW amounts, NEW more, NEW p, Len(p) \in Nat,
         \A k \in 0..Len(p) : AmountOf(amounts, NodeId(T, SubSeq(p, 1, k)))
                                = AmountOf(more, NodeId(T, SubSeq(p, 1, k)))
  PROVE  ChainSum(T, amounts, p) = ChainSum(T, more, p)
<1> DEFINE s == Shares(T, amounts, p)
<1>1. Shares(T, more, p) = s
  BY DEF Shares
<1>2. PICK f : Sums(s, Len(p), f) /\ ChainSum(T, amounts, p) = f[Len(p)]
  BY ChainUnfolds
<1>3. PICK g : Sums(s, Len(p), g) /\ ChainSum(T, more, p) = g[Len(p)]
  BY <1>1, ChainUnfolds
<1> HIDE DEF s
<1>4. PICK n, t : n = Len(p) /\ t = s
  OBVIOUS
<1>5. \A k \in 0..n : s[k] = t[k]
  BY <1>4
<1>6. n \in Nat /\ n <= n
  BY <1>4
<1>7. Sums(s, n, f) /\ Sums(t, n, g)
  BY <1>2, <1>3, <1>4
<1>8. \A k \in 0..n : f[k] = g[k]
  BY <1>5, <1>6, <1>7, SumsAgree
<1> QED BY <1>2, <1>3, <1>4, <1>6, <1>8

-----------------------------------------------------------------------------
(* Trees of any depth *)

LEMMA SinglesCount ==
  ASSUME NEW n \in Nat
  PROVE  IsFiniteSet({<<i>> : i \in 1..n}) /\ Cardinality({<<i>> : i \in 1..n}) = n
<1> DEFINE S == {<<i>> : i \in 1..n}
           f == [i \in 1..n |-> <<i>>]
<1>1. f \in [1..n -> S] /\ \A s \in S : \E i \in 1..n : f[i] = s
  OBVIOUS
<1>2. \A i, j \in 1..n : f[i] = f[j] => i = j
  <2>1. \A a, b \in Nat : <<a>> = <<b>> => a = b
    OBVIOUS
  <2> QED BY <2>1
<1> HIDE DEF f, S
<1>3. f \in Bijection(1..n, S)
  BY <1>1, <1>2 DEF Bijection, Injection, Surjection, IsInjective
<1>4. ExistsBijection(1..n, S)
  BY <1>3 DEF ExistsBijection
<1>5. Cardinality(S) = n /\ IsFiniteSet(S)
  BY <1>4, FS_CountingElements, FS_NatBijection
<1> QED BY <1>5 DEF S

LEMMA DegreeIsNat ==
  ASSUME NEW T, IsFiniteSet(DOMAIN T), NEW p
  PROVE  IsFiniteSet(ChildPaths(T, p)) /\ Degree(T, p) \in Nat
<1>1. ChildPaths(T, p) \subseteq DOMAIN T
  BY DEF ChildPaths
<1> QED BY <1>1, FS_Subset, FS_CardinalityType DEF Degree

\* The children of the root.
LEMMA RootChildren ==
  ASSUME NEW T, IsTree(T)
  PROVE  ChildPaths(T, Root) = {<<i>> : i \in 1..Degree(T, Root)}
<1> DEFINE n == Degree(T, Root)
           C == ChildPaths(T, Root)
           D == {<<i>> : i \in 1..n}
<1>1. n \in Nat /\ IsFiniteSet(D) /\ Cardinality(D) = n
  <2>1. n \in Nat
    BY DegreeIsNat DEF IsTree
  <2> HIDE DEF n
  <2> QED BY <2>1, SinglesCount
<1>2. Cardinality(C) = n
  BY DEF Degree
<1>3. C \subseteq D
  <2>1. ASSUME NEW c \in C PROVE c \in D
    <3>1. c \in Seq(Nat) /\ Len(c) = 1
      BY DEF ChildPaths, Root, IsTree
    <3>2. c[1] \in 1..n
      BY <3>1 DEF IsTree
    <3>3. c = <<c[1]>>
      BY <3>1
    <3> QED BY <3>2, <3>3
  <2> QED BY <2>1
<1> HIDE DEF C, D, n
<1>4. C = D
  BY <1>1, <1>2, <1>3, FS_Subset
<1> QED BY <1>4 DEF C, D, n

\* The first step of a path leads to one of them.
LEMMA FirstStep ==
  ASSUME NEW T, IsTree(T), NEW p \in DOMAIN T, p # Root
  PROVE  Len(p) \in Nat \ {0} /\ p[1] \in 1..Degree(T, Root)
<1>1. p \in Seq(Nat) /\ Len(p) \in Nat \ {0}
  BY EmptySeq DEF IsTree, Root
<1> DEFINE c == SubSeq(p, 1, 1)
<1>2. 1 \in 0..Len(p)
  BY <1>1
<1>3. c \in DOMAIN T
  BY <1>2, PathsAreClosed
<1>4. c \in Seq(Nat) /\ Len(c) = 1 /\ c[1] = p[1]
  BY <1>1, <1>2, PathUpTo
<1> HIDE DEF c
<1>5. c \in ChildPaths(T, Root)
  BY <1>3, <1>4 DEF ChildPaths, IsPrefixOf, Root
<1>6. Root \in DOMAIN T
  BY DEF IsTree
<1>7. c[Len(c)] \in 1..Degree(T, Root)
  BY <1>5, <1>6 DEF IsTree
<1> QED BY <1>1, <1>4, <1>7

\* A root with more children than are numbered is a contradiction.
LEMMA NoChildBeyond ==
  ASSUME NEW T, IsTree(T), NEW k \in Nat, <<k>> \in DOMAIN T
  PROVE  k <= Degree(T, Root)
<1>1. <<k>> # Root /\ <<k>>[1] = k
  BY DEF Root
<1>2. k \in 1..Degree(T, Root)
  BY <1>1, FirstStep
<1>3. Degree(T, Root) \in Nat
  BY DegreeIsNat DEF IsTree
<1> QED BY <1>2, <1>3

LEMMA RootIsFirst ==
  ASSUME NEW T, DOMAIN T \subseteq Seq(Nat)
  PROVE  NodeId(T, Root) = 0
<1>1. ASSUME NEW q \in DOMAIN T PROVE ~ Before(q, Root)
  <2>1. q \in Seq(Nat) /\ Len(Root) = 0 /\ DOMAIN Root = {}
    BY DEF Root
  <2>2. q # Root => Len(q) \in Nat \ {0}
    BY <2>1, EmptySeq DEF Root
  <2> QED BY <2>1, <2>2 DEF Before, IsPrefixOf
<1>2. {q \in DOMAIN T : Before(q, Root)} = {}
  BY <1>1
<1> QED BY <1>2, FS_EmptySet DEF NodeId

\* The parent of an appended path is the path it was appended to.
LEMMA ParentOfAppended ==
  ASSUME NEW p \in Seq(Nat), NEW k \in Nat
  PROVE  LET c == Append(p, k)
         IN  /\ c \in Seq(Nat) /\ c # Root /\ Len(c) = Len(p) + 1 /\ c[Len(c)] = k
             /\ SubSeq(c, 1, Len(c) - 1) = p
             /\ \A q \in Seq(Nat) : Len(q) = Len(p) => (IsPrefixOf(q, c) <=> q = p)
<1> DEFINE c == Append(p, k)
<1>1. Len(p) \in Nat /\ DOMAIN p = 1..Len(p)
  BY LenProperties
<1>2. /\ c \in Seq(Nat) /\ c # Root /\ Len(c) = Len(p) + 1 /\ c[Len(c)] = k
      /\ \A i \in 1..Len(p) : c[i] = p[i]
  BY <1>1, AppendProperties DEF Root
<1> HIDE DEF c
<1>3. SubSeq(c, 1, Len(c) - 1) = p
  <2> DEFINE u == SubSeq(c, 1, Len(c) - 1)
  <2>1. Len(c) - 1 \in 0..Len(c) /\ Len(c) - 1 = Len(p)
    BY <1>1, <1>2
  <2>2. u \in Seq(Nat) /\ Len(u) = Len(p) /\ \A i \in 1..Len(p) : u[i] = c[i]
    BY <1>2, <2>1, PathUpTo
  <2> HIDE DEF u
  <2>3. u = p
    BY <1>2, <2>2, SeqEqual
  <2> QED BY <2>3 DEF u
<1>4. ASSUME NEW q \in Seq(Nat), Len(q) = Len(p) PROVE IsPrefixOf(q, c) <=> q = p
  <2>1. DOMAIN q = 1..Len(q)
    BY LenProperties
  <2>2. CASE IsPrefixOf(q, c)
    <3>1. \A i \in 1..Len(q) : q[i] = p[i]
      BY <1>2, <1>4, <2>1, <2>2 DEF IsPrefixOf
    <3> QED BY <1>4, <2>2, <3>1, SeqEqual
  <2>3. CASE q = p
    BY <1>1, <1>2, <2>1, <2>3 DEF IsPrefixOf
  <2> QED BY <2>2, <2>3
<1> QED BY <1>2, <1>3, <1>4 DEF c

(***************************************************************************)
(* A tree grows by the next child of one of its nodes and stays a tree.    *)
(***************************************************************************)
LEMMA AppendedIsTree ==
  ASSUME NEW T, IsTree(T), NEW p \in DOMAIN T, NEW U,
         DOMAIN U = DOMAIN T \cup {Append(p, Degree(T, p) + 1)}
  PROVE  IsTree(U)
<1> DEFINE k == Degree(T, p) + 1
           c == Append(p, k)
<1>1. p \in Seq(Nat) /\ k \in Nat /\ Degree(T, p) \in Nat /\ IsFiniteSet(ChildPaths(T, p)) /\ Len(p) \in Nat
  BY DegreeIsNat, LenProperties DEF IsTree
<1>2. /\ c \in Seq(Nat) /\ c # Root /\ Len(c) = Len(p) + 1 /\ c[Len(c)] = k
      /\ SubSeq(c, 1, Len(c) - 1) = p
      /\ \A q \in Seq(Nat) : Len(q) = Len(p) => (IsPrefixOf(q, c) <=> q = p)
  <2> HIDE DEF k
  <2> QED BY <1>1, ParentOfAppended
<1>d. DOMAIN U = DOMAIN T \cup {c}
  OBVIOUS
<1> HIDE DEF c
<1>3. c \notin DOMAIN T
  <2> SUFFICES ASSUME c \in DOMAIN T PROVE FALSE
    OBVIOUS
  <2>1. c \in ChildPaths(T, p)
    BY <1>1, <1>2 DEF ChildPaths
  <2>2. c[Len(c)] \in 1..Degree(T, p)
    BY <2>1 DEF IsTree
  <2> QED BY <1>1, <1>2, <2>2
<1>4. DOMAIN U \subseteq Seq(Nat) /\ IsFiniteSet(DOMAIN U) /\ Root \in DOMAIN U
  <2>1. DOMAIN T \subseteq Seq(Nat) /\ IsFiniteSet(DOMAIN T) /\ Root \in DOMAIN T
    BY DEF IsTree
  <2>2. IsFiniteSet(DOMAIN U)
    BY <1>d, <2>1, FS_AddElement
  <2> QED BY <1>2, <1>d, <2>1, <2>2
<1>5. ASSUME NEW q \in DOMAIN U, q # Root PROVE SubSeq(q, 1, Len(q) - 1) \in DOMAIN U
  BY <1>2, <1>5, <1>d DEF IsTree
<1>6. ASSUME NEW q \in DOMAIN U, NEW r \in ChildPaths(U, q) PROVE r[Len(r)] \in 1..Degree(U, q)
  <2>q. q \in Seq(Nat) /\ Len(q) \in Nat
    BY <1>4, LenProperties
  <2>1. CASE q = p
    <3>1. ChildPaths(U, p) = ChildPaths(T, p) \cup {c}
      BY <1>1, <1>2, <1>d DEF ChildPaths
    <3>2. c \notin ChildPaths(T, p)
      BY <1>3 DEF ChildPaths
    <3>3. Degree(U, p) = k
      BY <1>1, <3>1, <3>2, FS_AddElement DEF Degree
    <3>4. r \in ChildPaths(T, p) => r[Len(r)] \in 1..Degree(T, p)
      BY DEF IsTree
    <3>5. 1..Degree(T, p) \subseteq 1..k /\ k \in 1..k
      BY <1>1
    <3>6. r \in ChildPaths(T, p) \cup {c}
      BY <1>6, <2>1, <3>1
    <3>7. r[Len(r)] \in 1..k
      <4> HIDE DEF k
      <4> QED BY <1>2, <3>4, <3>5, <3>6
    <3> QED BY <2>1, <3>3, <3>7
  <2>2. CASE q # p /\ q \in DOMAIN T
    <3>1. ChildPaths(U, q) = ChildPaths(T, q)
      <4>1. ~ (Len(c) = Len(q) + 1 /\ IsPrefixOf(q, c))
        <5>1. Len(c) = Len(q) + 1 => Len(q) = Len(p)
          BY <1>1, <1>2, <2>q
        <5> QED BY <1>2, <2>q, <2>2, <5>1
      <4> QED BY <4>1, <1>d DEF ChildPaths
    <3>2. r[Len(r)] \in 1..Degree(T, q)
      BY <1>6, <2>2, <3>1 DEF IsTree
    <3> QED BY <3>1, <3>2 DEF Degree
  <2>3. CASE q = c
    <3>1. r \in DOMAIN U /\ Len(r) = Len(c) + 1 /\ IsPrefixOf(c, r)
      BY <1>6, <2>3 DEF ChildPaths
    <3>2. r \in DOMAIN T /\ r \in Seq(Nat) /\ Len(c) \in Nat
      BY <1>2, <1>d, <1>4, <3>1, <2>q, <2>3
    <3>3. SubSeq(r, 1, Len(c)) \in DOMAIN T
      <4>1. Len(c) \in 0..Len(r)
        BY <3>1, <3>2
      <4> QED BY <3>2, <4>1, PathsAreClosed
    <3>4. SubSeq(r, 1, Len(c)) = c
      <4> DEFINE u == SubSeq(r, 1, Len(c))
      <4>1. Len(c) \in 0..Len(r) /\ DOMAIN c = 1..Len(c)
        BY <1>2, <3>1, <3>2, LenProperties
      <4>2. u \in Seq(Nat) /\ Len(u) = Len(c) /\ \A i \in 1..Len(c) : u[i] = r[i]
        BY <3>2, <4>1, PathUpTo
      <4>3. \A i \in 1..Len(c) : c[i] = r[i]
        BY <3>1, <4>1 DEF IsPrefixOf
      <4> HIDE DEF u
      <4>4. u = c
        BY <1>2, <4>2, <4>3, SeqEqual
      <4> QED BY <4>4 DEF u
    <3> QED BY <1>3, <3>3, <3>4
  <2> QED BY <2>1, <2>2, <2>3, <1>d
<1> QED BY <1>4, <1>5, <1>6 DEF IsTree

-----------------------------------------------------------------------------
(* Re-expanding a tree *)

\* Counting the members of a finite set of numbers up to each of them numbers the set 1..c.
LEMMA RankIsBijection ==
  ASSUME NEW F \in SUBSET Nat, IsFiniteSet(F), NEW rank,
         rank = [i \in F |-> Cardinality({j \in F : j <= i})]
  PROVE  rank \in Bijection(F, 1..Cardinality(F))
<1> DEFINE upTo(i) == {j \in F : j <= i}
           c == Cardinality(F)
<1>1. ASSUME NEW i \in F PROVE IsFiniteSet(upTo(i)) /\ Cardinality(upTo(i)) \in 1..c
  <2>1. IsFiniteSet(upTo(i)) /\ Cardinality(upTo(i)) <= c
    BY FS_Subset
  <2>2. i \in upTo(i)
    OBVIOUS
  <2>3. Cardinality(upTo(i)) # 0
    <3> HIDE DEF upTo
    <3> QED BY <2>1, <2>2, FS_EmptySet
  <2> QED BY <2>1, <2>3, FS_CardinalityType
<1>2. ASSUME NEW i \in F, NEW k \in F, i < k PROVE rank[i] # rank[k]
  <2>1. upTo(i) \in SUBSET upTo(k) /\ upTo(i) # upTo(k)
    <3>1. i \in Nat /\ k \in Nat /\ \A j \in F : j \in Nat
      OBVIOUS
    <3>2. \A j \in F : j <= i => j <= k
      BY <1>2, <3>1
    <3>3. k \in upTo(k) /\ k \notin upTo(i)
      BY <1>2, <3>1
    <3> QED BY <3>2, <3>3
  <2>2. Cardinality(upTo(i)) # Cardinality(upTo(k))
    <3> HIDE DEF upTo
    <3> QED BY <1>1, <2>1, FS_Subset
  <2> QED BY <2>2
<1>3. rank \in Injection(F, 1..c)
  <2>1. rank \in [F -> 1..c]
    BY <1>1
  <2>2. ASSUME NEW i \in F, NEW k \in F, rank[i] = rank[k] PROVE i = k
    BY <1>2, <2>2
  <2> QED BY <2>1, <2>2 DEF Injection, IsInjective
<1>4. c \in Nat /\ IsFiniteSet(1..c) /\ Cardinality(1..c) = c
  BY FS_CardinalityType, FS_Interval
<1>5. rank \in Surjection(F, 1..c)
  <2> HIDE DEF c
  <2>1. Cardinality(F) = Cardinality(1..c)
    BY <1>4 DEF c
  <2> QED BY <1>3, <1>4, <2>1, FS_Injection
<1> QED BY <1>3, <1>5 DEF Bijection

\* The root has n children, and none numbered higher.
HasChildren(T, n) ==
  n \in Nat /\ Degree(T, Root) = n /\ \A k \in Nat : <<k>> \in DOMAIN T => k <= n

LEMMA TreeHasChildren ==
  ASSUME NEW T, IsTree(T)
  PROVE  HasChildren(T, Degree(T, Root))
BY DegreeIsNat, NoChildBeyond DEF HasChildren, IsTree

(***************************************************************************)
(* What update_quest_tree writes: the nodes there were, and the fresh      *)
(* parts after the children of the root.                                   *)
(***************************************************************************)
AppendsBehind(T, n, recipe) ==
  LET fresh == FreshParts(T, recipe)
      merged == MergeRecipe(T, recipe)
      next == (n + 1)..(n + Cardinality(fresh))
  IN  /\ IsFiniteSet(fresh) /\ Cardinality(fresh) \in Nat
      /\ DOMAIN merged = DOMAIN T \cup {<<k>> : k \in next}
      /\ \A p \in DOMAIN T : merged[p] = T[p]
      /\ \A i \in fresh : /\ GraftPath(T, recipe, i) \in {<<k>> : k \in next}
                          /\ merged[GraftPath(T, recipe, i)] = Graft(T, recipe, i)
      /\ \A k \in next : merged[<<k>>] \in {Graft(T, recipe, i) : i \in fresh}

LEMMA MergeAppends ==
  ASSUME NEW T, NEW n, HasChildren(T, n), NEW recipe, NEW m \in Nat, DOMAIN recipe.parts = 1..m
  PROVE  AppendsBehind(T, n, recipe)
<1> DEFINE fresh == FreshParts(T, recipe)
           c == Cardinality(fresh)
           rank == [i \in fresh |-> Cardinality({j \in fresh : j <= i})]
           merged == MergeRecipe(T, recipe)
           path(i) == GraftPath(T, recipe, i)
<1>n. n \in Nat /\ Degree(T, Root) = n /\ \A k \in Nat : <<k>> \in DOMAIN T => k <= n
  BY DEF HasChildren
<1>f. fresh \in SUBSET Nat /\ IsFiniteSet(fresh) /\ c \in Nat
  <2>1. fresh \subseteq 1..m
    BY DEF FreshParts
  <2>2. IsFiniteSet(1..m)
    BY FS_Interval
  <2>3. IsFiniteSet(fresh)
    <3> HIDE DEF fresh
    <3> QED BY <2>1, <2>2, FS_Subset
  <2> HIDE DEF fresh
  <2> QED BY <2>1, <2>3, FS_CardinalityType
<1>r. rank \in Bijection(fresh, 1..c)
  <2> HIDE DEF fresh
  <2> QED BY <1>f, RankIsBijection
<1>1. /\ \A i \in fresh : rank[i] \in 1..c
      /\ \A i, k \in fresh : rank[i] = rank[k] => i = k
      /\ \A k \in 1..c : \E i \in fresh : rank[i] = k
  <2> HIDE DEF fresh, rank, c
  <2> QED BY <1>r DEF Bijection, Injection, Surjection, IsInjective
<1>2. \A i \in fresh : path(i) = <<n + rank[i]>>
  BY <1>n DEF GraftPath
<1>s. \A a, b \in Nat : <<a>> = <<b>> => a = b
  OBVIOUS
<1>3. ASSUME NEW i \in fresh, NEW k \in fresh, path(i) = path(k) PROVE i = k
  <2> HIDE DEF fresh, rank, c, path
  <2> QED BY <1>n, <1>f, <1>1, <1>2, <1>3, <1>s
<1>4. ASSUME NEW i \in fresh PROVE path(i) \in {<<k>> : k \in (n + 1)..(n + c)}
  <2> HIDE DEF fresh, rank, c, path
  <2>1. n + rank[i] \in (n + 1)..(n + c)
    BY <1>n, <1>f, <1>1
  <2> QED BY <1>2, <2>1
<1>5. ASSUME NEW k \in (n + 1)..(n + c) PROVE \E i \in fresh : path(i) = <<k>>
  <2> HIDE DEF fresh, rank, c, path
  <2>1. k - n \in 1..c
    BY <1>n, <1>f
  <2>2. PICK i \in fresh : rank[i] = k - n
    BY <1>1, <2>1
  <2>3. path(i) = <<k>>
    BY <1>n, <1>f, <1>2, <2>2
  <2> QED BY <2>3
<1>6. DOMAIN merged = DOMAIN T \cup {<<k>> : k \in (n + 1)..(n + c)}
  <2>1. DOMAIN merged = DOMAIN T \cup {path(i) : i \in fresh}
    BY DEF MergeRecipe
  <2> HIDE DEF fresh, c, path, merged
  <2> QED BY <2>1, <1>4, <1>5
<1>7. \A p \in DOMAIN T : merged[p] = T[p]
  BY DEF MergeRecipe
<1>8. ASSUME NEW i \in fresh PROVE merged[path(i)] = Graft(T, recipe, i)
  <2>1. path(i) \notin DOMAIN T
    <3>1. PICK k \in (n + 1)..(n + c) : path(i) = <<k>>
      <4> HIDE DEF fresh, c, path
      <4> QED BY <1>4
    <3> HIDE DEF fresh, c, path
    <3> QED BY <1>n, <1>f, <3>1
  <2>2. (CHOOSE k \in fresh : path(k) = path(i)) = i
    <3> HIDE DEF fresh, path
    <3> QED BY <1>3
  <2>3. merged[path(i)] = Graft(T, recipe, CHOOSE k \in fresh : path(k) = path(i))
    BY <2>1 DEF MergeRecipe
  <2> HIDE DEF merged, path, fresh
  <2> QED BY <2>2, <2>3
<1> HIDE DEF fresh, c, merged, path
<1>9. \A i \in fresh : path(i) \in {<<k>> : k \in (n + 1)..(n + c)} /\ merged[path(i)] = Graft(T, recipe, i)
  BY <1>4, <1>8
<1>10. \A k \in (n + 1)..(n + c) : merged[<<k>>] \in {Graft(T, recipe, i) : i \in fresh}
  BY <1>5, <1>8
<1> QED BY <1>f, <1>6, <1>7, <1>9, <1>10 DEF fresh, c, merged, path, AppendsBehind

\* Merging the same recipe again finds nothing new.
LEMMA MergeLeavesNothingFresh ==
  ASSUME NEW T, NEW n, HasChildren(T, n), NEW recipe, NEW m \in Nat, DOMAIN recipe.parts = 1..m
  PROVE  FreshParts(MergeRecipe(T, recipe), recipe) = {}
<1> DEFINE merged == MergeRecipe(T, recipe)
           fresh == FreshParts(T, recipe)
           next == (n + 1)..(n + Cardinality(fresh))
<1>m. /\ DOMAIN merged = DOMAIN T \cup {<<k>> : k \in next}
      /\ \A p \in DOMAIN T : merged[p] = T[p]
      /\ \A i \in fresh : /\ GraftPath(T, recipe, i) \in {<<k>> : k \in next}
                        /\ merged[GraftPath(T, recipe, i)] = Graft(T, recipe, i)
  <2>1. AppendsBehind(T, n, recipe)
    <3> HIDE DEF merged, fresh, next
    <3> QED BY MergeAppends
  <2> QED BY <2>1 DEF AppendsBehind
<1>1. ASSUME NEW i \in DOMAIN recipe.parts
      PROVE  \E p \in ChildPaths(merged, Root) : merged[p].item = recipe.parts[i].item
  <2>1. CASE i \in fresh
    <3>1. PICK k \in next : GraftPath(T, recipe, i) = <<k>> /\ merged[<<k>>] = Graft(T, recipe, i)
      <4> HIDE DEF next, merged, fresh
      <4> QED BY <1>m, <2>1
    <3>2. <<k>> \in ChildPaths(merged, Root)
      <4> HIDE DEF next, merged, fresh
      <4> QED BY <1>m DEF ChildPaths, Root, IsPrefixOf
    <3> HIDE DEF merged
    <3> QED BY <3>1, <3>2 DEF Graft
  <2>2. CASE i \notin fresh
    <3>1. PICK p \in ChildPaths(T, Root) : T[p].item = recipe.parts[i].item
      BY <2>2 DEF FreshParts
    <3>2. p \in DOMAIN T /\ p \in ChildPaths(merged, Root)
      <4> HIDE DEF next, merged, fresh
      <4> QED BY <1>m DEF ChildPaths
    <3> HIDE DEF merged
    <3> QED BY <1>m, <3>1, <3>2
  <2> QED BY <2>1, <2>2
<1> QED BY <1>1 DEF FreshParts

\* New children of the root, behind those it has, make a tree and leave every id as it is.
LEMMA WidenedIsTree ==
  ASSUME NEW T, IsTree(T), NEW c \in Nat, NEW U,
         DOMAIN U = DOMAIN T \cup {<<k>> : k \in (Degree(T, Root) + 1)..(Degree(T, Root) + c)}
  PROVE  IsTree(U) /\ \A p \in DOMAIN T : NodeId(U, p) = NodeId(T, p)
<1> DEFINE n == Degree(T, Root)
           K == (n + 1)..(n + c)
           New == {<<k>> : k \in K}
<1>n. n \in Nat
  BY DegreeIsNat DEF IsTree
<1>d. DOMAIN U = DOMAIN T \cup New
  OBVIOUS
<1>1. \A q \in New : /\ q \in Seq(Nat) /\ Len(q) = 1 /\ q[1] \in Nat /\ q[1] > n /\ DOMAIN q = {1}
                     /\ q[1] <= n + c
  <2>1. ASSUME NEW k \in K
        PROVE  /\ <<k>> \in Seq(Nat) /\ Len(<<k>>) = 1 /\ <<k>>[1] \in Nat /\ <<k>>[1] > n
               /\ DOMAIN <<k>> = {1} /\ <<k>>[1] <= n + c
    BY <1>n
  <2> QED BY <2>1
<1>2. \A p \in DOMAIN T : /\ p \in Seq(Nat) /\ Len(p) \in Nat /\ DOMAIN p = 1..Len(p)
                          /\ p # Root => Len(p) # 0 /\ p[1] \in 1..n
  <2>1. ASSUME NEW p \in DOMAIN T
        PROVE  p \in Seq(Nat) /\ Len(p) \in Nat /\ DOMAIN p = 1..Len(p)
    BY LenProperties DEF IsTree
  <2>2. ASSUME NEW p \in DOMAIN T, p # Root PROVE Len(p) # 0 /\ p[1] \in 1..n
    BY <2>2, FirstStep
  <2> QED BY <2>1, <2>2
<1>r. Root \in DOMAIN T /\ Len(Root) = 0 /\ DOMAIN Root = {}
  BY DEF IsTree, Root
<1> HIDE DEF New, n
<1>3. ASSUME NEW q \in New, NEW p \in DOMAIN T PROVE ~ Before(q, p) /\ ~ IsPrefixOf(q, p) /\ q # p
  <2>1. CASE p = Root
    BY <1>1, <1>r, <2>1 DEF Before, IsPrefixOf
  <2>2. CASE p # Root
    <3>1. q[1] # p[1] /\ ~(q[1] < p[1]) /\ DOMAIN q = {1}
      BY <1>n, <1>1, <1>2, <2>2
    <3>2. ~ IsPrefixOf(q, p) /\ q # p
      BY <3>1 DEF IsPrefixOf
    <3> QED BY <3>1, <3>2 DEF Before
  <2> QED BY <2>1, <2>2
<1>4. ASSUME NEW p \in DOMAIN T PROVE NodeId(U, p) = NodeId(T, p)
  <2>1. {q \in DOMAIN U : Before(q, p)} = {q \in DOMAIN T : Before(q, p)}
    BY <1>d, <1>3
  <2> QED BY <2>1 DEF NodeId
<1>f. New = {<<k>> : k \in K} /\ IsFiniteSet(New)
  <2> DEFINE all == {<<i>> : i \in 1..(n + c)}
  <2>1. IsFiniteSet(all)
    BY <1>n, SinglesCount
  <2>2. New \subseteq all
    <3>1. \A k \in K : k \in 1..(n + c)
      BY <1>n
    <3> QED BY <3>1 DEF New
  <2> HIDE DEF all
  <2>3. IsFiniteSet(New)
    BY <2>1, <2>2, FS_Subset
  <2> QED BY <2>3 DEF New
<1>5. DOMAIN U \subseteq Seq(Nat) /\ IsFiniteSet(DOMAIN U) /\ Root \in DOMAIN U
  <2>1. IsFiniteSet(DOMAIN T)
    BY DEF IsTree
  <2>2. IsFiniteSet(DOMAIN U)
    <3>1. IsFiniteSet(DOMAIN T \cup New)
      BY <1>f, <2>1, FS_Union, Zenon
    <3>2. DOMAIN U = DOMAIN T \cup New
      BY <1>d
    <3> QED BY <3>1, <3>2, Zenon
  <2>3. DOMAIN U \subseteq Seq(Nat)
    BY <1>1, <1>2, <1>d
  <2> QED BY <1>d, <1>r, <2>2, <2>3
<1>6. ASSUME NEW q \in DOMAIN U, q # Root PROVE SubSeq(q, 1, Len(q) - 1) \in DOMAIN U
  <2>1. CASE q \in DOMAIN T
    BY <1>6, <1>d, <2>1 DEF IsTree
  <2>2. CASE q \in New
    <3>0. Len(q) = 1
      BY <1>1, <2>2
    <3>1. SubSeq(q, 1, 0) = Root
      BY SubSeqEmpty DEF Root
    <3>2. SubSeq(q, 1, Len(q) - 1) = Root
      BY <3>0, <3>1
    <3> QED BY <1>r, <1>d, <3>2
  <2> QED BY <2>1, <2>2, <1>d
<1>7. ASSUME NEW q \in DOMAIN U, NEW r \in ChildPaths(U, q) PROVE r[Len(r)] \in 1..Degree(U, q)
  <2>r. r \in DOMAIN U /\ Len(r) = Len(q) + 1 /\ IsPrefixOf(q, r)
    BY <1>7 DEF ChildPaths
  <2>1. CASE q = Root
    <3>1. ChildPaths(U, Root) = ChildPaths(T, Root) \cup New
      <4>1. \A s \in New : Len(s) = Len(Root) + 1 /\ IsPrefixOf(Root, s)
        BY <1>1, <1>r DEF IsPrefixOf
      <4> QED BY <1>d, <4>1 DEF ChildPaths
    <3>2. ChildPaths(T, Root) = {<<i>> : i \in 1..n}
      BY RootChildren DEF n
    <3>3. ChildPaths(U, Root) = {<<i>> : i \in 1..(n + c)}
      <4>1. 1..(n + c) = (1..n) \cup K
        BY <1>n
      <4> QED BY <3>1, <3>2, <4>1, <1>f
    <3>4. Degree(U, Root) = n + c
      <4>1. n + c \in Nat
        BY <1>n
      <4>2. Cardinality({<<i>> : i \in 1..(n + c)}) = n + c
        BY <4>1, SinglesCount
      <4> QED BY <3>3, <4>2 DEF Degree
    <3>5. PICK i \in 1..(n + c) : r = <<i>>
      BY <1>7, <2>1, <3>3
    <3>6. Len(r) = 1 /\ r[1] = i
      BY <3>5
    <3> QED BY <2>1, <3>4, <3>6
  <2>2. CASE q # Root /\ q \in DOMAIN T
    <3>1. ChildPaths(U, q) = ChildPaths(T, q)
      <4>1. \A s \in New : Len(s) # Len(q) + 1
        BY <1>1, <1>2, <2>2
      <4> QED BY <1>d, <4>1 DEF ChildPaths
    <3>2. r[Len(r)] \in 1..Degree(T, q)
      BY <1>7, <2>2, <3>1 DEF IsTree
    <3> QED BY <3>1, <3>2 DEF Degree
  <2>3. CASE q \in New
    <3>0. Len(q) = 1
      BY <1>1, <2>3
    <3>1. Len(r) # 1
      BY <2>r, <3>0
    <3>2. r \in DOMAIN T
      BY <1>1, <1>d, <2>r, <3>1
    <3> QED BY <1>3, <2>r, <2>3, <3>2
  <2> QED BY <2>1, <2>2, <2>3, <1>d
<1> QED BY <1>4, <1>5, <1>6, <1>7 DEF IsTree

-----------------------------------------------------------------------------
(* Trees one level deep *)

\* A root with n children.
IsFlat(T, n) == n \in Nat /\ DOMAIN T = {Root} \cup {<<i>> : i \in 1..n}

\* Document order in a flat tree: the root, then its children from left to right.
LEMMA FlatOrder ==
  /\ ~ Before(Root, Root)
  /\ \A i \in Nat : Before(Root, <<i>>) /\ ~ Before(<<i>>, Root)
  /\ \A i, j \in Nat : Before(<<i>>, <<j>>) <=> i < j
<1>1. ~ Before(Root, Root)
  BY DEF Before, Root
<1>2. ASSUME NEW i \in Nat PROVE Before(Root, <<i>>) /\ ~ Before(<<i>>, Root)
  BY DEF Before, Root, IsPrefixOf
<1>3. ASSUME NEW i \in Nat, NEW j \in Nat PROVE Before(<<i>>, <<j>>) <=> i < j
  <2>1. DOMAIN <<i>> = {1} /\ DOMAIN <<j>> = {1} /\ <<i>>[1] = i /\ <<j>>[1] = j
        /\ Len(<<i>>) = 1 /\ Len(<<j>>) = 1
    OBVIOUS
  <2>2. IsPrefixOf(<<i>>, <<j>>) <=> i = j
    BY <2>1 DEF IsPrefixOf
  <2>3. ~ (<<i>> # <<j>> /\ IsPrefixOf(<<i>>, <<j>>))
    BY <2>2
  <2> DEFINE here == <<i>>
             there == <<j>>
  <2>4. (\E k \in DOMAIN here \cap DOMAIN there :
           here[k] < there[k] /\ \A l \in 1..(k - 1) : here[l] = there[l]) <=> i < j
    <3> HIDE DEF here, there
    <3>1. DOMAIN here \cap DOMAIN there = {1} /\ here[1] = i /\ there[1] = j
      BY <2>1 DEF here, there
    <3> QED BY <3>1
  <2> QED BY <2>3, <2>4 DEF Before
<1> QED BY <1>1, <1>2, <1>3

\* The ids n0, n1, ... of a flat tree are the positions of its nodes.
LEMMA FlatIds ==
  ASSUME NEW T, NEW n, IsFlat(T, n)
  PROVE  /\ NodeId(T, Root) = 0
         /\ \A i \in 1..n : NodeId(T, <<i>>) = i
<1>1. NodeId(T, Root) = 0
  <2>1. {q \in DOMAIN T : Before(q, Root)} = {}
    BY FlatOrder DEF IsFlat
  <2> QED BY <2>1, FS_EmptySet DEF NodeId
<1>2. ASSUME NEW i \in 1..n PROVE NodeId(T, <<i>>) = i
  <2> DEFINE S == {q \in DOMAIN T : Before(q, <<i>>)}
             f == [k \in 1..i |-> IF k = 1 THEN Root ELSE <<k - 1>>]
  <2>n. n \in Nat /\ i \in Nat
    BY DEF IsFlat
  <2>1. S = {Root} \cup {<<j>> : j \in 1..(i - 1)}
    <3>1. ASSUME NEW j \in 1..n PROVE Before(<<j>>, <<i>>) <=> j \in 1..(i - 1)
      BY <2>n, FlatOrder
    <3>2. Before(Root, <<i>>)
      BY <2>n, FlatOrder
    <3> QED BY <2>n, <3>1, <3>2 DEF IsFlat
  <2>2. f \in Bijection(1..i, S)
    <3>1. \A k \in 1..i : f[k] \in S
      BY <2>n, <2>1
    <3>2. \A k, l \in 1..i : f[k] = f[l] => k = l
      <4>1. \A a, b \in Nat : <<a>> = <<b>> => a = b
        OBVIOUS
      <4>2. \A a \in Nat : <<a>> # Root
        BY DEF Root
      <4> QED BY <2>n, <4>1, <4>2
    <3>3. \A s \in S : \E k \in 1..i : f[k] = s
      <4>1. CASE i = 0
        BY <4>1
      <4>2. ASSUME NEW s \in S PROVE \E k \in 1..i : f[k] = s
        <5>1. CASE s = Root
          BY <2>n, <5>1
        <5>2. ASSUME NEW j \in 1..(i - 1), s = <<j>> PROVE \E k \in 1..i : f[k] = s
          <6>1. j + 1 \in 1..i /\ f[j + 1] = s
            BY <2>n, <5>2
          <6> QED BY <6>1
        <5> QED BY <2>1, <5>1, <5>2
      <4> QED BY <4>2
    <3> HIDE DEF S, f
    <3>4. f \in [1..i -> S]
      BY <3>1 DEF f
    <3> QED BY <3>2, <3>3, <3>4 DEF Bijection, Injection, Surjection, IsInjective
  <2>3. Cardinality(S) = i
    <3> HIDE DEF S, f
    <3> QED BY <2>n, <2>2, FS_CountingElements DEF ExistsBijection
  <2> QED BY <2>3 DEF NodeId
<1> QED BY <1>1, <1>2

\* Which ids a flat tree has, and which node each of them names.
LEMMA FlatNumbering ==
  ASSUME NEW T, NEW n, IsFlat(T, n)
  PROVE  /\ NodeIds(T) = 0..n
         /\ \A k \in 0..n : NodeAt(T, k) = IF k = 0 THEN Root ELSE <<k>>
<1>n. n \in Nat
  BY DEF IsFlat
<1>1. ASSUME NEW p \in DOMAIN T PROVE NodeId(T, p) \in 0..n
  BY <1>n, FlatIds DEF IsFlat
<1>2. ASSUME NEW k \in 0..n PROVE \E p \in DOMAIN T : NodeId(T, p) = k
  <2>1. CASE k = 0
    BY <2>1, FlatIds DEF IsFlat
  <2>2. CASE k # 0
    <3>1. k \in 1..n /\ <<k>> \in DOMAIN T
      BY <1>n, <2>2 DEF IsFlat
    <3> QED BY <3>1, FlatIds
  <2> QED BY <2>1, <2>2
<1>3. NodeIds(T) = 0..n
  BY <1>1, <1>2 DEF NodeIds
<1>4. ASSUME NEW k \in 0..n PROVE NodeAt(T, k) = IF k = 0 THEN Root ELSE <<k>>
  <2> DEFINE named == IF k = 0 THEN Root ELSE <<k>>
  <2>1. named \in DOMAIN T /\ NodeId(T, named) = k
    <3>1. CASE k = 0
      BY <3>1, FlatIds DEF IsFlat
    <3>2. CASE k # 0
      <4>1. k \in 1..n
        BY <1>n, <3>2
      <4> QED BY <3>2, <4>1, FlatIds DEF IsFlat
    <3> QED BY <3>1, <3>2
  <2>2. ASSUME NEW p \in DOMAIN T, NodeId(T, p) = k PROVE p = named
    <3>1. p = Root \/ \E i \in 1..n : p = <<i>>
      BY DEF IsFlat
    <3>2. CASE p = Root
      <4>1. k = 0
        BY <2>2, <3>2, FlatIds
      <4> QED BY <3>2, <4>1
    <3>3. ASSUME NEW i \in 1..n, p = <<i>> PROVE p = named
      <4>1. NodeId(T, <<i>>) = i
        BY FlatIds
      <4>2. k = i /\ k # 0
        BY <2>2, <3>3, <4>1
      <4> QED BY <3>3, <4>2
    <3> QED BY <3>1, <3>2, <3>3
  <2> HIDE DEF named
  <2>3. NodeAt(T, k) = named
    BY <2>1, <2>2 DEF NodeAt
  <2> QED BY <2>3 DEF named
<1> QED BY <1>3, <1>4

\* A flat tree has one node more than children.
LEMMA FlatSize ==
  ASSUME NEW T, NEW n, IsFlat(T, n)
  PROVE  IsFiniteSet(DOMAIN T) /\ Cardinality(DOMAIN T) = n + 1
<1> DEFINE f == [k \in 1..(n + 1) |-> IF k = 1 THEN Root ELSE <<k - 1>>]
           S == DOMAIN T
<1>n. n \in Nat
  BY DEF IsFlat
<1>1. \A k \in 1..(n + 1) : f[k] \in S
  BY <1>n DEF IsFlat
<1>2. \A k, l \in 1..(n + 1) : f[k] = f[l] => k = l
  <2>1. \A a, b \in Nat : <<a>> = <<b>> => a = b
    OBVIOUS
  <2>2. \A a \in Nat : <<a>> # Root
    BY DEF Root
  <2> QED BY <1>n, <2>1, <2>2
<1>3. ASSUME NEW s \in S PROVE \E k \in 1..(n + 1) : f[k] = s
  <2>1. CASE s = Root
    BY <1>n, <2>1
  <2>2. ASSUME NEW j \in 1..n, s = <<j>> PROVE \E k \in 1..(n + 1) : f[k] = s
    <3>1. j + 1 \in 1..(n + 1) /\ f[j + 1] = s
      BY <1>n, <2>2
    <3> QED BY <3>1
  <2> QED BY <1>3, <2>1, <2>2 DEF IsFlat
<1>4. f \in Bijection(1..(n + 1), S)
  <2> HIDE DEF S
  <2>1. f \in [1..(n + 1) -> S]
    BY <1>1
  <2> HIDE DEF f
  <2> QED BY <1>2, <1>3, <2>1 DEF Bijection, Injection, Surjection, IsInjective
<1> HIDE DEF f
<1>5. ExistsBijection(1..(n + 1), S) /\ n + 1 \in Nat
  BY <1>n, <1>4 DEF ExistsBijection
<1> HIDE DEF S
<1>6. Cardinality(S) = n + 1
  BY <1>5, FS_CountingElements
<1>7. IsFiniteSet(S)
  BY <1>5, FS_NatBijection
<1> QED BY <1>6, <1>7 DEF S

\* The children of the root of a flat tree.
LEMMA FlatChildren ==
  ASSUME NEW T, NEW n, IsFlat(T, n)
  PROVE  ChildPaths(T, Root) = {<<i>> : i \in 1..n} /\ Degree(T, Root) = n
<1>n. n \in Nat
  BY DEF IsFlat
<1>1. ChildPaths(T, Root) = {<<i>> : i \in 1..n}
  <2>1. Root \notin ChildPaths(T, Root)
    BY DEF ChildPaths, Root
  <2>2. ASSUME NEW i \in 1..n PROVE <<i>> \in ChildPaths(T, Root)
    BY DEF ChildPaths, Root, IsPrefixOf, IsFlat
  <2> QED BY <2>1, <2>2 DEF ChildPaths, IsFlat
<1>2. DOMAIN T \ {Root} = {<<i>> : i \in 1..n} /\ Root \in DOMAIN T
  <2>1. \A i \in 1..n : <<i>> # Root
    BY DEF Root
  <2> QED BY <2>1 DEF IsFlat
<1>3. Cardinality(DOMAIN T \ {Root}) = n
  BY <1>n, <1>2, FlatSize, FS_RemoveElement
<1> QED BY <1>1, <1>2, <1>3 DEF Degree

\* The root of a flat tree has the children the tree was made with.
LEMMA FlatHasChildren ==
  ASSUME NEW T, NEW n, IsFlat(T, n)
  PROVE  HasChildren(T, n)
<1>1. n \in Nat /\ Degree(T, Root) = n
  BY FlatChildren DEF IsFlat
<1>2. ASSUME NEW k \in Nat, <<k>> \in DOMAIN T PROVE k <= n
  <2>1. <<k>> # Root /\ \A i \in 1..n : <<k>> = <<i>> => k = i
    BY DEF Root
  <2> QED BY <1>1, <1>2, <2>1 DEF IsFlat
<1> QED BY <1>1, <1>2 DEF HasChildren

\* Merging into a flat tree gives a flat tree.
LEMMA MergeOfFlat ==
  ASSUME NEW T, NEW n, IsFlat(T, n), NEW recipe, NEW m \in Nat, DOMAIN recipe.parts = 1..m
  PROVE  /\ IsFiniteSet(FreshParts(T, recipe))
         /\ IsFlat(MergeRecipe(T, recipe), n + Cardinality(FreshParts(T, recipe)))
         /\ \A p \in DOMAIN T : MergeRecipe(T, recipe)[p] = T[p]
         /\ \A i \in FreshParts(T, recipe) :
              /\ GraftPath(T, recipe, i) \in ChildPaths(MergeRecipe(T, recipe), Root)
              /\ MergeRecipe(T, recipe)[GraftPath(T, recipe, i)] = Graft(T, recipe, i)
<1> DEFINE fresh == FreshParts(T, recipe)
           c == Cardinality(fresh)
           merged == MergeRecipe(T, recipe)
<1>1. /\ IsFiniteSet(fresh) /\ c \in Nat
      /\ DOMAIN merged = DOMAIN T \cup {<<k>> : k \in (n + 1)..(n + c)}
      /\ \A p \in DOMAIN T : merged[p] = T[p]
      /\ \A i \in fresh : /\ GraftPath(T, recipe, i) \in {<<k>> : k \in (n + 1)..(n + c)}
                         /\ merged[GraftPath(T, recipe, i)] = Graft(T, recipe, i)
  <2>1. AppendsBehind(T, n, recipe)
    <3> HIDE DEF merged, fresh, c
    <3> QED BY FlatHasChildren, MergeAppends
  <2> QED BY <2>1 DEF AppendsBehind
<1>n. n \in Nat /\ DOMAIN T = {Root} \cup {<<i>> : i \in 1..n}
  BY DEF IsFlat
<1> HIDE DEF fresh, c, merged
<1>2. (1..n) \cup ((n + 1)..(n + c)) = 1..(n + c)
  BY <1>1, <1>n
<1>3. IsFlat(merged, n + c)
  BY <1>1, <1>n, <1>2 DEF IsFlat
<1>4. {<<k>> : k \in (n + 1)..(n + c)} \subseteq ChildPaths(merged, Root)
  <2>1. ChildPaths(merged, Root) = {<<k>> : k \in 1..(n + c)}
    BY <1>3, FlatChildren
  <2> QED BY <1>2, <2>1
<1>5. \A i \in fresh : /\ GraftPath(T, recipe, i) \in ChildPaths(merged, Root)
                      /\ merged[GraftPath(T, recipe, i)] = Graft(T, recipe, i)
  BY <1>1, <1>4
<1> QED BY <1>1, <1>3, <1>5 DEF fresh, c, merged

-----------------------------------------------------------------------------
(* Accounting at the root *)

\* At the root the chain is the root alone.
LEMMA ChainSumAtRoot ==
  ASSUME NEW T, NEW amounts
  PROVE  ChainSum(T, amounts, Root) = <<AmountOf(amounts, NodeId(T, Root)), T[Root].qty>>
<1> DEFINE s == Shares(T, amounts, Root)
<1>1. Len(Root) = 0 /\ SubSeq(Root, 1, 0) = Root
  BY DEF Root
<1>2. PICK f : Sums(s, 0, f) /\ ChainSum(T, amounts, Root) = f[0]
  BY <1>1, ChainUnfolds
<1>3. f[0] = s[0]
  <2> HIDE DEF s
  <2> QED BY <1>2 DEF Sums
<1>4. s[0] = <<AmountOf(amounts, NodeId(T, Root)), T[Root].qty>>
  <2>1. 0 \in 0..Len(Root)
    BY <1>1
  <2> QED BY <1>1, <2>1, Zenon DEF Shares
<1> QED BY <1>2, <1>3, <1>4

\* Flattening the quantities changes no path, hence no id.
LEMMA WebTreeIsFlat ==
  ASSUME NEW T, NEW n, IsFlat(T, n), "qty" \in DOMAIN T[Root]
  PROVE  /\ IsFlat(WebTree(T), n)
         /\ WebTree(T)[Root].qty = AtLeastOne(T[Root].qty)
         /\ NodeId(WebTree(T), Root) = 0
<1>1. DOMAIN WebTree(T) = DOMAIN T
  BY DEF WebTree
<1>2. IsFlat(WebTree(T), n)
  BY <1>1 DEF IsFlat
<1>3. NodeId(WebTree(T), Root) = 0
  BY <1>2, FlatIds
<1> QED BY <1>2, <1>3 DEF WebTree, IsFlat

-----------------------------------------------------------------------------
(* Walks over a tree: its subtrees, induction and recursion along them, and *)
(* document order.                                                         *)

\* The children of a node are what is appended to its path, numbered without gaps.
LEMMA ChildrenAreAppended ==
  ASSUME NEW T, IsTree(T), NEW p \in DOMAIN T
  PROVE  /\ Degree(T, p) \in Nat
         /\ ChildPaths(T, p) = {Append(p, i) : i \in 1..Degree(T, p)}
<1> DEFINE n == Degree(T, p)
           C == ChildPaths(T, p)
           f == [c \in C |-> c[Len(c)]]
<1>1. n \in Nat /\ IsFiniteSet(C) /\ n = Cardinality(C)
  BY DegreeIsNat DEF IsTree, Degree
<1>2. p \in Seq(Nat)
  BY DEF IsTree
<1>3. ASSUME NEW c \in C PROVE f[c] \in 1..n /\ c = Append(p, f[c])
  <2>1. c \in Seq(Nat) /\ Len(c) = Len(p) + 1 /\ IsPrefixOf(p, c) /\ f[c] = c[Len(c)]
    BY DEF ChildPaths, IsTree
  <2>2. f[c] \in 1..n
    BY <2>1 DEF IsTree
  <2> HIDE DEF f, n, C
  <2>3. f[c] \in Nat
    BY <1>1, <2>2
  <2> DEFINE d == Append(p, f[c])
  <2>4. /\ d \in Seq(Nat) /\ Len(d) = Len(p) + 1 /\ d[Len(p) + 1] = f[c]
        /\ \A i \in 1..Len(p) : d[i] = p[i]
    BY <1>2, <2>3, AppendProperties
  <2> HIDE DEF d
  <2>5. Len(p) \in Nat /\ DOMAIN p = 1..Len(p)
    BY <1>2, LenProperties
  <2>6. ASSUME NEW i \in 1..Len(c) PROVE c[i] = d[i]
    <3>1. CASE i = Len(p) + 1
      BY <2>1, <2>4, <3>1
    <3>2. CASE i # Len(p) + 1
      <4>1. i \in 1..Len(p)
        BY <2>1, <2>5, <3>2
      <4>2. p[i] = c[i]
        BY <2>1, <2>5, <4>1 DEF IsPrefixOf
      <4> QED BY <2>4, <4>1, <4>2
    <3> QED BY <3>1, <3>2
  <2>7. c = d
    BY <2>1, <2>4, <2>6, SeqEqual
  <2> QED BY <2>2, <2>7 DEF d
<1>4. f \in Injection(C, 1..n)
  <2>1. f \in [C -> 1..n]
    BY <1>3
  <2>2. \A c, d \in C : f[c] = f[d] => c = d
    BY <1>3
  <2> HIDE DEF f, C, n
  <2> QED BY <2>1, <2>2 DEF Injection, IsInjective
<1>5. f \in Surjection(C, 1..n)
  <2>1. IsFiniteSet(1..n) /\ Cardinality(1..n) = n
    BY <1>1, FS_Interval
  <2> HIDE DEF f, C, n
  <2> QED BY <1>1, <1>4, <2>1, FS_Injection
<1>6. \A i \in 1..n : \E c \in C : f[c] = i
  <2> HIDE DEF f, C, n
  <2> QED BY <1>5 DEF Surjection
<1> HIDE DEF f, C, n
<1>7. C = {Append(p, i) : i \in 1..n}
  BY <1>3, <1>6
<1> QED BY <1>1, <1>7 DEF C, n

\* A child is a node one level down.
LEMMA ChildIsNode ==
  ASSUME NEW T, IsTree(T), NEW q \in DOMAIN T, NEW i \in 1..Degree(T, q)
  PROVE  /\ Append(q, i) \in DOMAIN T
         /\ Len(Append(q, i)) = Len(q) + 1
         /\ i \in Nat
<1>1. i \in Nat /\ Append(q, i) \in ChildPaths(T, q)
  <2>1. Degree(T, q) \in Nat /\ ChildPaths(T, q) = {Append(q, k) : k \in 1..Degree(T, q)}
    BY ChildrenAreAppended
  <2> QED BY <2>1
<1> DEFINE c == Append(q, i)
<1> HIDE DEF c
<1>2. c \in ChildPaths(T, q)
  BY <1>1 DEF c
<1>3. c \in DOMAIN T /\ Len(c) = Len(q) + 1
  BY <1>2 DEF ChildPaths
<1> QED BY <1>1, <1>3 DEF c

\* Finitely many paths have a longest one.
LEMMA PathsAreBounded ==
  ASSUME NEW T, IsTree(T)
  PROVE  \E m \in Nat : \A p \in DOMAIN T : Len(p) \in 0..m
<1>1. PICK n \in Nat : ExistsSurjection(1..n, DOMAIN T)
  BY FS_NatSurjection DEF IsTree
<1>2. PICK f \in Surjection(1..n, DOMAIN T) : TRUE
  BY <1>1 DEF ExistsSurjection
<1>3. \A i \in 1..n : Len(f[i]) \in Nat
  BY <1>2, LenProperties DEF Surjection, IsTree
<1> DEFINE F == {k \in 0..n : \E m \in Nat : \A i \in 1..k : Len(f[i]) <= m}
<1>4. 0 \in F
  OBVIOUS
<1>5. ASSUME NEW k \in 0..(n - 1), k \in F PROVE k + 1 \in F
  <2>1. PICK m \in Nat : \A i \in 1..k : Len(f[i]) <= m
    BY <1>5
  <2>2. k + 1 \in 1..n /\ Len(f[k + 1]) \in Nat
    BY <1>3
  <2> DEFINE M == IF Len(f[k + 1]) > m THEN Len(f[k + 1]) ELSE m
  <2>3. M \in Nat /\ \A i \in 1..(k + 1) : Len(f[i]) <= M
    BY <1>3, <2>1, <2>2
  <2> HIDE DEF M
  <2>4. \E M0 \in Nat : \A i \in 1..(k + 1) : Len(f[i]) <= M0
    BY <2>3
  <2>5. k + 1 \in 0..n
    OBVIOUS
  <2> QED BY <2>4, <2>5
<1> HIDE DEF F
<1>6. n \in F
  <2>1. \A k \in 0..n : k \in F
    BY <1>4, <1>5, InductionUpTo
  <2> QED BY <2>1
<1>7. PICK m \in Nat : \A i \in 1..n : Len(f[i]) <= m
  BY <1>6 DEF F
<1>8. \A p \in DOMAIN T : Len(p) \in 0..m
  <2>1. \A p \in DOMAIN T : \E i \in 1..n : f[i] = p
    BY <1>2 DEF Surjection
  <2> QED BY <1>3, <1>7, <2>1
<1> QED BY <1>8

\* A claim that a node inherits from its children holds of every node.
LEMMA TreeInduction ==
  ASSUME NEW T, IsTree(T), NEW S,
         \A q \in DOMAIN T : (\A i \in 1..Degree(T, q) : Append(q, i) \in S) => q \in S
  PROVE  \A q \in DOMAIN T : q \in S
<1>1. PICK m \in Nat : \A p \in DOMAIN T : Len(p) \in 0..m
  BY PathsAreBounded
<1> DEFINE F == {k \in 0..(m + 1) : \A q \in DOMAIN T : Len(q) + k > m => q \in S}
<1>2. 0 \in F
  BY <1>1
<1>3. ASSUME NEW k \in 0..((m + 1) - 1), k \in F PROVE k + 1 \in F
  <2>1. ASSUME NEW q \in DOMAIN T, Len(q) + (k + 1) > m PROVE q \in S
    <3>1. ASSUME NEW i \in 1..Degree(T, q) PROVE Append(q, i) \in S
      <4>1. Append(q, i) \in DOMAIN T /\ Len(Append(q, i)) = Len(q) + 1
        BY ChildIsNode
      <4>2. Len(q) \in Nat
        BY <1>1
      <4>3. Len(Append(q, i)) + k > m
        BY <2>1, <4>1, <4>2
      <4> QED BY <1>3, <4>1, <4>3
    <3> QED BY <3>1
  <2> QED BY <2>1
<1>4. m + 1 \in F
  <2> HIDE DEF F
  <2>1. \A k \in 0..(m + 1) : k \in F
    BY <1>2, <1>3, InductionUpTo
  <2> QED BY <2>1
<1> QED BY <1>1, <1>4

\* The values that f gives to the children of q, in their order.
OfChildren(T, f, q) == [i \in 1..Degree(T, q) |-> f[Append(q, i)]]

\* step turns a node and values of its children into a value of the node.
IsStep(T, V, step) ==
  \A q \in DOMAIN T : \A kids \in [1..Degree(T, q) -> V] : step[<<q, kids>>] \in V

Follows(T, step, f) == \A q \in DOMAIN T : f[q] = step[<<q, OfChildren(T, f, q)>>]

\* A function can be defined on a tree by what it does with the values of the children.
LEMMA TreeRecursion ==
  ASSUME NEW T, IsTree(T), NEW V, V # {}, NEW step, IsStep(T, V, step)
  PROVE  \E f \in [DOMAIN T -> V] : Follows(T, step, f)
<1>1. PICK m \in Nat : \A p \in DOMAIN T : Len(p) \in 0..m
  BY PathsAreBounded
<1>2. ASSUME NEW f \in [DOMAIN T -> V], NEW q \in DOMAIN T
      PROVE  OfChildren(T, f, q) \in [1..Degree(T, q) -> V]
  <2>1. \A i \in 1..Degree(T, q) : Append(q, i) \in DOMAIN T
    BY ChildIsNode
  <2> QED BY <2>1 DEF OfChildren
<1> DEFINE Fits(f, q) == f[q] = step[<<q, OfChildren(T, f, q)>>]
           F == {k \in 0..(m + 1) :
                   \E f \in [DOMAIN T -> V] : \A q \in DOMAIN T : Len(q) + k > m => Fits(f, q)}
<1>3. 0 \in F
  <2>1. PICK v \in V : TRUE
    OBVIOUS
  <2>2. [q \in DOMAIN T |-> v] \in [DOMAIN T -> V]
    OBVIOUS
  <2>3. \A q \in DOMAIN T : ~ (Len(q) + 0 > m)
    BY <1>1
  <2> HIDE DEF Fits
  <2>4. \E f \in [DOMAIN T -> V] : \A q \in DOMAIN T : Len(q) + 0 > m => Fits(f, q)
    BY <2>2, <2>3
  <2> QED BY <2>4
<1>4. ASSUME NEW k \in 0..((m + 1) - 1), k \in F PROVE k + 1 \in F
  <2>1. PICK f \in [DOMAIN T -> V] : \A q \in DOMAIN T : Len(q) + k > m => Fits(f, q)
    BY <1>4
  <2> DEFINE g == [q \in DOMAIN T |-> IF Len(q) + k = m THEN step[<<q, OfChildren(T, f, q)>>] ELSE f[q]]
  <2>2. g \in [DOMAIN T -> V]
    BY <1>2 DEF IsStep
  <2>3. ASSUME NEW q \in DOMAIN T, Len(q) + (k + 1) > m PROVE Fits(g, q)
    <3>1. Len(q) \in Nat
      BY <1>1
    <3>2. ASSUME NEW i \in 1..Degree(T, q) PROVE g[Append(q, i)] = f[Append(q, i)]
      <4>1. Append(q, i) \in DOMAIN T /\ Len(Append(q, i)) = Len(q) + 1
        BY ChildIsNode
      <4>2. Len(Append(q, i)) + k # m
        BY <2>3, <3>1, <4>1
      <4> QED BY <4>1, <4>2
    <3>3. OfChildren(T, g, q) = OfChildren(T, f, q)
      <4> HIDE DEF g
      <4> QED BY <3>2 DEF OfChildren
    <3>4. g[q] = step[<<q, OfChildren(T, f, q)>>]
      <4>1. CASE Len(q) + k = m
        BY <4>1
      <4>2. CASE Len(q) + k # m
        <5>1. Len(q) + k > m
          BY <2>3, <3>1, <4>2
        <5> QED BY <2>1, <4>2, <5>1
      <4> QED BY <4>1, <4>2
    <3> HIDE DEF g
    <3> QED BY <3>3, <3>4
  <2> HIDE DEF g, Fits
  <2>4. \A q \in DOMAIN T : Len(q) + (k + 1) > m => Fits(g, q)
    BY <2>3
  <2> QED BY <2>2, <2>4
<1>5. m + 1 \in F
  <2> HIDE DEF F
  <2> DEFINE n == m + 1
  <2>0. n \in Nat
    OBVIOUS
  <2>1. \A k \in 0..(n - 1) : k \in F => k + 1 \in F
    BY <1>4
  <2> HIDE DEF n
  <2>2. \A k \in 0..n : k \in F
    BY <1>3, <2>0, <2>1, InductionUpTo
  <2> QED BY <2>0, <2>2 DEF n
<1>6. PICK f \in [DOMAIN T -> V] : \A q \in DOMAIN T : Len(q) + (m + 1) > m => Fits(f, q)
  <2> HIDE DEF Fits
  <2> QED BY <1>5
<1>7. \A q \in DOMAIN T : Len(q) + (m + 1) > m
  BY <1>1
<1> QED BY <1>6, <1>7 DEF Follows

-----------------------------------------------------------------------------
(* Document order *)

\* No two nodes are each before the other, so no node is before itself.
LEMMA OrderIsAsymmetric ==
  ASSUME NEW p \in Seq(Nat), NEW q \in Seq(Nat), Before(p, q)
  PROVE  ~ Before(q, p)
<1>1. /\ Len(p) \in Nat /\ DOMAIN p = 1..Len(p) /\ \A i \in 1..Len(p) : p[i] \in Nat
      /\ Len(q) \in Nat /\ DOMAIN q = 1..Len(q) /\ \A i \in 1..Len(q) : q[i] \in Nat
  BY LenProperties, ElementOfSeq
<1> SUFFICES ASSUME Before(q, p) PROVE FALSE
  OBVIOUS
<1>2. ASSUME p # q, IsPrefixOf(p, q), IsPrefixOf(q, p) PROVE FALSE
  <2>1. Len(p) = Len(q)
    <3>1. Len(p) <= Len(q) /\ Len(q) <= Len(p)
      BY <1>2 DEF IsPrefixOf
    <3>2. Len(p) \in Nat /\ Len(q) \in Nat
      BY <1>1
    <3> QED BY <3>1, <3>2
  <2>2. \A i \in 1..Len(p) : p[i] = q[i]
    BY <1>1, <1>2 DEF IsPrefixOf
  <2> QED BY <1>2, <2>1, <2>2, SeqEqual
<1>3. ASSUME NEW i \in DOMAIN p \cap DOMAIN q, p[i] # q[i], IsPrefixOf(p, q) \/ IsPrefixOf(q, p)
      PROVE  FALSE
  BY <1>3 DEF IsPrefixOf
<1>4. ASSUME NEW i \in DOMAIN p \cap DOMAIN q, p[i] < q[i], \A j \in 1..(i - 1) : p[j] = q[j],
             NEW k \in DOMAIN p \cap DOMAIN q, q[k] < p[k], \A j \in 1..(k - 1) : q[j] = p[j]
      PROVE  FALSE
  <2>1. i \in Nat \ {0} /\ k \in Nat \ {0} /\ p[i] \in Nat /\ q[i] \in Nat /\ p[k] \in Nat /\ q[k] \in Nat
    BY <1>1
  <2>2. CASE i < k
    BY <1>4, <2>1, <2>2
  <2>3. CASE i = k
    BY <1>4, <2>1, <2>3
  <2>4. CASE k < i
    BY <1>4, <2>1, <2>4
  <2> QED BY <2>1, <2>2, <2>3, <2>4
<1>5. ASSUME NEW i \in DOMAIN p \cap DOMAIN q, p[i] < q[i] \/ q[i] < p[i] PROVE p[i] # q[i]
  BY <1>1, <1>5
<1> QED BY <1>2, <1>3, <1>4, <1>5 DEF Before

\* The nodes at and below p.
Subtree(T, p) == {q \in DOMAIN T : IsPrefixOf(p, q)}

\* A subtree is its node and the subtrees of the node's children.
LEMMA SubtreeUnfolds ==
  ASSUME NEW T, IsTree(T), NEW p \in DOMAIN T
  PROVE  Subtree(T, p) = {p} \cup UNION {Subtree(T, Append(p, i)) : i \in 1..Degree(T, p)}
<1>1. p \in Seq(Nat) /\ Len(p) \in Nat /\ DOMAIN p = 1..Len(p)
  BY LenProperties DEF IsTree
<1>2. p \in Subtree(T, p)
  BY <1>1 DEF Subtree, IsPrefixOf
<1>3. ASSUME NEW i \in 1..Degree(T, p), NEW q \in Subtree(T, Append(p, i)) PROVE q \in Subtree(T, p)
  <2> DEFINE c == Append(p, i)
  <2>1. i \in Nat
    BY ChildrenAreAppended
  <2>2. c \in Seq(Nat) /\ Len(c) = Len(p) + 1 /\ \A j \in 1..Len(p) : c[j] = p[j]
    BY <1>1, <2>1, AppendProperties
  <2>3. q \in Seq(Nat) /\ q \in DOMAIN T /\ Len(c) <= Len(q) /\ \A j \in DOMAIN c : c[j] = q[j]
    BY DEF Subtree, IsPrefixOf, IsTree
  <2> HIDE DEF c
  <2>4. Len(q) \in Nat /\ DOMAIN c = 1..Len(c)
    BY <2>2, <2>3, LenProperties
  <2> QED BY <1>1, <2>2, <2>3, <2>4 DEF Subtree, IsPrefixOf
<1>4. ASSUME NEW q \in Subtree(T, p), q # p
      PROVE  \E i \in 1..Degree(T, p) : q \in Subtree(T, Append(p, i))
  <2>1. q \in DOMAIN T /\ q \in Seq(Nat) /\ Len(p) <= Len(q) /\ \A j \in 1..Len(p) : p[j] = q[j]
    BY <1>1 DEF Subtree, IsPrefixOf, IsTree
  <2>2. Len(q) \in Nat /\ DOMAIN q = 1..Len(q)
    BY <2>1, LenProperties
  <2>3. Len(p) + 1 \in 1..Len(q)
    <3>1. Len(p) = Len(q) => p = q
      BY <1>1, <2>1, SeqEqual
    <3>2. Len(p) # Len(q)
      BY <1>4, <3>1
    <3>3. Len(p) \in Nat /\ Len(q) \in Nat /\ Len(p) <= Len(q)
      BY <1>1, <2>1, <2>2
    <3> QED BY <3>2, <3>3
  <2> DEFINE c == SubSeq(q, 1, Len(p) + 1)
  <2>4. c \in DOMAIN T
    BY <2>1, <2>3, PathsAreClosed
  <2>5. c \in Seq(Nat) /\ Len(c) = Len(p) + 1 /\ \A j \in 1..(Len(p) + 1) : c[j] = q[j]
    BY <2>1, <2>3, PathUpTo
  <2> HIDE DEF c
  <2>6. c \in ChildPaths(T, p)
    BY <1>1, <2>1, <2>4, <2>5 DEF ChildPaths, IsPrefixOf
  <2>7. PICK i \in 1..Degree(T, p) : c = Append(p, i)
    BY <2>6, ChildrenAreAppended
  <2>8. IsPrefixOf(c, q)
    BY <2>2, <2>3, <2>5, LenProperties DEF IsPrefixOf
  <2> QED BY <2>1, <2>7, <2>8 DEF Subtree
<1> QED BY <1>2, <1>3, <1>4

\* A node is before what is below it, and what is below a child before what is below a later one.
LEMMA SubtreesAreOrdered ==
  ASSUME NEW T, IsTree(T), NEW p \in DOMAIN T, NEW i \in 1..Degree(T, p), NEW q \in Subtree(T, Append(p, i))
  PROVE  /\ Before(p, q)
         /\ \A j \in 1..(i - 1) : \A r \in Subtree(T, Append(p, j)) : Before(r, q)
<1>1. p \in Seq(Nat) /\ Len(p) \in Nat /\ DOMAIN p = 1..Len(p) /\ Degree(T, p) \in Nat
  BY LenProperties, ChildrenAreAppended DEF IsTree
<1>2. ASSUME NEW k \in 1..Degree(T, p), NEW r \in Subtree(T, Append(p, k))
      PROVE  /\ r \in Seq(Nat) /\ Len(r) \in Nat /\ Len(p) + 1 <= Len(r) /\ DOMAIN r = 1..Len(r)
             /\ r[Len(p) + 1] = k /\ \A j \in 1..Len(p) : r[j] = p[j]
  <2> DEFINE c == Append(p, k)
  <2>1. k \in Nat
    BY <1>1
  <2>2. c \in Seq(Nat) /\ Len(c) = Len(p) + 1 /\ c[Len(p) + 1] = k /\ \A j \in 1..Len(p) : c[j] = p[j]
    BY <1>1, <2>1, AppendProperties
  <2>3. r \in Seq(Nat) /\ Len(c) <= Len(r) /\ \A j \in DOMAIN c : c[j] = r[j]
    BY DEF Subtree, IsPrefixOf, IsTree
  <2> HIDE DEF c
  <2>4. Len(r) \in Nat /\ DOMAIN r = 1..Len(r) /\ DOMAIN c = 1..Len(c)
    BY <2>2, <2>3, LenProperties
  <2>5. \A j \in 1..(Len(p) + 1) : j \in DOMAIN c /\ c[j] = r[j]
    BY <1>1, <2>2, <2>3, <2>4
  <2>6. r[Len(p) + 1] = k
    BY <1>1, <2>2, <2>5
  <2>7. \A j \in 1..Len(p) : r[j] = p[j]
    <3>1. \A j \in 1..Len(p) : j \in 1..(Len(p) + 1)
      BY <1>1
    <3> QED BY <2>2, <2>5, <3>1
  <2> QED BY <2>2, <2>3, <2>4, <2>6, <2>7
<1>3. Before(p, q)
  <2>1. IsPrefixOf(p, q) /\ p # q
    BY <1>1, <1>2 DEF IsPrefixOf
  <2> QED BY <2>1 DEF Before
<1>4. ASSUME NEW j \in 1..(i - 1), NEW r \in Subtree(T, Append(p, j)) PROVE Before(r, q)
  <2>1. j \in 1..Degree(T, p) /\ j < i
    BY <1>1
  <2> DEFINE n == Len(p) + 1
  <2>2. n \in DOMAIN r \cap DOMAIN q /\ r[n] = j /\ q[n] = i
    BY <1>1, <1>2, <2>1
  <2>3. \A k \in 1..(n - 1) : r[k] = q[k]
    <3>1. n - 1 = Len(p)
      BY <1>1
    <3>2. \A k \in 1..Len(p) : r[k] = p[k]
      BY <1>2, <2>1
    <3>3. \A k \in 1..Len(p) : q[k] = p[k]
      BY <1>2
    <3> QED BY <3>1, <3>2, <3>3
  <2> HIDE DEF n
  <2> QED BY <2>1, <2>2, <2>3 DEF Before
<1> QED BY <1>3, <1>4

-----------------------------------------------------------------------------
(* Ranks in an ordered finite set *)

\* R orders S strictly: of two different members one is first, and nothing goes in circles.
Orders(R, S) ==
  /\ \A x, y \in S : <<x, y>> \in R => <<y, x>> \notin R
  /\ \A x, y, z \in S : <<x, y>> \in R /\ <<y, z>> \in R => <<x, z>> \in R
  /\ \A x, y \in S : x # y => <<x, y>> \in R \/ <<y, x>> \in R

RankIn(R, S, x) == Cardinality({y \in S : <<y, x>> \in R})

\* The ranks of a finite ordered set are the numbers below its size, each taken once, in order.
LEMMA RanksEnumerate ==
  ASSUME NEW S, IsFiniteSet(S), NEW R, Orders(R, S)
  PROVE  /\ Cardinality(S) \in Nat
         /\ \A x \in S : RankIn(R, S, x) \in 0..(Cardinality(S) - 1)
         /\ \A x, y \in S : <<x, y>> \in R <=> RankIn(R, S, x) < RankIn(R, S, y)
         /\ \A x, y \in S : RankIn(R, S, x) = RankIn(R, S, y) => x = y
         /\ \A k \in 0..(Cardinality(S) - 1) : \E x \in S : RankIn(R, S, x) = k
<1> DEFINE n == Cardinality(S)
           below(x) == {y \in S : <<y, x>> \in R}
           rank == [x \in S |-> RankIn(R, S, x)]
<1>1. n \in Nat
  BY FS_CardinalityType
<1>2. ASSUME NEW x \in S
      PROVE  /\ IsFiniteSet(below(x)) /\ rank[x] = Cardinality(below(x)) /\ rank[x] \in Nat
             /\ x \notin below(x) /\ rank[x] < n
  <2>1. x \notin below(x) /\ below(x) \in SUBSET S
    BY DEF Orders
  <2>2. rank[x] = Cardinality(below(x))
    BY DEF RankIn
  <2> DEFINE B == below(x)
  <2>3. B \in SUBSET S /\ B # S
    BY <2>1
  <2> HIDE DEF B
  <2>4. IsFiniteSet(B) /\ Cardinality(B) \in Nat /\ Cardinality(B) <= n /\ Cardinality(B) # n
    BY <2>3, FS_Subset, FS_CardinalityType
  <2>5. Cardinality(B) < n
    BY <1>1, <2>4
  <2> QED BY <2>1, <2>2, <2>4, <2>5 DEF B
<1>3. ASSUME NEW x \in S, NEW y \in S, <<x, y>> \in R PROVE rank[x] < rank[y]
  <2> DEFINE B == below(x)
             C == below(y)
  <2>1. B \in SUBSET C /\ x \in C /\ x \notin B
    BY <1>3 DEF Orders
  <2>2. IsFiniteSet(C) /\ rank[x] = Cardinality(B) /\ rank[y] = Cardinality(C)
        /\ rank[x] \in Nat /\ rank[y] \in Nat
    BY <1>2
  <2> HIDE DEF B, C, rank
  <2>3. Cardinality(B) <= Cardinality(C) /\ Cardinality(B) # Cardinality(C)
    BY <2>1, <2>2, FS_Subset
  <2> QED BY <2>2, <2>3
<1> HIDE DEF below
<1>4. ASSUME NEW x \in S, NEW y \in S PROVE <<x, y>> \in R <=> rank[x] < rank[y]
  <2>1. rank[x] \in Nat /\ rank[y] \in Nat
    BY <1>2
  <2>2. <<y, x>> \in R => rank[y] < rank[x]
    BY <1>3
  <2>3. <<x, y>> \in R => rank[x] < rank[y]
    BY <1>3
  <2>4. x # y => <<x, y>> \in R \/ <<y, x>> \in R
    BY DEF Orders
  <2> HIDE DEF rank
  <2> QED BY <2>1, <2>2, <2>3, <2>4
<1>5. ASSUME NEW x \in S, NEW y \in S, rank[x] = rank[y] PROVE x = y
  <2>1. rank[x] \in Nat /\ rank[y] \in Nat
    BY <1>2
  <2>2. x # y => <<x, y>> \in R \/ <<y, x>> \in R
    BY DEF Orders
  <2>3. ~ (rank[x] < rank[y]) /\ ~ (rank[y] < rank[x])
    <3> HIDE DEF rank
    <3> QED BY <1>5, <2>1
  <2> HIDE DEF rank
  <2> QED BY <1>3, <2>2, <2>3
<1>6. ASSUME NEW k \in 0..(n - 1) PROVE \E x \in S : rank[x] = k
  <2> DEFINE I == 0..(n - 1)
  <2>1. rank \in [S -> I]
    <3>1. \A x \in S : rank[x] \in I
      BY <1>1, <1>2
    <3>2. rank = [x \in S |-> rank[x]]
      OBVIOUS
    <3> HIDE DEF rank, I
    <3> QED BY <3>1, <3>2
  <2>2. IsFiniteSet(I) /\ Cardinality(I) = n
    BY <1>1, FS_Interval
  <2> HIDE DEF rank, I
  <2>3. rank \in Injection(S, I)
    BY <1>5, <2>1 DEF Injection, IsInjective
  <2>4. rank \in Surjection(S, I)
    BY <2>2, <2>3, FS_Injection
  <2> QED BY <2>4 DEF Surjection, I
<1>7. \A x \in S : rank[x] = RankIn(R, S, x)
  OBVIOUS
<1> HIDE DEF rank
<1>8. \A x \in S : rank[x] \in 0..(n - 1)
  BY <1>1, <1>2
<1> QED BY <1>1, <1>4, <1>5, <1>6, <1>7, <1>8

\* list puts at every place a member with the rank of that place.
PutsByRank(S, R, list) ==
  /\ list = [i \in 1..Cardinality(S) |-> list[i]]
  /\ \A i \in 1..Cardinality(S) :
       (\E x \in S : RankIn(R, S, x) = i - 1) => list[i] \in S /\ RankIn(R, S, list[i]) = i - 1

\* What comes out when every member is put at its rank.
LEMMA ArrangedByRank ==
  ASSUME NEW S, IsFiniteSet(S), NEW R, Orders(R, S), NEW list, PutsByRank(S, R, list)
  PROVE  /\ list \in Seq(S)
         /\ Len(list) = Cardinality(S)
         /\ {list[i] : i \in DOMAIN list} = S
         /\ \A i, k \in 1..Len(list) : <<list[i], list[k]>> \in R <=> i < k
<1> DEFINE n == Cardinality(S)
<1>1. n \in Nat
  BY FS_CardinalityType
<1>2. ASSUME NEW i \in 1..n PROVE list[i] \in S /\ RankIn(R, S, list[i]) = i - 1
  <2>1. i - 1 \in 0..(n - 1)
    BY <1>1
  <2>2. \E x \in S : RankIn(R, S, x) = i - 1
    BY <2>1, RanksEnumerate
  <2> QED BY <2>2 DEF PutsByRank
<1>3. list \in Seq(S) /\ Len(list) = n /\ DOMAIN list = 1..n
  <2>1. list \in [1..n -> S]
    <3>1. list = [i \in 1..n |-> list[i]]
      BY DEF PutsByRank
    <3> HIDE DEF n
    <3> QED BY <1>2, <3>1
  <2> HIDE DEF n
  <2>2. list \in Seq(S)
    BY <1>1, <2>1, SeqDef
  <2> QED BY <1>1, <2>1, <2>2, LenProperties
<1>4. {list[i] : i \in 1..n} = S
  <2>1. ASSUME NEW x \in S PROVE \E i \in 1..n : list[i] = x
    <3> DEFINE k == RankIn(R, S, x)
    <3>1. k \in 0..(n - 1)
      BY RanksEnumerate
    <3>2. k + 1 \in 1..n /\ (k + 1) - 1 = k
      BY <1>1, <3>1
    <3>3. RankIn(R, S, list[k + 1]) = k /\ list[k + 1] \in S
      BY <1>2, <3>2
    <3>4. list[k + 1] = x
      BY <3>3, RanksEnumerate
    <3> QED BY <3>2, <3>4
  <2> QED BY <1>2, <2>1
<1>5. ASSUME NEW i \in 1..n, NEW k \in 1..n PROVE <<list[i], list[k]>> \in R <=> i < k
  <2>1. <<list[i], list[k]>> \in R <=> i - 1 < k - 1
    BY <1>2, RanksEnumerate
  <2> QED BY <1>1, <2>1
<1> QED BY <1>3, <1>4, <1>5

-----------------------------------------------------------------------------
(* Least and largest numbers *)

\* A set of numbers that is not empty has a least one.
LEMMA MinIsLeast ==
  ASSUME NEW S \in SUBSET Nat, S # {}
  PROVE  Min(S) \in S /\ \A x \in S : Min(S) <= x
<1>1. PICK m \in S : \A x \in S : ~ (<<x, m>> \in OpToRel(<, Nat))
  BY NatLessThanWellFounded, WFMin
<1>2. \A x \in S : m <= x
  <2> SUFFICES ASSUME NEW x \in S, x < m PROVE FALSE
    OBVIOUS
  <2>1. x \in Nat /\ m \in Nat
    OBVIOUS
  <2>2. <<x, m>> \in OpToRel(<, Nat)
    BY <2>1 DEF OpToRel
  <2> QED BY <1>1, <2>2
<1> QED BY <1>2 DEF Min

\* A finite set of numbers that is not empty has a largest one.
LEMMA MaxIsLargest ==
  ASSUME NEW S \in SUBSET Nat, IsFiniteSet(S), S # {}
  PROVE  Max(S) \in S /\ \A x \in S : x <= Max(S)
<1> DEFINE F == {U \in SUBSET S : U = {} \/ \E m \in U : \A x \in U : m >= x}
<1>1. ASSUME NEW U \in SUBSET S, \A W \in SUBSET U : W # U => W \in F
      PROVE  U \in F
  <2>1. CASE U = {}
    BY <2>1
  <2>2. CASE U # {}
    <3>1. PICK y \in U : TRUE
      BY <2>2
    <3>2. U \ {y} \in F
      BY <1>1
    <3>3. CASE U \ {y} = {}
      <4>1. \A x \in U : y >= x
        BY <3>3
      <4> QED BY <4>1
    <3>4. CASE U \ {y} # {}
      <4>1. PICK m \in U \ {y} : \A x \in U \ {y} : m >= x
        BY <3>2, <3>4
      <4>2. m \in Nat /\ y \in Nat /\ m \in U
        OBVIOUS
      <4>3. CASE m >= y
        BY <4>1, <4>2, <4>3
      <4>4. CASE y >= m
        <5>1. \A x \in U : y >= x
          BY <4>1, <4>2, <4>4
        <5> QED BY <5>1
      <4> QED BY <4>2, <4>3, <4>4
    <3> QED BY <3>3, <3>4
  <2> QED BY <2>1, <2>2
<1>2. S \in F
  <2> HIDE DEF F
  <2> QED BY <1>1, SubsetInduction
<1>3. PICK m \in S : \A x \in S : m >= x
  BY <1>2
<1>4. Max(S) \in S /\ \A x \in S : Max(S) >= x
  BY <1>3 DEF Max
<1> QED BY <1>4

-----------------------------------------------------------------------------
(* Joined sequences *)

\* j holds the first i of the sequences s[1], ..., s[n] behind each other, for every i.
Joins(A, n, s, j) ==
  /\ j \in [0..n -> Seq(A)]
  /\ j[0] = <<>>
  /\ \A i \in 1..n : j[i] = j[i - 1] \o s[i]

LEMMA FlattenJoins ==
  ASSUME NEW A, NEW n \in Nat, NEW s \in [1..n -> Seq(A)]
  PROVE  \E j : Joins(A, n, s, j) /\ FlattenSeq(s) = j[n]
<1>1. Len(s) = n
  BY LenProperties, SeqDef
<1> DEFINE Loop(h) == h = [i \in 1..Len(s) |-> IF i = 1 THEN s[i] ELSE h[i - 1] \o s[i]]
           F == {m \in 0..n : \E j : Joins(A, m, s, j)}
<1>2. 0 \in F
  <2>1. Joins(A, 0, s, [i \in 0..0 |-> <<>>])
    BY EmptySeq DEF Joins
  <2> QED BY <2>1
<1>3. ASSUME NEW m \in 0..(n - 1), m \in F PROVE m + 1 \in F
  <2>1. PICK j : Joins(A, m, s, j)
    BY <1>3
  <2> DEFINE g == [i \in 0..(m + 1) |-> IF i = m + 1 THEN j[m] \o s[m + 1] ELSE j[i]]
  <2>2. j[m] \o s[m + 1] \in Seq(A)
    <3>1. j[m] \in Seq(A) /\ s[m + 1] \in Seq(A)
      BY <2>1 DEF Joins
    <3> QED BY <3>1, ConcatProperties
  <2>3. g \in [0..(m + 1) -> Seq(A)] /\ g[0] = <<>>
    BY <2>1, <2>2 DEF Joins
  <2>4. ASSUME NEW i \in 1..(m + 1) PROVE g[i] = g[i - 1] \o s[i]
    <3>1. CASE i = m + 1
      <4>1. i - 1 = m /\ m # m + 1 /\ m \in 0..(m + 1) /\ m + 1 \in 0..(m + 1)
        BY <3>1
      <4>2. g[m] = j[m]
        BY <4>1
      <4>3. g[m + 1] = j[m] \o s[m + 1]
        BY <4>1
      <4> HIDE DEF g
      <4> QED BY <3>1, <4>1, <4>2, <4>3
    <3>2. CASE i # m + 1
      <4>1. i \in 1..m /\ g[i] = j[i] /\ g[i - 1] = j[i - 1]
        BY <3>2
      <4> HIDE DEF g
      <4> QED BY <2>1, <4>1 DEF Joins
    <3> QED BY <3>1, <3>2
  <2> HIDE DEF g
  <2>5. Joins(A, m + 1, s, g)
    BY <2>3, <2>4 DEF Joins
  <2>6. m + 1 \in 0..n
    OBVIOUS
  <2> QED BY <2>5, <2>6
<1>4. n \in F
  <2> HIDE DEF F
  <2>1. \A k \in 0..n : k \in F
    BY <1>2, <1>3, InductionUpTo
  <2> QED BY <2>1
<1>5. PICK j : Joins(A, n, s, j)
  BY <1>4
<1>6. CASE n = 0
  <2>1. FlattenSeq(s) = s /\ j[n] = <<>>
    BY <1>1, <1>5, <1>6 DEF FlattenSeq, Joins
  <2>2. s = <<>>
    BY <1>6
  <2> QED BY <1>5, <2>1, <2>2
<1>7. CASE n # 0
  <2> DEFINE g == [i \in 1..n |-> j[i]]
  <2>1. ASSUME NEW i \in 1..n PROVE g[i] = IF i = 1 THEN s[i] ELSE g[i - 1] \o s[i]
    <3>1. j[i] = j[i - 1] \o s[i] /\ s[i] \in Seq(A)
      BY <1>5 DEF Joins
    <3>2. i = 1 => j[i - 1] = <<>>
      BY <1>5 DEF Joins
    <3>3. CASE i = 1
      <4>1. <<>> \o s[i] = s[i]
        BY <3>1, ConcatEmptySeq
      <4> QED BY <3>1, <3>2, <3>3, <4>1
    <3>4. CASE i # 1
      <4>1. g[i - 1] = j[i - 1]
        BY <3>4
      <4> QED BY <3>1, <3>4, <4>1
    <3> QED BY <3>3, <3>4
  <2>2. Loop(g)
    <3>1. g = [i \in 1..n |-> g[i]]
      OBVIOUS
    <3> HIDE DEF g
    <3> QED BY <1>1, <2>1, <3>1
  <2> DEFINE flatten == CHOOSE h : Loop(h)
  <2>3. Loop(flatten)
    <3> HIDE DEF Loop, g
    <3> QED BY <2>2
  <2>4. FlattenSeq(s) = flatten[n]
    BY <1>1, <1>7 DEF FlattenSeq
  <2> HIDE DEF flatten
  <2> DEFINE G == {k \in 0..n : k = 0 \/ flatten[k] = j[k]}
  <2>5. 0 \in G
    OBVIOUS
  <2>6. ASSUME NEW k \in 0..(n - 1), k \in G PROVE k + 1 \in G
    <3>1. flatten[k + 1] = IF k + 1 = 1 THEN s[k + 1] ELSE flatten[k] \o s[k + 1]
      <4>1. k + 1 \in 1..Len(s) /\ (k + 1) - 1 = k
        BY <1>1
      <4> HIDE DEF G
      <4> QED BY <2>3, <4>1
    <3>2. g[k + 1] = IF k + 1 = 1 THEN s[k + 1] ELSE g[k] \o s[k + 1]
      <4>1. k + 1 \in 1..n /\ (k + 1) - 1 = k
        OBVIOUS
      <4> HIDE DEF g, G
      <4> QED BY <2>1, <4>1
    <3>3. g[k + 1] = j[k + 1] /\ (k # 0 => g[k] = j[k] /\ flatten[k] = j[k])
      BY <2>6
    <3> QED BY <3>1, <3>2, <3>3
  <2>7. n \in G
    <3> HIDE DEF G
    <3>1. \A k \in 0..n : k \in G
      BY <2>5, <2>6, InductionUpTo
    <3> QED BY <3>1
  <2> QED BY <1>5, <1>7, <2>4, <2>7
<1> QED BY <1>6, <1>7
===============================================================================

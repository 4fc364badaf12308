------------------------------ MODULE FoldFacts ------------------------------
(***************************************************************************)
(* Facts about finite sets and sums that proofs about several components   *)
(* need: induction in a form without operators as parameters, how a sum    *)
(* changes with its summands, greatest elements and quotients.             *)
(***************************************************************************)
EXTENDS Integers, FiniteSets, FiniteSetTheorems, Functions, TLAPS

\* Induction over the subsets of a finite set.
LEMMA SubsetInduction ==
  ASSUME NEW S, IsFiniteSet(S), NEW Good,
         \A T \in SUBSET S : (\A x \in T : T \ {x} \in Good) => T \in Good
  PROVE  SUBSET S \subseteq Good
<1> DEFINE Bad == (SUBSET S) \ Good
<1>1. SUFFICES ASSUME Bad # {} PROVE FALSE
  OBVIOUS
<1>2. IsWellFoundedOn(StrictSubsetOrdering(S), SUBSET S)
  BY FS_StrictSubsetOrderingWellFounded, FS_FiniteSubsetsOfFinite
<1>3. PICK T \in Bad : \A U \in Bad : <<U, T>> \notin StrictSubsetOrdering(S)
  <2> HIDE DEF Bad
  <2>1. Bad \subseteq SUBSET S
    BY DEF Bad
  <2> QED
    BY <1>1, <1>2, <2>1, WFMin
<1>4. ASSUME NEW x \in T PROVE T \ {x} \in Good
  <2> DEFINE U == T \ {x}
  <2>1. <<U, T>> \in (SUBSET S) \X (SUBSET S) /\ U \subseteq T /\ U # T
    BY <1>3
  <2>2. <<U, T>> \in StrictSubsetOrdering(S)
    <3> HIDE DEF U
    <3> QED
      BY <2>1 DEF StrictSubsetOrdering
  <2> QED
    BY <1>3, <2>1, <2>2
<1> QED
  BY <1>3, <1>4

\* Induction over the natural numbers.
LEMMA NumberInduction ==
  ASSUME NEW Good, 0 \in Good, \A n \in Nat : n \in Good => n + 1 \in Good
  PROVE  Nat \subseteq Good
<1>1. SUFFICES ASSUME NEW n \in Nat PROVE n \in Good
  OBVIOUS
<1> DEFINE Fine == {T \in SUBSET (1..n) : \A m \in 0..n : T = 1..m => m \in Good}
<1>2. IsFiniteSet(1..n)
  BY FS_Interval
<1>3. ASSUME NEW T \in SUBSET (1..n), \A x \in T : T \ {x} \in Fine
      PROVE  T \in Fine
  <2>1. SUFFICES ASSUME NEW m \in 0..n, T = 1..m PROVE m \in Good
    OBVIOUS
  <2>2. CASE m = 0
    BY <2>2
  <2>3. CASE m # 0
    <3>1. m \in T /\ T \ {m} = 1..(m-1) /\ m - 1 \in 0..n
      BY <2>1, <2>3
    <3>2. m - 1 \in Good
      BY <3>1, <1>3
    <3> QED
      BY <3>1, <3>2
  <2> QED
    BY <2>2, <2>3
<1>4. 1..n \in Fine
  <2> HIDE DEF Fine
  <2>1. SUBSET (1..n) \subseteq Fine
    BY <1>2, <1>3, SubsetInduction
  <2> QED
    BY <2>1
<1> QED
  BY <1>4

-----------------------------------------------------------------------------
\* The element a sum takes next, and the equation of its recursion.
Pick(T) == CHOOSE x \in T : TRUE
Equation(f, sum, T) == sum[T] = IF T = {} THEN 0 ELSE f[Pick(T)] + sum[T \ {Pick(T)}]
Solves(f, sum, S) == \A T \in SUBSET S : Equation(f, sum, T)

LEMMA PickIn == \A T : T # {} => Pick(T) \in T
BY DEF Pick

\* The recursion has a solution.
LEMMA SumExists ==
  ASSUME NEW S, IsFiniteSet(S), NEW f \in [S -> Int]
  PROVE  \E sum \in [SUBSET S -> Int] : \A T \in SUBSET S : Equation(f, sum, T)
<1> DEFINE SolvesTo(sum, n) == \A T \in SUBSET S : Cardinality(T) <= n => Equation(f, sum, T)
           Good == {n \in Nat : \E sum \in [SUBSET S -> Int] : SolvesTo(sum, n)}
<1>0. \A T \in SUBSET S : IsFiniteSet(T) /\ Cardinality(T) \in Nat
  BY FS_Subset, FS_CardinalityType
<1>1. 0 \in Good
  <2> DEFINE zero == [T \in SUBSET S |-> 0]
  <2>1. zero \in [SUBSET S -> Int]
    OBVIOUS
  <2>2. \A T \in SUBSET S : Cardinality(T) <= 0 => T = {}
    BY <1>0, FS_EmptySet
  <2>3. SolvesTo(zero, 0)
    BY <2>2 DEF Equation
  <2> QED
    BY <2>1, <2>3
<1>2. ASSUME NEW n \in Nat, n \in Good PROVE n + 1 \in Good
  <2>1. PICK sum \in [SUBSET S -> Int] : SolvesTo(sum, n)
    BY <1>2
  <2> DEFINE next == [T \in SUBSET S |-> IF T = {} THEN 0 ELSE f[Pick(T)] + sum[T \ {Pick(T)}]]
  <2>2. next \in [SUBSET S -> Int]
    BY PickIn
  <2>3. ASSUME NEW T \in SUBSET S, Cardinality(T) <= n + 1 PROVE Equation(f, next, T)
    <3>1. CASE T = {}
      BY <3>1 DEF Equation
    <3>2. CASE T # {}
      <4> DEFINE R == T \ {Pick(T)}
      <4>1. Pick(T) \in T /\ R \in SUBSET S
        BY <3>2, PickIn
      <4>2. Cardinality(R) <= n
        BY <4>1, <1>0, <2>3, FS_RemoveElement
      <4>3. Equation(f, sum, R)
        BY <4>1, <4>2, <2>1
      <4>4. next[R] = sum[R]
        BY <4>1, <4>3 DEF Equation
      <4> QED
        BY <3>2, <4>1, <4>4 DEF Equation
    <3> QED
      BY <3>1, <3>2
  <2>4. SolvesTo(next, n + 1)
    BY <2>3
  <2>5. \E s \in [SUBSET S -> Int] : SolvesTo(s, n + 1)
    <3> HIDE DEF SolvesTo, next
    <3> QED
      BY <2>2, <2>4
  <2> QED
    BY <2>5
<1>3. Cardinality(S) \in Good
  <2> HIDE DEF Good
  <2> QED
    BY <1>0, <1>1, <1>2, NumberInduction
<1>4. \A T \in SUBSET S : Cardinality(T) <= Cardinality(S)
  BY FS_Subset
<1> QED
  BY <1>3, <1>4

\* The sum of the values of f over S, by the solution of the recursion over S.
LEMMA SumIsSolution ==
  ASSUME NEW S, IsFiniteSet(S), NEW f, \A x \in S : f[x] \in Int
  PROVE  \E sum : /\ \A T \in SUBSET S : Equation(f, sum, T)
                  /\ SumFunctionOnSet(f, S) = sum[S]
<1> DEFINE Solution(sum) ==
             sum = [T \in SUBSET S |-> IF T = {} THEN 0 ELSE f[Pick(T)] + sum[T \ {Pick(T)}]]
           iter == CHOOSE sum : Solution(sum)
           g == [x \in S |-> f[x]]
<1>1. SumFunctionOnSet(f, S) = iter[S]
  BY DEF SumFunctionOnSet, FoldFunctionOnSet, MapThenFoldSet, Pick
<1>2. PICK sum \in [SUBSET S -> Int] : \A T \in SUBSET S : Equation(g, sum, T)
  <2> HIDE DEF g
  <2>1. g \in [S -> Int]
    BY DEF g
  <2> QED
    BY <2>1, SumExists
<1>3. Solution(sum)
  <2>1. \A T \in SUBSET S : sum[T] = IF T = {} THEN 0 ELSE f[Pick(T)] + sum[T \ {Pick(T)}]
    BY <1>2, PickIn DEF Equation
  <2> QED
    BY <1>2, <2>1
<1>4. Solution(iter)
  <2> HIDE DEF Solution
  <2> QED
    BY <1>3
<1>5. \A T \in SUBSET S : Equation(f, iter, T)
  <2> HIDE DEF iter
  <2> QED
    BY <1>4, Zenon DEF Equation
<1> QED
  BY <1>1, <1>5

\* On the subsets of S there is one solution only.
LEMMA SumIsUnique ==
  ASSUME NEW S, IsFiniteSet(S), NEW f, NEW sum, NEW other,
         Solves(f, sum, S), Solves(f, other, S)
  PROVE  \A T \in SUBSET S : sum[T] = other[T]
<1> DEFINE Good == {T \in SUBSET S : sum[T] = other[T]}
<1>1. ASSUME NEW T \in SUBSET S, \A x \in T : T \ {x} \in Good PROVE T \in Good
  <2>1. CASE T = {}
    BY <2>1 DEF Solves, Equation
  <2>2. CASE T # {}
    BY <2>2, <1>1, PickIn DEF Solves, Equation
  <2> QED
    BY <2>1, <2>2
<1>2. SUBSET S \subseteq Good
  <2> HIDE DEF Good
  <2> QED
    BY <1>1, SubsetInduction
<1> QED
  BY <1>2

LEMMA SumOfNone == \A f : SumFunctionOnSet(f, {}) = 0
<1> SUFFICES ASSUME NEW f PROVE SumFunctionOnSet(f, {}) = 0
  OBVIOUS
<1> QED
  BY SumIsSolution, FS_EmptySet DEF Equation

\* The sum over S takes one element, then is the sum over the others.
LEMMA SumPicks ==
  ASSUME NEW S, IsFiniteSet(S), NEW f, \A x \in S : f[x] \in Int, S # {}
  PROVE  SumFunctionOnSet(f, S) = f[Pick(S)] + SumFunctionOnSet(f, S \ {Pick(S)})
<1> DEFINE R == S \ {Pick(S)}
<1>1. PICK sum : (\A T \in SUBSET S : Equation(f, sum, T)) /\ SumFunctionOnSet(f, S) = sum[S]
  BY SumIsSolution
<1>2. IsFiniteSet(R) /\ R \in SUBSET S
  BY FS_RemoveElement
<1>3. PICK other : (\A T \in SUBSET R : Equation(f, other, T)) /\ SumFunctionOnSet(f, R) = other[R]
  <2> HIDE DEF R
  <2> QED
    BY <1>2, SumIsSolution
<1>4. sum[R] = other[R]
  <2> HIDE DEF R
  <2>1. Solves(f, sum, R) /\ Solves(f, other, R)
    BY <1>1, <1>2, <1>3 DEF Solves
  <2>2. \A T \in SUBSET R : sum[T] = other[T]
    BY <1>2, <2>1, SumIsUnique
  <2> QED
    BY <2>2
<1> QED
  BY <1>1, <1>3, <1>4 DEF Equation

LEMMA SumTyped ==
  ASSUME NEW S, IsFiniteSet(S), NEW f, \A x \in S : f[x] \in Int
  PROVE  SumFunctionOnSet(f, S) \in Int
<1> DEFINE Good == {T \in SUBSET S : SumFunctionOnSet(f, T) \in Int}
<1>1. ASSUME NEW T \in SUBSET S, \A x \in T : T \ {x} \in Good PROVE T \in Good
  <2>1. CASE T = {}
    BY <2>1, SumOfNone
  <2>2. CASE T # {}
    <3>1. SumFunctionOnSet(f, T) = f[Pick(T)] + SumFunctionOnSet(f, T \ {Pick(T)})
      BY <2>2, FS_Subset, SumPicks
    <3> QED
      BY <2>2, <3>1, <1>1, PickIn
  <2> QED
    BY <2>1, <2>2
<1>2. SUBSET S \subseteq Good
  <2> HIDE DEF Good
  <2> QED
    BY <1>1, SubsetInduction
<1> QED
  BY <1>2

\* Any element may be taken first.
LEMMA SumSplits ==
  ASSUME NEW S, IsFiniteSet(S), NEW f, \A x \in S : f[x] \in Int, NEW a \in S
  PROVE  SumFunctionOnSet(f, S) = f[a] + SumFunctionOnSet(f, S \ {a})
<1> DEFINE Sum(T) == SumFunctionOnSet(f, T)
           Good == {T \in SUBSET S : \A x \in T : Sum(T) = f[x] + Sum(T \ {x})}
<1>0. \A T \in SUBSET S : IsFiniteSet(T) /\ Sum(T) \in Int
  BY FS_Subset, SumTyped
<1>1. ASSUME NEW T \in SUBSET S, \A x \in T : T \ {x} \in Good PROVE T \in Good
  <2>1. SUFFICES ASSUME NEW x \in T PROVE Sum(T) = f[x] + Sum(T \ {x})
    OBVIOUS
  <2> DEFINE p == Pick(T)
  <2>2. p \in T /\ Sum(T) = f[p] + Sum(T \ {p})
    BY <1>0, SumPicks, PickIn
  <2>3. CASE x = p
    BY <2>2, <2>3
  <2>4. CASE x # p
    <3> HIDE DEF p, Sum
    <3>1. Sum(T \ {p}) = f[x] + Sum((T \ {p}) \ {x})
      BY <1>1, <2>2, <2>4
    <3>2. Sum(T \ {x}) = f[p] + Sum((T \ {x}) \ {p})
      BY <1>1, <2>2, <2>4
    <3>3. (T \ {x}) \ {p} = (T \ {p}) \ {x}
      OBVIOUS
    <3>4. Sum(T \ {x}) = f[p] + Sum((T \ {p}) \ {x})
      BY <3>2, <3>3
    <3>5. Sum((T \ {p}) \ {x}) \in Int /\ f[x] \in Int /\ f[p] \in Int
      BY <1>0, <2>2
    <3> QED
      BY <2>2, <3>1, <3>4, <3>5
  <2> QED
    BY <2>3, <2>4
<1>2. SUBSET S \subseteq Good
  <2> HIDE DEF Good
  <2> QED
    BY <1>1, SubsetInduction
<1> QED
  BY <1>2

\* Smaller summands, smaller sum.
LEMMA SumMonotone ==
  ASSUME NEW S, IsFiniteSet(S), NEW f, NEW g,
         \A x \in S : f[x] \in Int /\ g[x] \in Int /\ f[x] <= g[x]
  PROVE  SumFunctionOnSet(f, S) <= SumFunctionOnSet(g, S)
<1> DEFINE F(T) == SumFunctionOnSet(f, T)
           G(T) == SumFunctionOnSet(g, T)
           Good == {T \in SUBSET S : F(T) <= G(T)}
<1>0. \A T \in SUBSET S : IsFiniteSet(T) /\ F(T) \in Int /\ G(T) \in Int
  BY FS_Subset, SumTyped
<1>1. ASSUME NEW T \in SUBSET S, \A x \in T : T \ {x} \in Good PROVE T \in Good
  <2>1. CASE T = {}
    BY <2>1, SumOfNone
  <2>2. CASE T # {}
    <3>1. PICK x \in T : TRUE
      BY <2>2
    <3>2. F(T) = f[x] + F(T \ {x}) /\ G(T) = g[x] + G(T \ {x})
      BY <1>0, SumSplits
    <3>3. F(T \ {x}) <= G(T \ {x})
      BY <1>1
    <3>4. F(T \ {x}) \in Int /\ G(T \ {x}) \in Int
      BY <1>0
    <3> HIDE DEF F, G
    <3> QED
      BY <3>2, <3>3, <3>4
  <2> QED
    BY <2>1, <2>2
<1>2. SUBSET S \subseteq Good
  <2> HIDE DEF Good
  <2> QED
    BY <1>1, SubsetInduction
<1> QED
  BY <1>2

LEMMA SumSame ==
  ASSUME NEW S, IsFiniteSet(S), NEW f, NEW g,
         \A x \in S : f[x] \in Int /\ g[x] = f[x]
  PROVE  SumFunctionOnSet(g, S) = SumFunctionOnSet(f, S)
<1>1. /\ SumFunctionOnSet(f, S) <= SumFunctionOnSet(g, S)
      /\ SumFunctionOnSet(g, S) <= SumFunctionOnSet(f, S)
  BY SumMonotone
<1>2. SumFunctionOnSet(f, S) \in Int /\ SumFunctionOnSet(g, S) \in Int
  BY SumTyped
<1> QED
  BY <1>1, <1>2

Summands(f, S) == \A x \in S : f[x] \in Int
AgreeOn(f, g, S) == \A x \in S : g[x] = f[x]

\* One summand changes.
LEMMA SumChanges ==
  ASSUME NEW S, IsFiniteSet(S), NEW f, NEW g, NEW a \in S,
         Summands(f, S), Summands(g, S), AgreeOn(f, g, S \ {a})
  PROVE  SumFunctionOnSet(g, S) = SumFunctionOnSet(f, S) + g[a] - f[a]
<1> USE DEF Summands, AgreeOn
<1> DEFINE R == S \ {a}
<1>1. IsFiniteSet(R) /\ R \subseteq S
  BY FS_RemoveElement
<1>2. SumFunctionOnSet(g, R) = SumFunctionOnSet(f, R) /\ SumFunctionOnSet(f, R) \in Int
  <2> HIDE DEF R
  <2>1. \A x \in R : f[x] \in Int /\ g[x] = f[x]
    BY <1>1 DEF R
  <2> QED
    BY <1>1, <2>1, SumSame, SumTyped
<1>3. /\ SumFunctionOnSet(f, S) = f[a] + SumFunctionOnSet(f, R)
      /\ SumFunctionOnSet(g, S) = g[a] + SumFunctionOnSet(g, R)
  BY SumSplits
<1> HIDE DEF R
<1> QED
  BY <1>2, <1>3

\* Summands of at most k.
LEMMA SumBounded ==
  ASSUME NEW S, IsFiniteSet(S), NEW f, NEW k \in Int,
         \A x \in S : f[x] \in Int /\ f[x] <= k
  PROVE  SumFunctionOnSet(f, S) <= k * Cardinality(S)
<1> DEFINE F(T) == SumFunctionOnSet(f, T)
           Good == {T \in SUBSET S : F(T) <= k * Cardinality(T)}
<1>0. \A T \in SUBSET S : IsFiniteSet(T) /\ F(T) \in Int /\ Cardinality(T) \in Nat
  BY FS_Subset, SumTyped, FS_CardinalityType
<1>1. ASSUME NEW T \in SUBSET S, \A x \in T : T \ {x} \in Good PROVE T \in Good
  <2>1. CASE T = {}
    BY <2>1, SumOfNone, FS_EmptySet
  <2>2. CASE T # {}
    <3>1. PICK x \in T : TRUE
      BY <2>2
    <3> DEFINE n == Cardinality(T \ {x})
    <3>2. F(T) = f[x] + F(T \ {x})
      BY <1>0, SumSplits
    <3>3. F(T \ {x}) <= k * n
      BY <1>1
    <3>4. F(T \ {x}) \in Int /\ n \in Nat /\ Cardinality(T) = n + 1
      BY <1>0, FS_RemoveElement
    <3> HIDE DEF F, n
    <3>5. k * (n + 1) = k * n + k /\ k * n \in Int
      BY <3>4
    <3>6. F(T) <= k * (n + 1)
      BY <3>2, <3>3, <3>4, <3>5
    <3> QED
      BY <3>4, <3>6
  <2> QED
    BY <2>1, <2>2
<1>2. SUBSET S \subseteq Good
  <2> HIDE DEF Good
  <2> QED
    BY <1>1, SubsetInduction
<1> QED
  BY <1>2

\* Summands that are all zero.
LEMMA SumOfZeros ==
  ASSUME NEW S, IsFiniteSet(S), NEW f, \A x \in S : f[x] = 0
  PROVE  SumFunctionOnSet(f, S) = 0
<1> DEFINE Good == {T \in SUBSET S : SumFunctionOnSet(f, T) = 0}
<1>1. ASSUME NEW T \in SUBSET S, \A x \in T : T \ {x} \in Good PROVE T \in Good
  <2>1. CASE T = {}
    BY <2>1, SumOfNone
  <2>2. CASE T # {}
    <3>0. IsFiniteSet(T) /\ \A x \in T : f[x] = 0 /\ f[x] \in Int
      BY FS_Subset
    <3>1. SumFunctionOnSet(f, T) = f[Pick(T)] + SumFunctionOnSet(f, T \ {Pick(T)})
      BY <2>2, <3>0, SumPicks
    <3> QED
      BY <2>2, <3>0, <3>1, <1>1, PickIn
  <2> QED
    BY <2>1, <2>2
<1>2. SUBSET S \subseteq Good
  <2> HIDE DEF Good
  <2> QED
    BY <1>1, SubsetInduction
<1> QED
  BY <1>2

\* Natural summands: a part of them sums to no more than all.
LEMMA SumOfPart ==
  ASSUME NEW S, IsFiniteSet(S), NEW f, \A x \in S : f[x] \in Nat, NEW R \in SUBSET S
  PROVE  /\ SumFunctionOnSet(f, R) \in Nat
         /\ SumFunctionOnSet(f, R) <= SumFunctionOnSet(f, S)
<1> DEFINE Sum(T) == SumFunctionOnSet(f, T)
           Good == {T \in SUBSET S : /\ Sum(T) \in Nat
                                     /\ \A U \in SUBSET T : Sum(U) \in Nat /\ Sum(U) <= Sum(T)}
<1>1. ASSUME NEW T \in SUBSET S, \A x \in T : T \ {x} \in Good PROVE T \in Good
  <2>0. IsFiniteSet(T) /\ \A x \in T : f[x] \in Nat /\ f[x] \in Int
    BY FS_Subset
  <2>1. ASSUME NEW x \in T
        PROVE  /\ Sum(T) \in Nat /\ Sum(T \ {x}) <= Sum(T)
               /\ \A U \in SUBSET (T \ {x}) : Sum(U) \in Nat /\ Sum(U) <= Sum(T \ {x})
    <3>1. Sum(T) = f[x] + Sum(T \ {x})
      BY <2>0, SumSplits
    <3>2. T \ {x} \in Good
      BY <1>1
    <3> QED
      BY <2>0, <3>1, <3>2
  <2>2. Sum(T) \in Nat
    <3>1. CASE T = {}
      BY <3>1, SumOfNone
    <3>2. CASE T # {}
      BY <3>2, <2>1
    <3> QED
      BY <3>1, <3>2
  <2>3. ASSUME NEW U \in SUBSET T PROVE Sum(U) \in Nat /\ Sum(U) <= Sum(T)
    <3>1. CASE U = T
      BY <2>2, <3>1
    <3>2. CASE U # T
      <4>1. PICK x \in T : U \in SUBSET (T \ {x})
        BY <3>2
      <4>2. /\ Sum(U) \in Nat /\ Sum(U) <= Sum(T \ {x}) /\ Sum(T \ {x}) <= Sum(T)
            /\ Sum(T \ {x}) \in Nat
        <5>1. T \ {x} \in SUBSET (T \ {x})
          OBVIOUS
        <5> QED
          BY <2>1, <4>1, <5>1
      <4> HIDE DEF Sum
      <4> QED
        BY <4>2, <2>2
    <3> QED
      BY <3>1, <3>2
  <2> HIDE DEF Sum
  <2> QED
    BY <2>2, <2>3
<1>2. S \in Good
  <2> HIDE DEF Good
  <2> QED
    BY <1>1, SubsetInduction
<1> QED
  BY <1>2

-----------------------------------------------------------------------------
\* Some element of a finite set has the greatest value.
LEMMA HasGreatest ==
  ASSUME NEW S, IsFiniteSet(S), S # {}, NEW f, \A x \in S : f[x] \in Int
  PROVE  \E x \in S : \A y \in S : f[y] <= f[x]
<1> DEFINE Good == {T \in SUBSET S : T # {} => \E x \in T : \A y \in T : f[y] <= f[x]}
<1>1. ASSUME NEW T \in SUBSET S, \A x \in T : T \ {x} \in Good PROVE T \in Good
  <2> SUFFICES ASSUME NEW a \in T PROVE \E x \in T : \A y \in T : f[y] <= f[x]
    OBVIOUS
  <2>1. CASE T = {a}
    BY <2>1
  <2>2. CASE T # {a}
    <3>1. PICK x \in T \ {a} : \A y \in T \ {a} : f[y] <= f[x]
      BY <1>1, <2>2
    <3>2. CASE f[a] <= f[x]
      BY <3>1, <3>2
    <3>3. CASE ~(f[a] <= f[x])
      <4>1. \A y \in T : f[y] <= f[a]
        BY <3>1, <3>3
      <4> QED
        BY <4>1
    <3> QED
      BY <3>2, <3>3
  <2> QED
    BY <2>1, <2>2
<1>2. S \in Good
  <2> HIDE DEF Good
  <2> QED
    BY <1>1, SubsetInduction
<1> QED
  BY <1>2

\* A finite set of integers has a least and a greatest element.
LEMMA HasBounds ==
  ASSUME NEW S \in SUBSET Int, IsFiniteSet(S), S # {}
  PROVE  /\ \E x \in S : \A y \in S : y <= x
         /\ \E x \in S : \A y \in S : x <= y
<1>1. \E x \in S : \A y \in S : y <= x
  <2> DEFINE f == [x \in S |-> x]
  <2>1. \A x \in S : f[x] \in Int
    OBVIOUS
  <2>2. \E x \in S : \A y \in S : f[y] <= f[x]
    <3> HIDE DEF f
    <3> QED
      BY <2>1, HasGreatest
  <2> QED
    BY <2>2
<1>2. \E x \in S : \A y \in S : x <= y
  <2> DEFINE f == [x \in S |-> -x]
  <2>1. \A x \in S : f[x] \in Int
    OBVIOUS
  <2>2. PICK x \in S : \A y \in S : f[y] <= f[x]
    <3> HIDE DEF f
    <3> QED
      BY <2>1, HasGreatest
  <2>3. \A y \in S : x <= y
    BY <2>2
  <2> QED
    BY <2>3
<1> QED
  BY <1>1, <1>2

-----------------------------------------------------------------------------
\* Division of integers, as the product that is closest from below.
LEMMA Quotient ==
  ASSUME NEW a \in Int, NEW b \in Nat \ {0}
  PROVE  a \div b \in Int /\ b * (a \div b) <= a /\ a < b * (a \div b) + b
OBVIOUS

LEMMA QuotientFloor ==
  ASSUME NEW a \in Int, NEW b \in Nat \ {0}, NEW m \in Int, m * b <= a
  PROVE  m <= a \div b
<1> DEFINE q == a \div b
<1>1. q \in Int /\ a < b * q + b
  BY Quotient
<1>2. ASSUME q + 1 <= m PROVE FALSE
  <2>1. b * (q + 1) <= b * m
    BY <1>1, <1>2
  <2> QED
    BY <1>1, <2>1
<1> HIDE DEF q
<1>3. m <= q
  BY <1>1, <1>2
<1> QED
  BY <1>3 DEF q

=============================================================================

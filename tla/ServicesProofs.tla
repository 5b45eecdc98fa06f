--------------------------- MODULE ServicesProofs ---------------------------
(***************************************************************************)
(* Proofs about what agents and user-servers compute: Series for any       *)
(* series, MarketAnalysis for any bars, Signals for any plans and prices,  *)
(* Backtest for any bars and strategies; and the types of all the parts of *)
(* MCServices together.                                                    *)
(***************************************************************************)
EXTENDS MCServices, UserServerProofs, AgentProofs, WellFoundedInduction

-----------------------------------------------------------------------------
(* Induction                                                               *)

\* A set of natural numbers has a least one: what induction rests on here.
LEMMA LeastOne ==
  ASSUME NEW T \in SUBSET Nat, T # {}
  PROVE  \E n \in T : \A k \in T : n <= k
<1> DEFINE R == {ss \in Nat \X Nat : ss[1] < ss[2]}
<1>1. IsWellFoundedOn(R, Nat)
  BY NatLessThanWellFounded, Zenon DEF OpToRel
<1>2. \E n \in T : \A k \in T : ~ (<<k, n>> \in R)
  <2> HIDE DEF R
  <2> QED BY <1>1, WFMin
<1>3. PICK n \in T : \A k \in T : ~ (<<k, n>> \in R)
  BY <1>2
<1>4. ASSUME NEW k \in T PROVE n <= k
  <2>1. ~ (<<k, n>> \in R)
    BY <1>3
  <2> QED BY <2>1
<1> QED BY <1>4

\* Induction, for a set of numbers.
LEMMA Inductive ==
  ASSUME NEW S, 0 \in S, \A n \in Nat : n \in S => n + 1 \in S
  PROVE  Nat \subseteq S
<1> SUFFICES ASSUME Nat \ S # {} PROVE FALSE
  OBVIOUS
<1>1. PICK n \in Nat \ S : \A k \in Nat \ S : n <= k
  BY LeastOne
<1>2. n - 1 \in Nat /\ n - 1 \in S
  BY <1>1
<1> QED BY <1>1, <1>2

\* A series of integers has a largest entry among its first n.
LEMMA LargestOfSeries ==
  ASSUME NEW f, NEW n \in Nat \ {0}, \A i \in 1 .. n : f[i] \in Int
  PROVE  \E m \in 1 .. n : \A i \in 1 .. n : f[i] <= f[m]
<1> DEFINE S == {k \in Nat : k \in 1 .. n => \E m \in 1 .. k : \A i \in 1 .. k : f[i] <= f[m]}
<1>1. 0 \in S
  OBVIOUS
<1>2. ASSUME NEW k \in Nat, k \in S PROVE k + 1 \in S
  <2> SUFFICES ASSUME k + 1 \in 1 .. n
               PROVE  \E m \in 1 .. k + 1 : \A i \in 1 .. k + 1 : f[i] <= f[m]
    OBVIOUS
  <2>1. CASE k = 0
    BY <2>1
  <2>2. CASE k # 0
    <3>1. PICK m \in 1 .. k : \A i \in 1 .. k : f[i] <= f[m]
      BY <1>2, <2>2
    <3>2. CASE f[m] <= f[k + 1]
      BY <3>1, <3>2
    <3>3. CASE ~(f[m] <= f[k + 1])
      BY <3>1, <3>3
    <3> QED BY <3>2, <3>3
  <2> QED BY <2>1, <2>2
<1>3. n \in S
  <2> HIDE DEF S
  <2> QED BY <1>1, <1>2, Inductive
<1> QED BY <1>3

\* A finite set of natural numbers that is not empty has a largest one: the least of its bounds.
LEMMA LargestOfSet ==
  ASSUME NEW S \in SUBSET Nat, IsFiniteSet(S), S # {}
  PROVE  Max(S) \in Nat /\ \A x \in S : x <= Max(S)
<1>1. PICK n \in Nat : ExistsBijection(1 .. n, S)
  BY FS_NatBijection
<1>2. PICK f \in [1 .. n -> S] : \A x \in S : \E i \in 1 .. n : f[i] = x
  BY <1>1, Zenon DEF ExistsBijection, Bijection, Surjection
<1>3. n \in Nat \ {0} /\ \A i \in 1 .. n : f[i] \in S /\ f[i] \in Int
  <2>1. PICK x \in S : TRUE
    OBVIOUS
  <2>2. \E i \in 1 .. n : f[i] = x
    BY <1>2, <2>1
  <2>3. \A i \in 1 .. n : f[i] \in S
    BY <1>2
  <2>4. n \in Nat \ {0}
    BY <2>2
  <2>5. S \subseteq Int
    OBVIOUS
  <2>6. \A i \in 1 .. n : f[i] \in Int
    BY <2>3, <2>5, Zenon
  <2> QED BY <2>3, <2>4, <2>6
<1>4. PICK m \in 1 .. n : \A i \in 1 .. n : f[i] <= f[m]
  BY <1>3, LargestOfSeries
<1>5. f[m] \in S /\ \A x \in S : f[m] >= x
  BY <1>2, <1>3, <1>4
<1>6. Max(S) \in S /\ \A x \in S : Max(S) >= x
  BY <1>5, Zenon DEF Max
<1>7. Max(S) \in Nat
  BY <1>6
<1> QED BY <1>6, <1>7

\* A set of natural numbers that is not empty has a smallest one.
LEMMA SmallestOfSet ==
  ASSUME NEW S \in SUBSET Nat, S # {}
  PROVE  Min(S) \in Nat
<1>1. \E x \in S : \A y \in S : x <= y
  BY LeastOne
<1>2. Min(S) \in S
  BY <1>1, Zenon DEF Min
<1> QED BY <1>2

-----------------------------------------------------------------------------
(* Sums                                                                    *)

\* The element a fold takes next.
OneOf(s) == CHOOSE x \in s : TRUE
\* g is the table of the sums of f over the parts of S that are in U.
IsSums(g, f, U) ==
  g = [s \in U |-> IF s = {} THEN 0 ELSE f[OneOf(s)] + g[s \ {OneOf(s)}]]

\* A sum over a set is the entry of that set in such a table.
LEMMA SumUnfolds ==
  ASSUME NEW f, NEW S
  PROVE  SumFunctionOnSet(f, S) = (CHOOSE g : IsSums(g, f, SUBSET S))[S]
BY Zenon DEF SumFunctionOnSet, FoldFunctionOnSet, MapThenFoldSet, IsSums, OneOf

\* There is a table for the parts of a finite set: built for larger and larger parts.
LEMMA SumsExist ==
  ASSUME NEW f, NEW S, IsFiniteSet(S)
  PROVE  \E g : IsSums(g, f, SUBSET S)
<1> DEFINE Upto(n) == {s \in SUBSET S : Cardinality(s) <= n}
           L == {n \in Nat : \E g : IsSums(g, f, Upto(n))}
<1>0. \A s \in SUBSET S : IsFiniteSet(s) /\ Cardinality(s) \in Nat /\ Cardinality(s) <= Cardinality(S)
  BY FS_Subset, FS_CardinalityType
<1>1. 0 \in L
  <2>1. Upto(0) = {{}}
    BY <1>0, FS_EmptySet
  <2>2. IsSums([s \in Upto(0) |-> 0], f, Upto(0))
    BY <2>1 DEF IsSums
  <2> QED BY <2>2
<1>2. ASSUME NEW n \in Nat, n \in L PROVE n + 1 \in L
  <2>1. PICK g : IsSums(g, f, Upto(n))
    BY <1>2
  <2> DEFINE h == [s \in Upto(n + 1) |->
               IF s = {} THEN 0 ELSE f[OneOf(s)] + g[s \ {OneOf(s)}]]
  <2>2. \A s \in Upto(n) : h[s] = g[s]
    <3>1. Upto(n) \subseteq Upto(n + 1)
      BY <1>0
    <3> QED BY <2>1, <3>1, Zenon DEF IsSums
  <2>3. \A s \in Upto(n + 1) : s # {} => s \ {OneOf(s)} \in Upto(n)
    <3> SUFFICES ASSUME NEW s \in Upto(n + 1), s # {} PROVE s \ {OneOf(s)} \in Upto(n)
      OBVIOUS
    <3>1. OneOf(s) \in s
      BY DEF OneOf
    <3>2. Cardinality(s \ {OneOf(s)}) = Cardinality(s) - 1
      BY <1>0, <3>1, FS_RemoveElement
    <3> QED BY <1>0, <3>2
  <2>4. h = [s \in Upto(n + 1) |-> IF s = {} THEN 0 ELSE f[OneOf(s)] + h[s \ {OneOf(s)}]]
    <3>1. \A s \in Upto(n + 1) : s # {} => h[s \ {OneOf(s)}] = g[s \ {OneOf(s)}]
      <4> HIDE DEF h, Upto
      <4> QED BY <2>2, <2>3
    <3> QED BY <3>1, Zenon
  <2>5. IsSums(h, f, Upto(n + 1))
    <3> HIDE DEF h, Upto
    <3> QED BY <2>4 DEF IsSums
  <2> HIDE DEF h, Upto
  <2> QED BY <2>5
<1>3. Cardinality(S) \in L
  <2> HIDE DEF L
  <2> QED BY <1>0, <1>1, <1>2, Inductive
<1>4. Upto(Cardinality(S)) = SUBSET S
  BY <1>0
<1> HIDE DEF Upto
<1> QED BY <1>3, <1>4

\* The sum of finitely many numbers is of any type that has 0 and is closed under addition.
LEMMA SumType ==
  ASSUME NEW T, 0 \in T, \A x, y \in T : x + y \in T,
         NEW f, NEW S, IsFiniteSet(S), \A x \in S : f[x] \in T
  PROVE  SumFunctionOnSet(f, S) \in T
<1> DEFINE g == CHOOSE h : IsSums(h, f, SUBSET S)
           L == {n \in Nat : \A s \in SUBSET S : Cardinality(s) = n => g[s] \in T}
<1>0. \A s \in SUBSET S : IsFiniteSet(s) /\ Cardinality(s) \in Nat
  BY FS_Subset, FS_CardinalityType
<1>1. IsSums(g, f, SUBSET S)
  BY SumsExist, Zenon
<1> HIDE DEF g
<1>2. \A s \in SUBSET S : g[s] = IF s = {} THEN 0 ELSE f[OneOf(s)] + g[s \ {OneOf(s)}]
  BY <1>1, Zenon DEF IsSums
<1>3. 0 \in L
  <2>1. \A s \in SUBSET S : Cardinality(s) = 0 => s = {}
    BY <1>0, FS_EmptySet
  <2> QED BY <1>2, <2>1
<1>4. ASSUME NEW n \in Nat, n \in L PROVE n + 1 \in L
  <2> SUFFICES ASSUME NEW s \in SUBSET S, Cardinality(s) = n + 1 PROVE g[s] \in T
    OBVIOUS
  <2>1. s # {}
    BY FS_EmptySet
  <2>2. OneOf(s) \in s
    BY <2>1 DEF OneOf
  <2>3. Cardinality(s \ {OneOf(s)}) = n
    BY <1>0, <2>2, FS_RemoveElement
  <2>4. g[s \ {OneOf(s)}] \in T
    BY <1>4, <2>3
  <2>5. f[OneOf(s)] \in T
    BY <2>2
  <2>6. f[OneOf(s)] + g[s \ {OneOf(s)}] \in T
    BY <2>4, <2>5, Zenon
  <2>7. g[s] = f[OneOf(s)] + g[s \ {OneOf(s)}]
    BY <1>2, <2>1, Zenon
  <2> QED BY <2>6, <2>7, Zenon
<1>5. Cardinality(S) \in L
  <2> HIDE DEF L
  <2> QED BY <1>0, <1>3, <1>4, Inductive
<1>6. g[S] \in T
  BY <1>5
<1> QED BY <1>6, SumUnfolds DEF g

\* h is p times f and q times g.
Combines(h, p, f, q, g, S) ==
  \A x \in S : f[x] \in Int /\ g[x] \in Int /\ h[x] = p * f[x] + q * g[x]

\* Adding the tables of two functions: the sum of p f + q g is p times that of f and q times that of g.
LEMMA SumCombines ==
  ASSUME NEW S, IsFiniteSet(S), NEW p \in Int, NEW q \in Int, NEW f, NEW g, NEW h,
         Combines(h, p, f, q, g, S)
  PROVE  SumFunctionOnSet(h, S) = p * SumFunctionOnSet(f, S) + q * SumFunctionOnSet(g, S)
<1> DEFINE tf == CHOOSE t : IsSums(t, f, SUBSET S)
           tg == CHOOSE t : IsSums(t, g, SUBSET S)
           th == CHOOSE t : IsSums(t, h, SUBSET S)
           L == {n \in Nat : \A s \in SUBSET S : Cardinality(s) = n =>
                   tf[s] \in Int /\ tg[s] \in Int /\ th[s] = p * tf[s] + q * tg[s]}
<1>0. \A s \in SUBSET S : IsFiniteSet(s) /\ Cardinality(s) \in Nat
  BY FS_Subset, FS_CardinalityType
<1>1. IsSums(tf, f, SUBSET S) /\ IsSums(tg, g, SUBSET S) /\ IsSums(th, h, SUBSET S)
  BY SumsExist, Zenon
<1> HIDE DEF tf, tg, th
<1>2. \A s \in SUBSET S :
        /\ tf[s] = IF s = {} THEN 0 ELSE f[OneOf(s)] + tf[s \ {OneOf(s)}]
        /\ tg[s] = IF s = {} THEN 0 ELSE g[OneOf(s)] + tg[s \ {OneOf(s)}]
        /\ th[s] = IF s = {} THEN 0 ELSE h[OneOf(s)] + th[s \ {OneOf(s)}]
  BY <1>1, Zenon DEF IsSums
<1>3. 0 \in L
  <2>1. \A s \in SUBSET S : Cardinality(s) = 0 => s = {}
    BY <1>0, FS_EmptySet
  <2>2. tf[{}] = 0 /\ tg[{}] = 0 /\ th[{}] = 0
    BY <1>2
  <2>3. 0 = p * 0 + q * 0
    OBVIOUS
  <2>4. ASSUME NEW s \in SUBSET S, Cardinality(s) = 0
        PROVE  tf[s] \in Int /\ tg[s] \in Int /\ th[s] = p * tf[s] + q * tg[s]
    <3>1. s = {}
      BY <2>1, <2>4
    <3> QED BY <2>2, <2>3, <3>1
  <2> QED BY <2>4
<1>4. ASSUME NEW n \in Nat, n \in L PROVE n + 1 \in L
  <2> SUFFICES ASSUME NEW s \in SUBSET S, Cardinality(s) = n + 1
               PROVE tf[s] \in Int /\ tg[s] \in Int /\ th[s] = p * tf[s] + q * tg[s]
    OBVIOUS
  <2> HIDE DEF L
  <2>1. s # {}
    BY FS_EmptySet
  <2>2. OneOf(s) \in s
    BY <2>1 DEF OneOf
  <2>3. Cardinality(s \ {OneOf(s)}) = n
    <3>1. Cardinality(s \ {OneOf(s)}) = Cardinality(s) - 1
      BY <1>0, <2>2, FS_RemoveElement, Zenon
    <3> QED BY <3>1
  <2> DEFINE x == OneOf(s)
             r == s \ {OneOf(s)}
  <2>4. tf[r] \in Int /\ tg[r] \in Int /\ th[r] = p * tf[r] + q * tg[r]
    BY <1>4, <2>3 DEF L
  <2>5. f[x] \in Int /\ g[x] \in Int /\ h[x] = p * f[x] + q * g[x]
    BY <2>2, Zenon DEF Combines
  <2>6. tf[s] = f[x] + tf[r] /\ tg[s] = g[x] + tg[r] /\ th[s] = h[x] + th[r]
    BY <1>2, <2>1, Zenon
  <2> HIDE DEF x, r
  <2>7. PICK a, b, c, d \in Int : a = f[x] /\ b = tf[r] /\ c = g[x] /\ d = tg[r]
    BY <2>4, <2>5, Zenon
  <2>8. /\ (p * a + q * c) + (p * b + q * d) = p * (a + b) + q * (c + d)
        /\ a + b \in Int /\ c + d \in Int
    OBVIOUS
  <2>9. tf[s] = a + b /\ tg[s] = c + d /\ th[s] = (p * a + q * c) + (p * b + q * d)
    BY <2>4, <2>5, <2>6, <2>7, Zenon
  <2> QED BY <2>8, <2>9, Zenon
<1>5. Cardinality(S) \in L
  <2> HIDE DEF L
  <2> QED BY <1>0, <1>3, <1>4, Inductive
<1>6. th[S] = p * tf[S] + q * tg[S]
  BY <1>5
<1>7. SumFunctionOnSet(f, S) = tf[S] /\ SumFunctionOnSet(g, S) = tg[S] /\ SumFunctionOnSet(h, S) = th[S]
  BY SumUnfolds, Zenon DEF tf, tg, th
<1> QED BY <1>6, <1>7

\* What a sum is depends on its terms only.
LEMMA SumSame ==
  ASSUME NEW S, IsFiniteSet(S), NEW f, NEW h, \A x \in S : f[x] \in Int /\ h[x] = f[x]
  PROVE  SumFunctionOnSet(h, S) = SumFunctionOnSet(f, S) /\ SumFunctionOnSet(f, S) \in Int
<1>1. SumFunctionOnSet(f, S) \in Int
  BY SumType
<1>2. Combines(h, 1, f, 0, f, S)
  BY DEF Combines
<1>3. SumFunctionOnSet(h, S) = 1 * SumFunctionOnSet(f, S) + 0 * SumFunctionOnSet(f, S)
  <2>1. 1 \in Int /\ 0 \in Int
    OBVIOUS
  <2> QED BY <1>2, <2>1, SumCombines
<1> QED BY <1>1, <1>3

\* A sum of ones counts.
LEMMA SumCounts ==
  ASSUME NEW S, IsFiniteSet(S)
  PROVE  SumFunctionOnSet([x \in S |-> 1], S) = Cardinality(S)
<1> DEFINE f == [x \in S |-> 1]
           tf == CHOOSE t : IsSums(t, f, SUBSET S)
           L == {n \in Nat : \A s \in SUBSET S : Cardinality(s) = n => tf[s] = n}
<1>0. \A s \in SUBSET S : IsFiniteSet(s) /\ Cardinality(s) \in Nat
  BY FS_Subset, FS_CardinalityType
<1>1. IsSums(tf, f, SUBSET S)
  BY SumsExist, Zenon
<1> HIDE DEF tf, f
<1>2. \A s \in SUBSET S : tf[s] = IF s = {} THEN 0 ELSE f[OneOf(s)] + tf[s \ {OneOf(s)}]
  BY <1>1, Zenon DEF IsSums
<1>3. 0 \in L
  <2>1. \A s \in SUBSET S : Cardinality(s) = 0 => s = {}
    BY <1>0, FS_EmptySet
  <2> QED BY <1>2, <2>1
<1>4. ASSUME NEW n \in Nat, n \in L PROVE n + 1 \in L
  <2> SUFFICES ASSUME NEW s \in SUBSET S, Cardinality(s) = n + 1 PROVE tf[s] = n + 1
    OBVIOUS
  <2> HIDE DEF L
  <2>1. s # {}
    BY FS_EmptySet
  <2>2. OneOf(s) \in s
    BY <2>1 DEF OneOf
  <2>3. Cardinality(s \ {OneOf(s)}) = n
    <3>1. Cardinality(s \ {OneOf(s)}) = Cardinality(s) - 1
      BY <1>0, <2>2, FS_RemoveElement, Zenon
    <3> QED BY <3>1
  <2>4. tf[s \ {OneOf(s)}] = n
    BY <1>4, <2>3 DEF L
  <2>5. f[OneOf(s)] = 1
    BY <2>2 DEF f
  <2>6. tf[s] = f[OneOf(s)] + tf[s \ {OneOf(s)}]
    BY <1>2, <2>1, Zenon
  <2> QED BY <2>4, <2>5, <2>6
<1>5. Cardinality(S) \in L
  <2> HIDE DEF L
  <2> QED BY <1>0, <1>3, <1>4, Inductive
<1>6. tf[S] = Cardinality(S)
  BY <1>5
<1>7. SumFunctionOnSet(f, S) = tf[S]
  BY SumUnfolds, Zenon DEF tf
<1> QED BY <1>6, <1>7 DEF f

\* A sum whose terms are at most c is at most c times their number.
LEMMA SumAtMost ==
  ASSUME NEW S, IsFiniteSet(S), NEW c \in Int, NEW f, \A x \in S : f[x] \in Int /\ f[x] <= c
  PROVE  SumFunctionOnSet(f, S) \in Int /\ SumFunctionOnSet(f, S) <= c * Cardinality(S)
<1> DEFINE one == [x \in S |-> 1]
           gap == [x \in S |-> c - f[x]]
<1>1. SumFunctionOnSet(one, S) = Cardinality(S) /\ Cardinality(S) \in Nat
  BY SumCounts, FS_CardinalityType
<1>2. SumFunctionOnSet(gap, S) \in Nat
  <2>1. \A x \in S : gap[x] \in Nat
    OBVIOUS
  <2>2. 0 \in Nat /\ \A x, y \in Nat : x + y \in Nat
    OBVIOUS
  <2> HIDE DEF gap
  <2> QED BY <2>1, <2>2, SumType
<1>3. SumFunctionOnSet(gap, S) = c * SumFunctionOnSet(one, S) + (-1) * SumFunctionOnSet(f, S)
  <2>1. Combines(gap, c, one, -1, f, S)
    BY DEF Combines
  <2>2. -1 \in Int
    OBVIOUS
  <2> HIDE DEF gap, one
  <2> QED BY <2>1, <2>2, SumCombines
<1>4. SumFunctionOnSet(f, S) \in Int
  BY SumSame
<1>5. c * Cardinality(S) \in Int
  BY <1>1
<1> HIDE DEF gap, one
<1> QED BY <1>1, <1>2, <1>3, <1>4, <1>5
\* The table of a larger set has the same sums.
LEMMA SumsAgree ==
  ASSUME NEW f, NEW S, IsFiniteSet(S), NEW t, IsSums(t, f, SUBSET S), NEW r \in SUBSET S
  PROVE  SumFunctionOnSet(f, r) = t[r]
<1> DEFINE u == CHOOSE v : IsSums(v, f, SUBSET r)
           L == {n \in Nat : \A s \in SUBSET r : Cardinality(s) = n => u[s] = t[s]}
<1>0. IsFiniteSet(r) /\ \A s \in SUBSET r : IsFiniteSet(s) /\ Cardinality(s) \in Nat
  BY FS_Subset, FS_CardinalityType
<1>1. IsSums(u, f, SUBSET r)
  BY <1>0, SumsExist, Zenon
<1> HIDE DEF u
<1>2. \A s \in SUBSET r :
        /\ u[s] = IF s = {} THEN 0 ELSE f[OneOf(s)] + u[s \ {OneOf(s)}]
        /\ t[s] = IF s = {} THEN 0 ELSE f[OneOf(s)] + t[s \ {OneOf(s)}]
  <2>1. SUBSET r \subseteq SUBSET S
    OBVIOUS
  <2> QED BY <1>1, <2>1, Zenon DEF IsSums
<1>3. 0 \in L
  <2>1. \A s \in SUBSET r : Cardinality(s) = 0 => s = {}
    BY <1>0, FS_EmptySet
  <2> QED BY <1>2, <2>1
<1>4. ASSUME NEW n \in Nat, n \in L PROVE n + 1 \in L
  <2> SUFFICES ASSUME NEW s \in SUBSET r, Cardinality(s) = n + 1 PROVE u[s] = t[s]
    OBVIOUS
  <2>1. s # {}
    BY FS_EmptySet
  <2>2. OneOf(s) \in s
    BY <2>1 DEF OneOf
  <2>3. Cardinality(s \ {OneOf(s)}) = n
    <3>1. Cardinality(s \ {OneOf(s)}) = Cardinality(s) - 1
      BY <1>0, <2>2, FS_RemoveElement, Zenon
    <3> QED BY <3>1
  <2>4. u[s \ {OneOf(s)}] = t[s \ {OneOf(s)}]
    BY <1>4, <2>3
  <2> QED BY <1>2, <2>1, <2>4, Zenon
<1>5. Cardinality(r) \in L
  <2> HIDE DEF L
  <2> QED BY <1>0, <1>3, <1>4, Inductive
<1>6. u[r] = t[r]
  BY <1>5
<1> QED BY <1>6, SumUnfolds DEF u

\* Any element can be taken out of a sum.
LEMMA SumApart ==
  ASSUME NEW S, IsFiniteSet(S), NEW f, \A x \in S : f[x] \in Int, NEW x \in S
  PROVE  SumFunctionOnSet(f, S) = SumFunctionOnSet(f, S \ {x}) + f[x]
<1> DEFINE t == CHOOSE v : IsSums(v, f, SUBSET S)
           L == {n \in Nat : \A s \in SUBSET S : Cardinality(s) = n =>
                   t[s] \in Int /\ \A y \in s : t[s] = f[y] + t[s \ {y}]}
<1>0. \A s \in SUBSET S : IsFiniteSet(s) /\ Cardinality(s) \in Nat
  BY FS_Subset, FS_CardinalityType
<1>1. IsSums(t, f, SUBSET S)
  BY SumsExist, Zenon
<1> HIDE DEF t
<1>2. \A s \in SUBSET S : t[s] = IF s = {} THEN 0 ELSE f[OneOf(s)] + t[s \ {OneOf(s)}]
  BY <1>1, Zenon DEF IsSums
<1>3. 0 \in L
  <2>1. \A s \in SUBSET S : Cardinality(s) = 0 => s = {}
    BY <1>0, FS_EmptySet
  <2>2. t[{}] = 0
    BY <1>2
  <2> QED BY <2>1, <2>2
<1>4. ASSUME NEW n \in Nat, n \in L PROVE n + 1 \in L
  <2> SUFFICES ASSUME NEW s \in SUBSET S, Cardinality(s) = n + 1
               PROVE  t[s] \in Int /\ \A y \in s : t[s] = f[y] + t[s \ {y}]
    OBVIOUS
  <2> DEFINE z == OneOf(s)
  <2>1. s # {}
    BY FS_EmptySet
  <2>2. z \in s /\ f[z] \in Int
    BY <2>1 DEF OneOf
  <2>3. \A y \in s : Cardinality(s \ {y}) = n
    <3>1. \A y \in s : Cardinality(s \ {y}) = Cardinality(s) - 1
      BY <1>0, FS_RemoveElement, Zenon
    <3> QED BY <3>1
  <2>4. t[s] = f[z] + t[s \ {z}]
    BY <1>2, <2>1, Zenon
  <2>5. \A y \in s : t[s \ {y}] \in Int /\ \A w \in s \ {y} : t[s \ {y}] = f[w] + t[(s \ {y}) \ {w}]
    BY <1>4, <2>3
  <2> HIDE DEF z, L
  <2>6. ASSUME NEW y \in s PROVE t[s] = f[y] + t[s \ {y}]
    <3>1. CASE y = z
      BY <2>4, <3>1
    <3>2. CASE y # z
      <4>1. t[s \ {z}] = f[y] + t[(s \ {z}) \ {y}]
        BY <2>2, <2>5, <3>2
      <4>2. t[s \ {y}] = f[z] + t[(s \ {y}) \ {z}]
        BY <2>2, <2>5, <3>2
      <4>3. (s \ {z}) \ {y} = (s \ {y}) \ {z}
        OBVIOUS
      <4>4. t[(s \ {y}) \ {z}] \in Int
        <5>1. (s \ {y}) \ {z} \in SUBSET S
          OBVIOUS
        <5>2. Cardinality((s \ {y}) \ {z}) = n - 1 /\ n - 1 \in Nat
          <6>1. Cardinality((s \ {y}) \ {z}) = Cardinality(s \ {y}) - 1
            BY <1>0, <2>2, <3>2, FS_RemoveElement
          <6> QED BY <1>0, <2>3, <5>1, <6>1
        <5> DEFINE q == (s \ {y}) \ {z}
        <5>3. IsSums(t, f, SUBSET S) /\ IsFiniteSet(q) /\ q \in SUBSET S
          BY <1>0, <1>1, <5>1
        <5>4. SumFunctionOnSet(f, q) = t[q]
          <6> HIDE DEF q
          <6> QED BY <5>3, SumsAgree
        <5>5. SumFunctionOnSet(f, q) \in Int
          <6>1. 0 \in Int /\ \A a, b \in Int : a + b \in Int
            OBVIOUS
          <6>2. \A a \in q : f[a] \in Int
            BY <5>3
          <6> HIDE DEF q
          <6> QED BY <5>3, <6>1, <6>2, SumType
        <5> QED BY <5>4, <5>5
      <4>5. f[y] \in Int /\ f[z] \in Int
        BY <2>2
      <4>6. \A a, b, c \in Int : a + (b + c) = b + (a + c)
        OBVIOUS
      <4>7. f[z] + (f[y] + t[(s \ {y}) \ {z}]) = f[y] + (f[z] + t[(s \ {y}) \ {z}])
        BY <4>4, <4>5, <4>6, Zenon
      <4> QED BY <2>4, <4>1, <4>2, <4>3, <4>7, Zenon
    <3> QED BY <3>1, <3>2
  <2>7. t[s] \in Int
    <3>1. PICK i, j \in Int : i = f[z] /\ j = t[s \ {z}]
      BY <2>2, <2>5, Zenon
    <3>2. i + j \in Int
      OBVIOUS
    <3> QED BY <2>4, <3>1, <3>2, Zenon
  <2> QED BY <2>6, <2>7
<1>5. Cardinality(S) \in L
  <2> HIDE DEF L
  <2> QED BY <1>0, <1>3, <1>4, Inductive
<1>6. t[S] = f[x] + t[S \ {x}]
  BY <1>5
<1>7. S \ {x} \in SUBSET S /\ S \in SUBSET S
  OBVIOUS
<1>8. SumFunctionOnSet(f, S) = t[S] /\ SumFunctionOnSet(f, S \ {x}) = t[S \ {x}]
  BY <1>1, <1>7, SumsAgree
<1>9. t[S \ {x}] \in Int
  <2>1. IsFiniteSet(S \ {x}) /\ \A y \in S \ {x} : f[y] \in Int
    BY <1>0, <1>7
  <2> QED BY <1>8, <2>1, SumSame
<1> QED BY <1>6, <1>8, <1>9

\* The sum over an interval, one number at a time.
LEMMA SumLast ==
  ASSUME NEW a \in Int, NEW b \in Int, a <= b + 1, NEW f, \A i \in a .. b + 1 : f[i] \in Int
  PROVE  SumFunctionOnSet(f, a .. b + 1) = SumFunctionOnSet(f, a .. b) + f[b + 1]
<1>1. IsFiniteSet(a .. b + 1) /\ b + 1 \in a .. b + 1
  BY FS_Interval
<1>2. (a .. b + 1) \ {b + 1} = a .. b
  OBVIOUS
<1> QED BY <1>1, <1>2, SumApart

\* A sum of nothing.
LEMMA SumOfNone == ASSUME NEW f PROVE SumFunctionOnSet(f, {}) = 0
<1>1. IsFiniteSet({}) /\ 0 \in {0} /\ \A x, y \in {0} : x + y \in {0}
  BY FS_EmptySet
<1>2. \A x \in {} : f[x] \in {0}
  OBVIOUS
<1>3. SumFunctionOnSet(f, {}) \in {0}
  BY <1>1, <1>2, SumType
<1> QED BY <1>3

\* t[k] is the sum of f over the k numbers from a on.
PartialSums(t, f, a, n) ==
  t[0] = 0 /\ \A k \in 1 .. n : f[a + k - 1] \in Int /\ t[k] = t[k - 1] + f[a + k - 1]

\* A sum over an interval is the last entry of the table of its partial sums.
LEMMA SumIs ==
  ASSUME NEW a \in Int, NEW n \in Nat, NEW f, NEW t, PartialSums(t, f, a, n)
  PROVE  SumFunctionOnSet(f, a .. a + n - 1) = t[n]
<1>0. \A i \in a .. a + n - 1 : f[i] \in Int
  <2> SUFFICES ASSUME NEW i \in a .. a + n - 1 PROVE f[i] \in Int
    OBVIOUS
  <2>1. i - a + 1 \in 1 .. n /\ a + (i - a + 1) - 1 = i
    OBVIOUS
  <2>2. f[a + (i - a + 1) - 1] \in Int
    BY <2>1, Zenon DEF PartialSums
  <2> QED BY <2>1, <2>2
<1> DEFINE L == {k \in Nat : k <= n => SumFunctionOnSet(f, a .. a + k - 1) = t[k]}
<1>1. 0 \in L
  <2>1. a .. a + 0 - 1 = {}
    OBVIOUS
  <2>2. SumFunctionOnSet(f, {}) = 0
    BY SumOfNone
  <2>3. t[0] = 0
    BY Zenon DEF PartialSums
  <2> QED BY <2>1, <2>2, <2>3
<1>2. ASSUME NEW k \in Nat, k \in L PROVE k + 1 \in L
  <2> SUFFICES ASSUME k + 1 <= n PROVE SumFunctionOnSet(f, a .. a + (k + 1) - 1) = t[k + 1]
    OBVIOUS
  <2> DEFINE b == a + k - 1
  <2>1. b \in Int /\ a <= b + 1 /\ b + 1 = a + (k + 1) - 1 /\ a .. b + 1 \subseteq a .. a + n - 1
    OBVIOUS
  <2>2. SumFunctionOnSet(f, a .. b) = t[k]
    BY <1>2
  <2>3. t[k + 1] = t[k] + f[b + 1]
    <3>1. k + 1 \in 1 .. n /\ (k + 1) - 1 = k
      OBVIOUS
    <3>2. t[k + 1] = t[(k + 1) - 1] + f[a + (k + 1) - 1]
      BY <3>1, Zenon DEF PartialSums
    <3> QED BY <2>1, <3>1, <3>2
  <2> HIDE DEF b
  <2>4. SumFunctionOnSet(f, a .. b + 1) = SumFunctionOnSet(f, a .. b) + f[b + 1]
    <3>1. \A i \in a .. b + 1 : f[i] \in Int
      BY <1>0, <2>1
    <3> QED BY <2>1, <3>1, SumLast
  <2> QED BY <2>1, <2>2, <2>3, <2>4, Zenon
<1>3. n \in L
  <2> HIDE DEF L
  <2> QED BY <1>1, <1>2, Inductive
<1> QED BY <1>3

-----------------------------------------------------------------------------
(* Sums of windows (Series)                                                *)

\* The sums of the first k entries of a series.
SumsOf(s) == [k \in 0 .. Len(s) |-> SumFunctionOnSet([i \in 1 .. Len(s) |-> s[i]], 1 .. k)]

\* The table of the partial sums of a series, from one entry to the next.
LEMMA SumsUnfold ==
  ASSUME NEW s \in Seq(Int)
  PROVE  /\ SumsOf(s)[0] = 0
         /\ \A k \in 0 .. Len(s) : SumsOf(s)[k] \in Int
         /\ \A k \in 1 .. Len(s) : SumsOf(s)[k] = SumsOf(s)[k - 1] + s[k]
<1> DEFINE f == [i \in 1 .. Len(s) |-> s[i]]
<1>1. \A i \in 1 .. Len(s) : f[i] = s[i] /\ f[i] \in Int
  OBVIOUS
<1> HIDE DEF f
<1>2. \A k \in 0 .. Len(s) : SumsOf(s)[k] = SumFunctionOnSet(f, 1 .. k)
  BY Zenon DEF SumsOf, f
<1>3. SumFunctionOnSet(f, 1 .. 0) = 0
  <2>1. 1 .. 0 = {}
    OBVIOUS
  <2> QED BY <2>1, SumOfNone
<1>4. ASSUME NEW k \in 0 .. Len(s) PROVE SumFunctionOnSet(f, 1 .. k) \in Int
  <2>1. IsFiniteSet(1 .. k) /\ \A i \in 1 .. k : f[i] \in Int
    BY <1>1, FS_Interval
  <2> QED BY <2>1, SumSame
<1>5. ASSUME NEW k \in 1 .. Len(s)
      PROVE  SumFunctionOnSet(f, 1 .. k) = SumFunctionOnSet(f, 1 .. k - 1) + s[k]
  <2>1. 1 \in Int /\ k - 1 \in Int /\ 1 <= (k - 1) + 1 /\ (k - 1) + 1 = k
        /\ \A i \in 1 .. (k - 1) + 1 : f[i] \in Int
    BY <1>1
  <2>2. SumFunctionOnSet(f, 1 .. (k - 1) + 1) = SumFunctionOnSet(f, 1 .. k - 1) + f[(k - 1) + 1]
    BY <2>1, SumLast
  <2> QED BY <1>1, <2>1, <2>2
<1>6. \A k \in 1 .. Len(s) : k \in 0 .. Len(s) /\ k - 1 \in 0 .. Len(s)
  OBVIOUS
<1>7. 0 \in 0 .. Len(s)
  OBVIOUS
<1> QED BY <1>2, <1>3, <1>4, <1>5, <1>6, <1>7

\* The sum of a series is the last entry of any table of its partial sums.
LEMMA SumOfIs ==
  ASSUME NEW w \in Seq(Int), NEW t, PartialSums(t, w, 1, Len(w))
  PROVE  SumOf(w) = t[Len(w)]
<1> DEFINE f == [i \in 1 .. Len(w) |-> w[i]]
<1>1. SumOf(w) = SumFunctionOnSet(f, 1 .. Len(w))
  BY Zenon DEF SumOf, Total, f
<1>2. Len(w) \in Nat /\ \A i \in 1 .. Len(w) : f[i] \in Int /\ f[i] = w[i]
  OBVIOUS
<1> HIDE DEF f
<1>3. PartialSums(t, f, 1, Len(w))
  <2>1. \A k \in 1 .. Len(w) : 1 + k - 1 = k
    OBVIOUS
  <2> QED BY <1>2, <2>1, Zenon DEF PartialSums
<1>4. 1 \in Int /\ 1 .. 1 + Len(w) - 1 = 1 .. Len(w)
  BY <1>2
<1>5. SumFunctionOnSet(f, 1 .. 1 + Len(w) - 1) = t[Len(w)]
  <2>1. Len(w) \in Nat
    BY <1>2
  <2> QED BY <1>3, <1>4, <2>1, SumIs
<1> QED BY <1>1, <1>4, <1>5, Zenon

\* A part of a series, entry by entry.
LEMMA PartIs ==
  ASSUME NEW B, NEW s \in Seq(B), NEW a \in 1 .. Len(s) + 1, NEW b \in a - 1 .. Len(s)
  PROVE  /\ SubSeq(s, a, b) \in Seq(B) /\ Len(SubSeq(s, a, b)) = b - a + 1
         /\ \A i \in 1 .. b - a + 1 : SubSeq(s, a, b)[i] = s[a + i - 1]
<1>1. Len(s) \in Nat /\ a \in Nat /\ b \in Nat /\ \A i \in a .. b : i \in 1 .. Len(s) /\ s[i] \in B
  OBVIOUS
<1>2. /\ SubSeq(s, a, b) \in Seq(B)
      /\ Len(SubSeq(s, a, b)) = IF a <= b THEN b - a + 1 ELSE 0
      /\ \A i \in 1 .. (b - a + 1) : SubSeq(s, a, b)[i] = s[a + i - 1]
  BY <1>1, SubSeqProperties
<1> QED BY <1>1, <1>2

\* The sum of a part is the difference of two partial sums.
LEMMA SumOfPart ==
  ASSUME NEW s \in Seq(Int), NEW a \in 1 .. Len(s) + 1, NEW b \in a - 1 .. Len(s)
  PROVE  /\ SumOf(SubSeq(s, a, b)) = SumsOf(s)[b] - SumsOf(s)[a - 1]
         /\ SumOf(SubSeq(s, a, b)) \in Int
<1> DEFINE w == SubSeq(s, a, b)
           S == SumsOf(s)
           t == [k \in 0 .. b - a + 1 |-> S[a - 1 + k] - S[a - 1]]
<1>1. w \in Seq(Int) /\ Len(w) = b - a + 1 /\ \A i \in 1 .. b - a + 1 : w[i] = s[a + i - 1]
  BY PartIs
<1>2. /\ \A k \in 0 .. Len(s) : S[k] \in Int
      /\ \A k \in 1 .. Len(s) : S[k] = S[k - 1] + s[k]
  BY SumsUnfold
<1> HIDE DEF w, S
<1>3. t[0] = 0 /\ t[b - a + 1] = S[b] - S[a - 1] /\ S[b] - S[a - 1] \in Int
  <2>1. 0 \in 0 .. b - a + 1 /\ b - a + 1 \in 0 .. b - a + 1 /\ a - 1 + 0 = a - 1
        /\ a - 1 + (b - a + 1) = b /\ b \in 0 .. Len(s) /\ a - 1 \in 0 .. Len(s)
    OBVIOUS
  <2>2. S[b] \in Int /\ S[a - 1] \in Int
    BY <1>2, <2>1
  <2> QED BY <2>1, <2>2
<1>4. ASSUME NEW k \in 1 .. b - a + 1 PROVE t[k] = t[k - 1] + w[k]
  <2>1. a - 1 + k \in 1 .. Len(s) /\ a - 1 + k - 1 \in 0 .. Len(s) /\ a - 1 \in 0 .. Len(s)
        /\ a - 1 + (k - 1) = a - 1 + k - 1 /\ a + k - 1 = a - 1 + k
    OBVIOUS
  <2>2. S[a - 1 + k] = S[a - 1 + k - 1] + s[a - 1 + k]
    BY <1>2, <2>1
  <2>3. t[k] = S[a - 1 + k] - S[a - 1] /\ t[k - 1] = S[a - 1 + k - 1] - S[a - 1]
    BY <2>1
  <2>4. w[k] = s[a - 1 + k] /\ s[a - 1 + k] \in Int
    <3>1. w[k] = s[a + k - 1]
      BY <1>1, Zenon
    <3>2. s[a - 1 + k] \in Int
      BY <2>1
    <3> QED BY <2>1, <3>1, <3>2, Zenon
  <2>5. S[a - 1 + k - 1] \in Int /\ S[a - 1] \in Int
    BY <1>2, <2>1
  <2> HIDE DEF t
  <2>6. PICK x, y, z \in Int : x = S[a - 1 + k - 1] /\ y = S[a - 1] /\ z = s[a - 1 + k]
    BY <2>4, <2>5, Zenon
  <2>7. (x + z) - y = (x - y) + z
    OBVIOUS
  <2> QED BY <2>2, <2>3, <2>4, <2>6, <2>7, Zenon
<1>5. SumOf(w) = t[Len(w)]
  <2> HIDE DEF t
  <2>1. \A k \in 1 .. b - a + 1 : 1 + k - 1 = k /\ w[k] \in Int
    BY <1>1
  <2>2. PartialSums(t, w, 1, Len(w))
    BY <1>1, <1>3, <1>4, <2>1, Zenon DEF PartialSums
  <2> QED BY <1>1, <2>2, SumOfIs
<1> QED BY <1>1, <1>3, <1>5 DEF w, S

\* What grows by at most c at a time, n times, and by at least c.
LEMMA GrowsAtMost ==
  ASSUME NEW n \in Nat, NEW c \in Int, NEW t, \A k \in 0 .. n : t[k] \in Int,
         \A k \in 1 .. n : t[k] <= t[k - 1] + c
  PROVE  t[n] <= t[0] + n * c
<1> DEFINE L == {k \in Nat : k <= n => t[k] <= t[0] + k * c}
<1>1. 0 \in L
  OBVIOUS
<1>2. ASSUME NEW k \in Nat, k \in L PROVE k + 1 \in L
  <2> SUFFICES ASSUME k + 1 <= n PROVE t[k + 1] <= t[0] + (k + 1) * c
    OBVIOUS
  <2>1. t[k] <= t[0] + k * c
    BY <1>2
  <2>2. t[k + 1] <= t[k] + c /\ t[k + 1] \in Int /\ t[k] \in Int /\ t[0] \in Int
    <3>1. k + 1 \in 1 .. n /\ (k + 1) - 1 = k /\ k \in 0 .. n /\ k + 1 \in 0 .. n /\ 0 \in 0 .. n
      OBVIOUS
    <3> QED BY <3>1
  <2>3. (k + 1) * c = k * c + c /\ k * c \in Int
    OBVIOUS
  <2> HIDE DEF L
  <2> QED BY <2>1, <2>2, <2>3
<1>3. n \in L
  <2> HIDE DEF L
  <2> QED BY <1>1, <1>2, Inductive
<1> QED BY <1>3

\* The mean of a part of a series is within the bounds of its entries.
LEMMA PartBounds ==
  ASSUME NEW s \in Seq(Int), NEW a \in 0 .. Len(s), NEW b \in a .. Len(s), NEW c \in Int
  PROVE  /\ (\A i \in a + 1 .. b : s[i] <= c) => SumsOf(s)[b] - SumsOf(s)[a] <= (b - a) * c
         /\ (\A i \in a + 1 .. b : s[i] >= c) => SumsOf(s)[b] - SumsOf(s)[a] >= (b - a) * c
<1> DEFINE S == SumsOf(s)
           n == b - a
           up == [k \in 0 .. n |-> S[a + k]]
           down == [k \in 0 .. n |-> 0 - S[a + k]]
<1>1. /\ \A k \in 0 .. Len(s) : S[k] \in Int
      /\ \A k \in 1 .. Len(s) : S[k] = S[k - 1] + s[k]
  BY SumsUnfold
<1> HIDE DEF S
<1>2. n \in Nat /\ \A k \in 0 .. n : a + k \in 0 .. Len(s)
  OBVIOUS
<1>3. \A k \in 1 .. n : /\ S[a + k] = S[a + (k - 1)] + s[a + k] /\ s[a + k] \in Int
                        /\ S[a + (k - 1)] \in Int /\ a + k \in a + 1 .. b
  <2> SUFFICES ASSUME NEW k \in 1 .. n
               PROVE  /\ S[a + k] = S[a + (k - 1)] + s[a + k] /\ s[a + k] \in Int
                      /\ S[a + (k - 1)] \in Int /\ a + k \in a + 1 .. b
    OBVIOUS
  <2>1. a + k \in 1 .. Len(s) /\ (a + k) - 1 = a + (k - 1) /\ (a + k) - 1 \in 0 .. Len(s)
    OBVIOUS
  <2> QED BY <1>1, <2>1
<1>4. ASSUME \A i \in a + 1 .. b : s[i] <= c PROVE S[b] - S[a] <= n * c
  <2>1. \A k \in 0 .. n : up[k] \in Int
    BY <1>1, <1>2
  <2>2. ASSUME NEW k \in 1 .. n PROVE up[k] <= up[k - 1] + c
    <3>1. k \in 0 .. n /\ k - 1 \in 0 .. n
      OBVIOUS
    <3>2. up[k] = S[a + k] /\ up[k - 1] = S[a + (k - 1)]
      BY <3>1, Zenon
    <3> HIDE DEF up, n
    <3>3. PICK x, y \in Int : x = S[a + (k - 1)] /\ y = s[a + k]
      BY <1>3, Zenon
    <3>4. S[a + k] = x + y /\ y <= c
      BY <1>3, <1>4, <3>3, Zenon
    <3>5. x + y <= x + c
      BY <3>4
    <3> QED BY <3>2, <3>3, <3>4, <3>5, Zenon
  <2>3. up[0] = S[a] /\ up[n] = S[b]
    BY <1>2
  <2>4. S[a] \in Int /\ S[b] \in Int /\ n * c \in Int
    BY <1>1, <1>2
  <2> HIDE DEF up, n
  <2>5. up[n] <= up[0] + n * c
    BY <1>2, <2>1, <2>2, GrowsAtMost
  <2> QED BY <2>3, <2>4, <2>5
<1>5. ASSUME \A i \in a + 1 .. b : s[i] >= c PROVE S[b] - S[a] >= n * c
  <2>1. ASSUME NEW k \in 0 .. n PROVE down[k] \in Int
    <3>1. PICK x \in Int : x = S[a + k]
      BY <1>1, <1>2
    <3>2. 0 - x \in Int
      OBVIOUS
    <3> QED BY <3>1, <3>2, Zenon
  <2>2. \A k \in 1 .. n : down[k] <= down[k - 1] + (0 - c)
    <3> SUFFICES ASSUME NEW k \in 1 .. n PROVE down[k] <= down[k - 1] + (0 - c)
      OBVIOUS
    <3>1. k \in 0 .. n /\ k - 1 \in 0 .. n
      OBVIOUS
    <3>2. down[k] = 0 - S[a + k] /\ down[k - 1] = 0 - S[a + (k - 1)]
      BY <3>1, Zenon
    <3> HIDE DEF down, n
    <3>3. PICK x, y \in Int : x = S[a + (k - 1)] /\ y = s[a + k]
      BY <1>3, Zenon
    <3>4. S[a + k] = x + y /\ y >= c
      BY <1>3, <1>5, <3>3, Zenon
    <3>5. 0 - (x + y) <= (0 - x) + (0 - c)
      BY <3>4
    <3> QED BY <3>2, <3>3, <3>4, <3>5, Zenon
  <2>3. down[0] = 0 - S[a] /\ down[n] = 0 - S[b]
    BY <1>2
  <2>4. S[a] \in Int /\ S[b] \in Int /\ n * (0 - c) = 0 - n * c /\ n * c \in Int
    BY <1>1, <1>2
  <2> HIDE DEF down, n
  <2>5. down[n] <= down[0] + n * (0 - c)
    <3>1. 0 - c \in Int
      OBVIOUS
    <3> QED BY <1>2, <2>1, <2>2, <3>1, GrowsAtMost
  <2> QED BY <2>3, <2>4, <2>5
<1> QED BY <1>4, <1>5 DEF S

-----------------------------------------------------------------------------
(* Windows of candles, and their range (Series)                            *)

Candle == [high : Nat, low : Nat, close : Nat]

LEMMA CandlesHave ==
  ASSUME NEW s \in Seq(Candle)
  PROVE  \A i \in 1 .. Len(s) : s[i].high \in Nat /\ s[i].low \in Nat /\ s[i].close \in Nat
<1>1. \A i \in 1 .. Len(s) : s[i] \in Candle
  OBVIOUS
<1>2. \A c \in Candle : c.high \in Nat /\ c.low \in Nat /\ c.close \in Nat
  BY DEF Candle
<1> QED BY <1>1, <1>2

LEMMA WindowIs ==
  ASSUME NEW B, NEW s \in Seq(B), NEW n \in Nat
  PROVE  /\ LastN(s, n) \in Seq(B)
         /\ Len(LastN(s, n)) = IF n > Len(s) THEN Len(s) ELSE n
         /\ n <= Len(s) => \A i \in 1 .. n : LastN(s, n)[i] = s[Len(s) - n + i]
<1> DEFINE from == (IF n > Len(s) THEN 0 ELSE Len(s) - n) + 1
<1>1. Len(s) \in Nat /\ from \in 1 .. Len(s) + 1
  OBVIOUS
<1>2. \A i \in from .. Len(s) : i \in 1 .. Len(s) /\ s[i] \in B
  BY <1>1
<1> HIDE DEF from
<1>3. LastN(s, n) = SubSeq(s, from, Len(s))
  BY DEF LastN, from
<1>4. /\ SubSeq(s, from, Len(s)) \in Seq(B)
      /\ Len(SubSeq(s, from, Len(s))) = IF from <= Len(s) THEN Len(s) - from + 1 ELSE 0
      /\ \A i \in 1 .. (Len(s) - from + 1) : SubSeq(s, from, Len(s))[i] = s[from + i - 1]
  BY <1>1, <1>2, SubSeqProperties
<1>5. CASE n > Len(s)
  BY <1>1, <1>3, <1>4, <1>5 DEF from
<1>6. CASE ~(n > Len(s))
  <2>1. from = Len(s) - n + 1
    BY <1>6 DEF from
  <2>2. Len(LastN(s, n)) = n
    BY <1>1, <1>3, <1>4, <1>6, <2>1
  <2>3. \A i \in 1 .. n : i \in 1 .. (Len(s) - from + 1) /\ from + i - 1 = Len(s) - n + i
    BY <1>1, <1>6, <2>1
  <2> QED BY <1>1, <1>3, <1>4, <1>6, <2>2, <2>3
<1> QED BY <1>5, <1>6

\* A window has a highest high and a lowest low.
LEMMA ExtremesOf ==
  ASSUME NEW w \in Seq(Candle), Len(w) > 0
  PROVE  /\ \E i \in 1 .. Len(w) : Highest(w) = w[i].high
         /\ \A i \in 1 .. Len(w) : w[i].high <= Highest(w)
         /\ \E i \in 1 .. Len(w) : Lowest(w) = w[i].low
         /\ \A i \in 1 .. Len(w) : Lowest(w) <= w[i].low
         /\ Highest(w) \in Nat /\ Lowest(w) \in Nat
<1> DEFINE n == Len(w)
           H == {w[i].high : i \in DOMAIN w}
           L == {w[i].low : i \in DOMAIN w}
           up == [i \in 1 .. n |-> w[i].high]
           down == [i \in 1 .. n |-> 0 - w[i].low]
<1>1. n \in Nat \ {0} /\ DOMAIN w = 1 .. n /\ \A i \in 1 .. n : w[i].high \in Nat /\ w[i].low \in Nat
  BY CandlesHave
<1>2. PICK m \in 1 .. n : \A i \in 1 .. n : up[i] <= up[m]
  <2>1. \A i \in 1 .. n : up[i] \in Int
    BY <1>1
  <2> HIDE DEF n, up
  <2> QED BY <1>1, <2>1, LargestOfSeries
<1>3. PICK k \in 1 .. n : \A i \in 1 .. n : down[i] <= down[k]
  <2>1. \A i \in 1 .. n : down[i] \in Int
    BY <1>1
  <2> HIDE DEF n, down
  <2> QED BY <1>1, <2>1, LargestOfSeries
<1>4. w[m].high \in H /\ \A y \in H : w[m].high >= y
  BY <1>1, <1>2
<1>5. w[k].low \in L /\ \A y \in L : w[k].low =< y
  <2>1. \A i \in 1 .. n : w[k].low <= w[i].low
    <3>1. \A i \in 1 .. n : 0 - w[i].low <= 0 - w[k].low
      BY <1>3
    <3> HIDE DEF n
    <3> QED BY <1>1, <3>1
  <2> QED BY <1>1, <2>1
<1>6. Max(H) \in H /\ \A y \in H : Max(H) >= y
  <2> HIDE DEF H
  <2> QED BY <1>4, Zenon DEF Max
<1>7. Min(L) \in L /\ \A y \in L : Min(L) =< y
  <2> HIDE DEF L
  <2> QED BY <1>5, Zenon DEF Min
<1>8. Highest(w) = Max(H) /\ Lowest(w) = Min(L)
  BY DEF Highest, Lowest
<1>9. \A i \in 1 .. n : w[i].high \in H /\ w[i].low \in L
  BY <1>1
<1>10. (\E i \in 1 .. n : Max(H) = w[i].high) /\ (\E i \in 1 .. n : Min(L) = w[i].low)
  BY <1>1, <1>6, <1>7
<1>11. \A i \in 1 .. n : w[i].high <= Max(H) /\ Min(L) <= w[i].low
  <2> HIDE DEF H, L
  <2> QED BY <1>1, <1>6, <1>7, <1>9, <1>10
<1> QED BY <1>1, <1>8, <1>10, <1>11

\* The range of the last bars is within the range of more of them.
LEMMA RangeNarrows ==
  ASSUME NEW s \in Seq(Candle), NEW m \in Nat \ {0}, NEW n \in Nat, m <= n, n <= Len(s)
  PROVE  /\ RangeOf(LastN(s, m)) \in Int /\ RangeOf(LastN(s, n)) \in Int
         /\ RangeOf(LastN(s, m)) <= RangeOf(LastN(s, n))
<1> DEFINE v == LastN(s, m)
           w == LastN(s, n)
<1>1. /\ v \in Seq(Candle) /\ Len(v) = m /\ w \in Seq(Candle) /\ Len(w) = n
      /\ \A i \in 1 .. m : v[i] = w[n - m + i]
  <2>1. v \in Seq(Candle) /\ Len(v) = m /\ \A i \in 1 .. m : v[i] = s[Len(s) - m + i]
    BY WindowIs
  <2>2. w \in Seq(Candle) /\ Len(w) = n /\ \A i \in 1 .. n : w[i] = s[Len(s) - n + i]
    BY WindowIs
  <2>3. \A i \in 1 .. m : n - m + i \in 1 .. n /\ Len(s) - n + (n - m + i) = Len(s) - m + i
    OBVIOUS
  <2>4. ASSUME NEW i \in 1 .. m PROVE v[i] = w[n - m + i]
    <3>1. w[n - m + i] = s[Len(s) - n + (n - m + i)]
      BY <2>2, <2>3
    <3>2. Len(s) - n + (n - m + i) = Len(s) - m + i
      BY <2>3
    <3>3. v[i] = s[Len(s) - m + i]
      BY <2>1
    <3> QED BY <3>1, <3>2, <3>3, Zenon
  <2> QED BY <2>1, <2>2, <2>4
<1> HIDE DEF v, w
<1>2. /\ Highest(v) \in Nat /\ Lowest(v) \in Nat /\ Highest(w) \in Nat /\ Lowest(w) \in Nat
  BY <1>1, ExtremesOf
<1>3. Highest(v) <= Highest(w)
  <2>1. PICK i \in 1 .. m : Highest(v) = v[i].high
    BY <1>1, ExtremesOf
  <2>2. n - m + i \in 1 .. n /\ v[i] = w[n - m + i]
    BY <1>1
  <2>3. w[n - m + i].high <= Highest(w)
    <3>1. w \in Seq(Candle) /\ Len(w) > 0
      BY <1>1
    <3>2. \A j \in 1 .. Len(w) : w[j].high <= Highest(w)
      BY <3>1, ExtremesOf, Zenon
    <3> QED BY <1>1, <2>2, <3>2
  <2> QED BY <2>1, <2>2, <2>3
<1>4. Lowest(w) <= Lowest(v)
  <2>1. PICK i \in 1 .. m : Lowest(v) = v[i].low
    BY <1>1, ExtremesOf
  <2>2. n - m + i \in 1 .. n /\ v[i] = w[n - m + i]
    BY <1>1
  <2>3. Lowest(w) <= w[n - m + i].low
    <3>1. w \in Seq(Candle) /\ Len(w) > 0
      BY <1>1
    <3>2. \A j \in 1 .. Len(w) : Lowest(w) <= w[j].low
      BY <3>1, ExtremesOf, Zenon
    <3> QED BY <1>1, <2>2, <3>2
  <2> QED BY <2>1, <2>2, <2>3
<1> QED BY <1>2, <1>3, <1>4 DEF RangeOf, v, w

\* The upward and the downward movements of a series add up to natural numbers.
LEMMA MovementsAdd ==
  ASSUME NEW s \in Seq(Candle), NEW n \in Nat
  PROVE  Moved(PlusMove, s, n) \in Nat /\ Moved(MinusMove, s, n) \in Nat
<1> DEFINE from == Max({2, Len(s) - n + 1})
           I == from .. Len(s)
           plus == [i \in I |-> PlusMove(s, i)]
           minus == [i \in I |-> MinusMove(s, i)]
<1>1. from \in Nat /\ from >= 2
  <2>1. \E x \in {2, Len(s) - n + 1} : \A y \in {2, Len(s) - n + 1} : x >= y
    OBVIOUS
  <2>2. from \in {2, Len(s) - n + 1} /\ \A y \in {2, Len(s) - n + 1} : from >= y
    BY <2>1, Zenon DEF Max
  <2>3. from >= 2
    BY <2>2
  <2> HIDE DEF from
  <2> QED BY <2>2, <2>3
<1> HIDE DEF from
<1>2. IsFiniteSet(I)
  BY <1>1, FS_Interval
<1>3. \A i \in I : i \in 1 .. Len(s) /\ i - 1 \in 1 .. Len(s)
  BY <1>1
<1>4. \A i \in I : /\ s[i].high \in Nat /\ s[i].low \in Nat
                   /\ s[i - 1].high \in Nat /\ s[i - 1].low \in Nat
  BY <1>3, CandlesHave
<1> HIDE DEF I
<1>5. \A i \in I : PlusMove(s, i) \in Nat /\ MinusMove(s, i) \in Nat
  BY <1>4 DEF PlusMove, MinusMove
<1>6. \A i \in I : plus[i] \in Nat /\ minus[i] \in Nat
  BY <1>5
<1>7. Moved(PlusMove, s, n) = SumFunctionOnSet(plus, I)
  BY Zenon DEF Moved, Total, plus, I, from
<1>8. Moved(MinusMove, s, n) = SumFunctionOnSet(minus, I)
  BY Zenon DEF Moved, Total, minus, I, from
<1> HIDE DEF plus, minus
<1>9. 0 \in Nat /\ \A x, y \in Nat : x + y \in Nat
  OBVIOUS
<1>10. SumFunctionOnSet(plus, I) \in Nat /\ SumFunctionOnSet(minus, I) \in Nat
  BY <1>2, <1>6, <1>9, SumType
<1> QED BY <1>7, <1>8, <1>10

-----------------------------------------------------------------------------
(* The planner (MarketAnalysis)                                            *)

\* The index of a summary is a percentage, and no range is ever expanded.
SummarySound(m) ==
  /\ m.adx \in [num : Nat, den : Nat] /\ m.adx.num <= 100 * m.adx.den
  /\ m.expanded = FALSE /\ m.vol \in Volatilities

AnalysisInv ==
  /\ history \in Seq(Bars) /\ candles \in Seq(Bars) /\ Len(candles) <= BarCount
  /\ mpc \in {"idle", "fetched", "asking"}
  /\ SummarySound(summary)
  /\ shortlist \in {{}, Suggested(summary)}
  /\ chosen \in ByName \cup {UnknownStrategy}

LEMMA AnalysisNumbers ==
  ASSUME AnalysisAssumption
  PROVE  /\ Recent \in Nat \ {0} /\ Moves \in Nat \ {0} /\ Medium \in Nat \ {0} /\ MinBars \in Nat
         /\ HubBars \in Nat /\ BarCount \in Nat /\ Recent <= Medium
         /\ Bars \subseteq Candle
BY DEF AnalysisAssumption, Candle

LEMMA AdxIsPercentage ==
  ASSUME AnalysisAssumption, NEW s \in Seq(Candle)
  PROVE  Adx(s) \in [num : Nat, den : Nat] /\ Adx(s).num <= 100 * Adx(s).den
<1> DEFINE plus == Moved(PlusMove, s, Moves)
           minus == Moved(MinusMove, s, Moves)
<1>1. plus \in Nat /\ minus \in Nat
  BY AnalysisNumbers, MovementsAdd
<1>2. Adx(s) = IF Len(s) < Moves \/ plus + minus = 0 THEN NoAdx
               ELSE [num |-> 100 * Distance(plus, minus), den |-> plus + minus]
  BY DEF Adx
<1> HIDE DEF plus, minus
<1>3. Distance(plus, minus) \in Nat /\ Distance(plus, minus) <= plus + minus
  BY <1>1 DEF Distance
<1>4. /\ 100 * Distance(plus, minus) \in Nat /\ plus + minus \in Nat
      /\ 100 * Distance(plus, minus) <= 100 * (plus + minus)
  BY <1>1, <1>3
<1> QED BY <1>2, <1>4 DEF NoAdx

\* market_analysis.py compares the last 10 bars with the last 20, of which they are a part.
LEMMA NothingExpands ==
  ASSUME AnalysisAssumption, NEW s \in Seq(Candle)
  PROVE  Expanded(s) = FALSE
<1> SUFFICES ASSUME Len(s) >= Medium, MediumRange(s) > 0, 10 * RecentRange(s) > 13 * MediumRange(s)
             PROVE  FALSE
  BY DEF Expanded, HasRange, MediumRange
<1>1. /\ RecentRange(s) \in Int /\ MediumRange(s) \in Int /\ RecentRange(s) <= MediumRange(s)
  BY AnalysisNumbers, RangeNarrows DEF RecentRange, MediumRange
<1> QED BY <1>1

LEMMA SummariesSound ==
  ASSUME AnalysisAssumption, NEW s \in Seq(Candle), NEW v \in Volatilities
  PROVE  SummarySound(SummaryOf(s, v))
BY AdxIsPercentage, NothingExpands DEF SummarySound, SummaryOf, Volatilities

LEMMA SeqOfMore == \A S, T : S \subseteq T => Seq(S) \subseteq Seq(T)
<1> SUFFICES ASSUME NEW S, NEW T, S \subseteq T, NEW s \in Seq(S) PROVE s \in Seq(T)
  OBVIOUS
<1>1. s = [i \in 1 .. Len(s) |-> s[i]] /\ Len(s) \in Nat /\ \A i \in 1 .. Len(s) : s[i] \in T
  OBVIOUS
<1> QED BY <1>1

LEMMA FetchesBars ==
  ASSUME AnalysisAssumption, NEW s \in Seq(Bars)
  PROVE  /\ LastN(s, BarCount) \in Seq(Bars) /\ Len(LastN(s, BarCount)) <= BarCount
         /\ LastN(LastN(s, HubBars), BarCount) \in Seq(Bars)
         /\ Len(LastN(LastN(s, HubBars), BarCount)) <= BarCount
<1>1. \A r \in Seq(Bars) : LastN(r, BarCount) \in Seq(Bars) /\ Len(LastN(r, BarCount)) <= BarCount
  <2> TAKE r \in Seq(Bars)
  <2>1. /\ LastN(r, BarCount) \in Seq(Bars)
        /\ Len(LastN(r, BarCount)) = IF BarCount > Len(r) THEN Len(r) ELSE BarCount
    BY AnalysisNumbers, WindowIs
  <2> QED BY <2>1, AnalysisNumbers
<1>2. LastN(s, HubBars) \in Seq(Bars)
  BY AnalysisNumbers, WindowIs
<1> QED BY <1>1, <1>2

LEMMA SuggestedByName == \A m : Suggested(m) \subseteq ByName
BY DEF Suggested, ByName, Followers, StrongFollowers, Reverters, Squeezes

LEMMA AnalysisStep == AnalysisInv /\ AnalysisAssumption /\ [AnalysisNext]_analysisVars => AnalysisInv'
<1> SUFFICES ASSUME AnalysisInv, AnalysisAssumption, [AnalysisNext]_analysisVars PROVE AnalysisInv'
  OBVIOUS
<1>1. CASE \E b \in Bars : BarCloses(b)
  BY <1>1 DEF BarCloses, AnalysisInv
<1>2. CASE FetchFromHub \/ FetchDirect
  <2>1. candles' \in Seq(Bars) /\ Len(candles') <= BarCount /\ mpc' = "fetched"
    <3>1. history \in Seq(Bars) /\ <<>> \in Seq(Bars) /\ Len(<<>>) <= BarCount
      BY AnalysisNumbers DEF AnalysisInv
    <3>2. CASE FetchFromHub
      BY <3>1, <3>2, FetchesBars DEF FetchFromHub
    <3>3. CASE FetchDirect
      BY <3>1, <3>3, FetchesBars DEF FetchDirect
    <3> QED BY <1>2, <3>2, <3>3
  <2> QED BY <1>2, <2>1 DEF FetchFromHub, FetchDirect, AnalysisInv
<1>3. CASE TooFewBars
  <2>1. SummarySound(NoSummary)
    BY DEF SummarySound, NoSummary, NoAdx, Volatilities
  <2>2. "momentum" \in ByName
    BY DEF ByName
  <2> QED BY <1>3, <2>1, <2>2, AnalysisNumbers DEF TooFewBars, AnalysisInv
<1>4. CASE Summarise
  <2>1. candles \in Seq(Candle)
    <3>1. candles \in Seq(Bars) /\ Bars \subseteq Candle
      BY AnalysisNumbers DEF AnalysisInv
    <3> QED BY <3>1, SeqOfMore
  <2>2. PICK v \in Volatilities : summary' = SummaryOf(candles, v)
    BY <1>4, Zenon DEF Summarise
  <2>3. SummarySound(SummaryOf(candles, v))
    BY <2>1, SummariesSound
  <2>4. SummarySound(summary')
    BY <2>2, <2>3, Zenon
  <2> QED BY <1>4, <2>4 DEF Summarise, AnalysisInv
<1>5. CASE LlmChooses
  <2>1. chosen' \in ByName \cup {UnknownStrategy}
    <3>1. shortlist \subseteq ByName
      BY SuggestedByName DEF AnalysisInv
    <3>2. "momentum" \in ByName
      BY DEF ByName
    <3> QED BY <1>5, <3>1, <3>2 DEF LlmChooses
  <2> QED BY <1>5, <2>1, AnalysisNumbers DEF LlmChooses, AnalysisInv
<1>6. CASE UNCHANGED analysisVars
  BY <1>6 DEF analysisVars, AnalysisInv
<1> QED BY <1>1, <1>2, <1>3, <1>4, <1>5, <1>6 DEF AnalysisNext

LEMMA AnalysisStarts == AnalysisInit /\ AnalysisAssumption => AnalysisInv
<1>1. SummarySound(NoSummary) /\ "momentum" \in ByName
  BY DEF SummarySound, NoSummary, NoAdx, Volatilities, ByName
<1> QED BY <1>1, AnalysisNumbers DEF AnalysisInit, AnalysisInv

\* The inductive invariant of the planner: it works on windows of the bars, and its list of
\* strategies is the one its summary of them suggests.
THEOREM AnalysisInvariant == AnalysisSpec => []AnalysisInv
<1>1. AnalysisInit => AnalysisInv
  BY AnalysisStarts, AnalysisAssumption
<1>2. AnalysisInv /\ [AnalysisNext]_analysisVars => AnalysisInv'
  BY AnalysisStep, AnalysisAssumption
<1> QED BY <1>1, <1>2, PTL DEF AnalysisSpec

\* What is suggested on a sound summary.
LEMMA SuggestedApart ==
  ASSUME NEW m, SummarySound(m)
  PROVE  /\ Suggested(m) \cap (Squeezes \cup {"atr_breakout"}) = {}
         /\ Suggested(m) \cap Followers # {} /\ Suggested(m) \cap Reverters # {} => m.compressed
         /\ Suggested(m) \cap StrongFollowers # {} => Followers \subseteq Suggested(m)
<1>1. m.adx.num \in Nat /\ m.adx.den \in Nat /\ m.expanded = FALSE
  BY DEF SummarySound
<1>2. Above(m.adx, 30) => Above(m.adx, 25)
  BY <1>1 DEF Above
<1>3. ~(Above(m.adx, 25) /\ Below(m.adx, 20))
  BY <1>1 DEF Above, Below
<1>4. Suggested(m) =
        {"momentum"}
        \cup (IF Above(m.adx, 25) /\ m.vol = "reasonable" THEN Followers ELSE {})
        \cup (IF Above(m.adx, 30) /\ m.vol = "reasonable" THEN StrongFollowers ELSE {})
        \cup (IF Ranging(m) THEN Reverters ELSE {})
  BY <1>1 DEF Suggested
<1>5. /\ "momentum" \notin Followers \cup StrongFollowers \cup Reverters \cup Squeezes
      /\ Followers \cap (StrongFollowers \cup Reverters \cup Squeezes) = {}
      /\ StrongFollowers \cap (Reverters \cup Squeezes) = {} /\ Reverters \cap Squeezes = {}
      /\ "atr_breakout" \notin {"momentum"} \cup Followers \cup StrongFollowers \cup Reverters
  BY DEF Followers, StrongFollowers, Reverters, Squeezes
<1>6. Suggested(m) \cap (Squeezes \cup {"atr_breakout"}) = {}
  BY <1>4, <1>5
<1>7. Suggested(m) \cap Followers # {} => Above(m.adx, 25)
  BY <1>4, <1>5
<1>8. Suggested(m) \cap Reverters # {} => Ranging(m)
  BY <1>4, <1>5
<1>9. Suggested(m) \cap StrongFollowers # {} => Followers \subseteq Suggested(m)
  BY <1>2, <1>4, <1>5
<1> QED BY <1>3, <1>6, <1>7, <1>8, <1>9 DEF Ranging

\* RegimesApart: whatever the bars are, the strategies that wait for an expansion are never
\* offered, and followers and reverters together only within a compressed range.
THEOREM RegimesProved == AnalysisSpec => []RegimesApart
<1>1. AnalysisInv => RegimesApart
  BY SuggestedApart DEF AnalysisInv, RegimesApart, NeverExpands, BothOnlyWhenCompressed, SummarySound
<1> QED BY <1>1, AnalysisInvariant, PTL

-----------------------------------------------------------------------------
(* The strategies (Signals)                                                *)

Sides == {-1, 0, 1}

LEMMA SignIsSide == (\A x : Sign(x) \in Sides) /\ \A s, n, g : g \in Sides => Warm(s, n, g) \in Sides
BY DEF Sign, Warm, Sides

\* Each strategy on prices answers with a side or with nothing.
LEMMA PriceSignalsAreSides ==
  ASSUME NEW name, NEW s, NEW asked
  PROVE  PriceSignal(name, s, asked) \subseteq Sides
<1> 0 \in Sides /\ 1 \in Sides /\ -1 \in Sides
  BY DEF Sides
<1>1. \A n, k : /\ SimpleMomentum(s, n) \in Sides /\ DualMomentum(s, k, n) \in Sides
                /\ Donchian(s, n) \in Sides /\ RangeSr(s, n) \in Sides
                /\ MaCrossover(s, k, n) \in Sides /\ ZScore(s, n) \in Sides
  BY SignIsSide DEF SimpleMomentum, DualMomentum, Donchian, RangeSr, MaCrossover, ZScore
<1>2. \A n : Breakout(s, n) \in Sides /\ Rsi(s, n) \in Sides /\ Squeeze(s, n) \in Sides
  BY SignIsSide DEF Breakout, Rsi, Squeeze
<1>3. \A n, k : EmaCrossover(s, k, n) \in Sides
  BY SignIsSide, Zenon DEF EmaCrossover
<1>4. Macd(s) \in Sides
  BY SignIsSide, Zenon DEF Macd
<1>5. \A n : Regression(s, n) \in Sides
  BY SignIsSide, Zenon DEF Regression
<1>6. Kalman(s) \subseteq Sides
  BY SignIsSide DEF Kalman
<1>7. MethRwa(s) \in Sides /\ DemoMode(s) \in Sides
  BY SignIsSide DEF MethRwa, DemoMode
<1> QED BY <1>1, <1>2, <1>3, <1>4, <1>5, <1>6, <1>7 DEF PriceSignal

\* So does each on candles, but for the one that can raise.
LEMMA BarSignalsAreSides ==
  ASSUME NEW name \in OfBars, NEW b, NEW n
  PROVE  IF name = "stochastic_signal" THEN BarSignal(name, b, n) = Stochastic(b, Smaller(Period, n))
         ELSE BarSignal(name, b, n) \in Sides
<1> 0 \in Sides /\ 1 \in Sides /\ -1 \in Sides
  BY DEF Sides
<1>1. AdxFilter(b) \in Sides /\ Supertrend(b) \in Sides /\ AtrBreakout(b) \in Sides
  BY SignIsSide DEF AdxFilter, Supertrend, AtrBreakout
<1>2. Ichimoku(b) \in Sides
  BY SignIsSide, Zenon DEF Ichimoku
<1>3. Keltner(b, n) \in Sides
  BY SignIsSide, Zenon DEF Keltner
<1>4. Vwap(b) \in Sides
  BY SignIsSide, Zenon DEF Vwap
<1>5. ObvTrend(b, n) \in Sides
  BY SignIsSide DEF ObvTrend
<1>6. SmartMoney(b) \in Sides
  BY SignIsSide, Zenon DEF SmartMoney
<1> QED BY <1>1, <1>2, <1>3, <1>4, <1>5, <1>6 DEF BarSignal, OfBars

\* A window that begins at the first bar or later is not empty, so what raises is too short.
LEMMA StochasticRaises ==
  ASSUME NEW B, NEW b \in Seq(B), NEW k \in Nat \ {0}
  PROVE  /\ Stochastic(b, k) \in Sides \cup {Raises}
         /\ Stochastic(b, k) = Raises => Len(b) >= k /\ Len(b) < 2 * k - 1
<1>1. Stochastic(b, k) \in Sides \cup {Raises}
  BY SignIsSide DEF Stochastic, Sides
<1>2. ASSUME Stochastic(b, k) = Raises PROVE Len(b) >= k /\ Len(b) < 2 * k - 1
  <2>1. /\ ~(Len(b) < k)
        /\ \E i \in Len(b) - k .. Len(b) - 1 : Slice(b, i - k + 1, i + 1) = <<>>
    BY <1>2, SignIsSide DEF Stochastic, Sides, Raises
  <2>2. PICK i \in Len(b) - k .. Len(b) - 1 : Slice(b, i - k + 1, i + 1) = <<>>
    BY <2>1
  <2>3. ASSUME Len(b) >= 2 * k - 1 PROVE FALSE
    <3>1. i - k + 1 >= 0 /\ i - k + 2 \in 1 .. Len(b) /\ i + 1 \in 1 .. Len(b) /\ i - k + 2 <= i + 1
      BY <2>1, <2>3
    <3>2. Slice(b, i - k + 1, i + 1) = SubSeq(b, i - k + 2, i + 1)
      <4>1. (i - k + 1) + 1 = i - k + 2
        OBVIOUS
      <4> QED BY <3>1, <4>1 DEF Slice
    <3>3. \A j \in i - k + 2 .. i + 1 : b[j] \in B
      BY <3>1
    <3>4. Len(SubSeq(b, i - k + 2, i + 1)) = (i + 1) - (i - k + 2) + 1
      BY <3>1, <3>3, SubSeqProperties
    <3>5. Len(<<>>) = 0 /\ (i + 1) - (i - k + 2) + 1 = k
      OBVIOUS
    <3> QED BY <2>2, <3>2, <3>4, <3>5
  <2> QED BY <2>1, <2>3
<1> QED BY <1>1, <1>2

Plan == [strategy : Strategies, lookback : Lookbacks]
\* The window of the one strategy that can raise.
StochasticBars(p) == Smaller(Period, Larger(2, p.lookback))

\* What a strategy can answer; of all only one can raise.
LEMMA SignalsAre ==
  ASSUME SignalAssumption, NEW B, NEW p \in Plan, NEW s, NEW b \in Seq(B)
  PROVE  /\ Signal(p, s, b) \subseteq Outcomes
         /\ Raises \in Signal(p, s, b) =>
              /\ p.strategy = "stochastic_signal"
              /\ Len(b) >= StochasticBars(p) /\ Len(b) < 2 * StochasticBars(p) - 1
<1> DEFINE n == Larger(2, p.lookback)
           enough == b # <<>> /\ Len(b) >= n
<1>1. p.lookback \in Int /\ n \in Nat \ {0} /\ StochasticBars(p) \in Nat \ {0}
  <2>1. p.lookback \in Lookbacks
    BY DEF Plan
  <2>2. p.lookback \in Int /\ Period \in Nat \ {0}
    BY <2>1 DEF SignalAssumption
  <2>3. n \in Nat \ {0}
    BY <2>2 DEF Larger
  <2>4. StochasticBars(p) = Smaller(Period, n)
    BY DEF StochasticBars
  <2> HIDE DEF n
  <2> QED BY <2>2, <2>3, <2>4 DEF Smaller
<1>2. Outcomes = Sides \cup {Raises} /\ Raises \notin Sides
  BY DEF Outcomes, Sides, Raises
<1>3. CASE p.strategy \in OfBars /\ enough
  <2>1. Signal(p, s, b) = {BarSignal(p.strategy, b, n)}
    BY <1>3 DEF Signal
  <2> HIDE DEF n
  <2>2. IF p.strategy = "stochastic_signal" THEN BarSignal(p.strategy, b, n) = Stochastic(b, Smaller(Period, n))
        ELSE BarSignal(p.strategy, b, n) \in Sides
    BY <1>3, BarSignalsAreSides
  <2>3. StochasticBars(p) = Smaller(Period, n)
    BY DEF StochasticBars, n
  <2>4. /\ Stochastic(b, Smaller(Period, n)) \in Sides \cup {Raises}
        /\ Stochastic(b, Smaller(Period, n)) = Raises =>
             Len(b) >= Smaller(Period, n) /\ Len(b) < 2 * Smaller(Period, n) - 1
    BY <1>1, <2>3, StochasticRaises
  <2> QED BY <1>2, <2>1, <2>2, <2>3, <2>4
<1>4. CASE ~(p.strategy \in OfBars /\ enough)
  <2>1. \A k, m : MaCrossover(s, k, m) \in Sides /\ ZScore(s, m) \in Sides
    BY SignIsSide DEF MaCrossover, ZScore, Sides
  <2>2. Fallback(p.strategy, s, p.lookback) \in Sides
    BY <2>1, Zenon DEF Fallback
  <2>3. PriceSignal(p.strategy, s, p.lookback) \subseteq Sides
    BY PriceSignalsAreSides
  <2>4. Signal(p, s, b) \subseteq Sides
    BY <1>4, <2>1, <2>2, <2>3 DEF Signal
  <2> QED BY <1>2, <2>4
<1> QED BY <1>3, <1>4

-----------------------------------------------------------------------------
(* A market seen upside down (Signals)                                     *)

\* A series mirrored at half of m.
Upside(s, m) == [i \in DOMAIN s |-> m - s[i]]

\* A mirrored series, entry by entry.
LEMMA UpsideIs ==
  ASSUME NEW m \in Int, NEW s \in Seq(Int)
  PROVE  /\ Upside(s, m) \in Seq(Int) /\ Len(Upside(s, m)) = Len(s)
         /\ \A i \in 1 .. Len(s) : s[i] \in Int /\ Upside(s, m)[i] = m - s[i]
<1>1. DOMAIN s = 1 .. Len(s) /\ Len(s) \in Nat /\ \A i \in 1 .. Len(s) : s[i] \in Int
  OBVIOUS
<1>2. Upside(s, m) = [i \in 1 .. Len(s) |-> m - s[i]]
  BY <1>1, Zenon DEF Upside
<1>3. \A i \in 1 .. Len(s) : m - s[i] \in Int
  BY <1>1
<1>4. [i \in 1 .. Len(s) |-> m - s[i]] \in Seq(Int)
  BY <1>1, <1>3
<1>5. Len([i \in 1 .. Len(s) |-> m - s[i]]) = Len(s)
  BY <1>1
<1> QED BY <1>1, <1>2, <1>4, <1>5

\* A part of the mirrored series is the part mirrored.
LEMMA UpsideOfPart ==
  ASSUME NEW m \in Int, NEW s \in Seq(Int), NEW a \in 1 .. Len(s) + 1, NEW b \in a - 1 .. Len(s)
  PROVE  SubSeq(Upside(s, m), a, b) = Upside(SubSeq(s, a, b), m)
<1> DEFINE u == Upside(s, m)
           w == SubSeq(s, a, b)
           v == SubSeq(u, a, b)
           x == Upside(w, m)
<1>1. u \in Seq(Int) /\ Len(u) = Len(s) /\ \A i \in 1 .. Len(s) : u[i] = m - s[i]
  BY UpsideIs
<1>2. w \in Seq(Int) /\ Len(w) = b - a + 1 /\ \A i \in 1 .. b - a + 1 : w[i] = s[a + i - 1]
  BY PartIs
<1> HIDE DEF u
<1>3. v \in Seq(Int) /\ Len(v) = b - a + 1 /\ \A i \in 1 .. b - a + 1 : v[i] = u[a + i - 1]
  BY <1>1, PartIs
<1> HIDE DEF w, v
<1>4. x \in Seq(Int) /\ Len(x) = b - a + 1 /\ \A i \in 1 .. b - a + 1 : x[i] = m - w[i]
  BY <1>2, UpsideIs
<1> HIDE DEF x
<1>5. \A i \in 1 .. b - a + 1 : v[i] = x[i]
  <2> SUFFICES ASSUME NEW i \in 1 .. b - a + 1 PROVE v[i] = x[i]
    OBVIOUS
  <2>1. a + i - 1 \in 1 .. Len(s)
    OBVIOUS
  <2>2. v[i] = u[a + i - 1] /\ x[i] = m - w[i] /\ w[i] = s[a + i - 1] /\ u[a + i - 1] = m - s[a + i - 1]
    BY <1>1, <1>2, <1>3, <1>4, <2>1
  <2> QED BY <2>2
<1>6. v = x
  BY <1>3, <1>4, <1>5
<1> QED BY <1>6 DEF v, x, u, w

\* The last n entries are a part.
LEMMA LastIsPart ==
  ASSUME NEW s, Len(s) \in Nat, NEW n \in 0 .. Len(s)
  PROVE  LastN(s, n) = SubSeq(s, Len(s) - n + 1, Len(s)) /\ Len(s) - n + 1 \in 1 .. Len(s) + 1
<1>1. (IF n > Len(s) THEN 0 ELSE Len(s) - n) = Len(s) - n /\ Len(s) - n + 1 \in 1 .. Len(s) + 1
  OBVIOUS
<1> QED BY <1>1, Zenon DEF LastN

\* The last prices of a mirrored series are the last prices mirrored.
LEMMA UpsideOfLast ==
  ASSUME NEW m \in Int, NEW s \in Seq(Int), NEW n \in 0 .. Len(s)
  PROVE  /\ LastN(Upside(s, m), n) = Upside(LastN(s, n), m)
         /\ LastN(s, n) \in Seq(Int) /\ Len(LastN(s, n)) = n
<1>1. Len(Upside(s, m)) = Len(s) /\ Len(s) \in Nat
  BY UpsideIs
<1>2. /\ LastN(s, n) = SubSeq(s, Len(s) - n + 1, Len(s))
      /\ LastN(Upside(s, m), n) = SubSeq(Upside(s, m), Len(s) - n + 1, Len(s))
      /\ Len(s) - n + 1 \in 1 .. Len(s) + 1
  BY <1>1, LastIsPart
<1>3. Len(s) \in (Len(s) - n + 1) - 1 .. Len(s)
  BY <1>1
<1>4. SubSeq(Upside(s, m), Len(s) - n + 1, Len(s)) = Upside(SubSeq(s, Len(s) - n + 1, Len(s)), m)
  BY <1>2, <1>3, UpsideOfPart
<1>5. /\ SubSeq(s, Len(s) - n + 1, Len(s)) \in Seq(Int)
      /\ Len(SubSeq(s, Len(s) - n + 1, Len(s))) = Len(s) - (Len(s) - n + 1) + 1
  BY <1>2, <1>3, PartIs
<1>6. Len(s) - (Len(s) - n + 1) + 1 = n
  BY <1>1
<1> QED BY <1>2, <1>4, <1>5, <1>6

\* The sum of a mirrored series.
LEMMA UpsideSum ==
  ASSUME NEW m \in Int, NEW w \in Seq(Int)
  PROVE  SumOf(w) \in Int /\ SumOf(Upside(w, m)) = m * Len(w) - SumOf(w)
<1> DEFINE u == Upside(w, m)
           n == Len(w)
           f == [i \in 1 .. n |-> w[i]]
           g == [i \in 1 .. n |-> u[i]]
           one == [i \in 1 .. n |-> 1]
<1>1. n \in Nat /\ Len(u) = n /\ \A i \in 1 .. n : f[i] = w[i] /\ w[i] \in Int /\ g[i] = m - w[i]
  BY UpsideIs
<1>2. SumOf(w) = SumFunctionOnSet(f, 1 .. n) /\ SumOf(u) = SumFunctionOnSet(g, 1 .. n)
  BY <1>1, Zenon DEF SumOf, Total
<1>3. IsFiniteSet(1 .. n) /\ Cardinality(1 .. n) = n
  <2> HIDE DEF f, g, one, n, u
  <2> QED BY <1>1, FS_Interval
<1>4. SumFunctionOnSet(one, 1 .. n) = n
  BY <1>3, SumCounts
<1>5. Combines(g, m, one, -1, f, 1 .. n)
  <2> SUFFICES ASSUME NEW i \in 1 .. n
               PROVE  one[i] \in Int /\ f[i] \in Int /\ g[i] = m * one[i] + (-1) * f[i]
    BY DEF Combines
  <2>1. f[i] \in Int /\ g[i] = m - f[i] /\ one[i] = 1
    BY <1>1
  <2> HIDE DEF f, g, one
  <2> QED BY <2>1
<1>6. \A i \in 1 .. n : f[i] \in Int
  BY <1>1
<1> HIDE DEF f, g, one, n, u
<1>7. SumFunctionOnSet(g, 1 .. n) = m * SumFunctionOnSet(one, 1 .. n) + (-1) * SumFunctionOnSet(f, 1 .. n)
  <2>1. -1 \in Int
    OBVIOUS
  <2> QED BY <1>3, <1>5, <2>1, SumCombines
<1>8. SumFunctionOnSet(f, 1 .. n) \in Int
  BY <1>3, <1>6, SumSame
<1>9. m * n \in Int
  BY <1>1
<1>10. SumOf(w) \in Int /\ SumOf(u) = m * n - SumOf(w)
  BY <1>2, <1>4, <1>7, <1>8, <1>9
<1> QED BY <1>10 DEF u, n

\* The largest and the smallest entry.
LEMMA ExtremesOfSeries ==
  ASSUME NEW w \in Seq(Int), Len(w) > 0
  PROVE  /\ MaxOf(w) \in Int /\ (\E i \in 1 .. Len(w) : MaxOf(w) = w[i])
         /\ \A i \in 1 .. Len(w) : w[i] <= MaxOf(w)
         /\ MinOf(w) \in Int /\ (\E i \in 1 .. Len(w) : MinOf(w) = w[i])
         /\ \A i \in 1 .. Len(w) : MinOf(w) <= w[i]
<1> DEFINE n == Len(w)
           H == {w[i] : i \in DOMAIN w}
           down == [i \in 1 .. n |-> 0 - w[i]]
<1>1. n \in Nat \ {0} /\ DOMAIN w = 1 .. n /\ \A i \in 1 .. n : w[i] \in Int
  OBVIOUS
<1>2. PICK k \in 1 .. n : \A i \in 1 .. n : w[i] <= w[k]
  <2> HIDE DEF n
  <2> QED BY <1>1, LargestOfSeries
<1>3. PICK l \in 1 .. n : \A i \in 1 .. n : down[i] <= down[l]
  <2>1. \A i \in 1 .. n : down[i] \in Int
    BY <1>1
  <2> HIDE DEF n, down
  <2> QED BY <1>1, <2>1, LargestOfSeries
<1>4. w[k] \in H /\ \A y \in H : w[k] >= y
  BY <1>1, <1>2
<1>5. w[l] \in H /\ \A y \in H : w[l] =< y
  <2>1. \A i \in 1 .. n : w[l] <= w[i]
    <3>1. \A i \in 1 .. n : 0 - w[i] <= 0 - w[l]
      BY <1>3
    <3> HIDE DEF n
    <3> QED BY <1>1, <3>1
  <2> QED BY <1>1, <2>1
<1>6. Max(H) \in H /\ \A y \in H : Max(H) >= y
  <2> HIDE DEF H
  <2> QED BY <1>4, Zenon DEF Max
<1>7. Min(H) \in H /\ \A y \in H : Min(H) =< y
  <2> HIDE DEF H
  <2> QED BY <1>5, Zenon DEF Min
<1>8. MaxOf(w) = Max(H) /\ MinOf(w) = Min(H)
  BY DEF MaxOf, MinOf
<1>9. \A i \in 1 .. n : w[i] \in H
  BY <1>1
<1>10. (\E i \in 1 .. n : Max(H) = w[i]) /\ (\E i \in 1 .. n : Min(H) = w[i])
  BY <1>1, <1>6, <1>7
<1> HIDE DEF H
<1> QED BY <1>1, <1>6, <1>7, <1>8, <1>9, <1>10

\* Mirrored, the largest entry is the smallest and the smallest the largest.
LEMMA UpsideExtremes ==
  ASSUME NEW m \in Int, NEW w \in Seq(Int), Len(w) > 0
  PROVE  MaxOf(Upside(w, m)) = m - MinOf(w) /\ MinOf(Upside(w, m)) = m - MaxOf(w)
<1> DEFINE u == Upside(w, m)
<1>1. u \in Seq(Int) /\ Len(u) = Len(w) /\ Len(w) \in Nat
      /\ \A i \in 1 .. Len(w) : w[i] \in Int /\ u[i] = m - w[i]
  BY UpsideIs
<1> HIDE DEF u
<1>2. /\ MaxOf(u) \in Int /\ (\E i \in 1 .. Len(w) : MaxOf(u) = u[i])
      /\ \A i \in 1 .. Len(w) : u[i] <= MaxOf(u)
      /\ MinOf(u) \in Int /\ (\E i \in 1 .. Len(w) : MinOf(u) = u[i])
      /\ \A i \in 1 .. Len(w) : MinOf(u) <= u[i]
  BY <1>1, ExtremesOfSeries
<1>3. /\ MaxOf(w) \in Int /\ (\E i \in 1 .. Len(w) : MaxOf(w) = w[i])
      /\ \A i \in 1 .. Len(w) : w[i] <= MaxOf(w)
      /\ MinOf(w) \in Int /\ (\E i \in 1 .. Len(w) : MinOf(w) = w[i])
      /\ \A i \in 1 .. Len(w) : MinOf(w) <= w[i]
  BY ExtremesOfSeries
<1>4. MaxOf(u) = m - MinOf(w)
  <2>1. PICK i \in 1 .. Len(w) : MaxOf(u) = u[i]
    BY <1>2
  <2>2. PICK j \in 1 .. Len(w) : MinOf(w) = w[j]
    BY <1>3
  <2>3. u[j] <= MaxOf(u) /\ MinOf(w) <= w[i]
    BY <1>2, <1>3
  <2>4. u[i] = m - w[i] /\ u[j] = m - w[j] /\ w[i] \in Int /\ w[j] \in Int
    BY <1>1
  <2> QED BY <2>1, <2>2, <2>3, <2>4
<1>5. MinOf(u) = m - MaxOf(w)
  <2>1. PICK i \in 1 .. Len(w) : MinOf(u) = u[i]
    BY <1>2
  <2>2. PICK j \in 1 .. Len(w) : MaxOf(w) = w[j]
    BY <1>3
  <2>3. MinOf(u) <= u[j] /\ w[i] <= MaxOf(w)
    BY <1>2, <1>3
  <2>4. u[i] = m - w[i] /\ u[j] = m - w[j] /\ w[i] \in Int /\ w[j] \in Int
    BY <1>1
  <2> QED BY <2>1, <2>2, <2>3, <2>4
<1> QED BY <1>4, <1>5 DEF u

\* The sign of the opposite number is the opposite sign, when there are enough prices for one.
LEMMA SignFlips ==
  /\ \A x \in Int : Sign(-x) = -Sign(x) /\ Sign(x) \in Sides
  /\ \A s, u, n : \A g \in Int : Len(u) = Len(s) => Warm(u, n, -g) = -Warm(s, n, g)
BY DEF Sign, Warm, Sides

\* Zero is its own opposite.
LEMMA ZeroFlips == \A x \in Int : x <= 0 /\ x >= 0 => -x = x
OBVIOUS

\* Too short series give no signal; on the others the signs are opposite.
LEMMA WarmFlips ==
  ASSUME NEW s, NEW u, Len(u) = Len(s), NEW n, NEW g \in Int, NEW h, Len(s) < n \/ h = -g
  PROVE  Warm(u, n, h) = -Warm(s, n, g)
<1>1. CASE Len(s) < n
  <2>1. Warm(u, n, h) = 0 /\ Warm(s, n, g) = 0
    BY <1>1, Zenon DEF Warm
  <2>2. Warm(s, n, g) \in Int /\ Warm(s, n, g) <= 0 /\ Warm(s, n, g) >= 0
    BY <2>1
  <2>3. -Warm(s, n, g) = Warm(s, n, g)
    BY <2>2, ZeroFlips, Zenon
  <2> QED BY <2>1, <2>3, Zenon
<1>2. CASE ~(Len(s) < n)
  BY <1>2, Zenon DEF Warm
<1> QED BY <1>1, <1>2

\* The latest price and those before it, mirrored.
LEMMA UpsideLatest ==
  ASSUME NEW m \in Int, NEW s \in Seq(Int), NEW n \in 1 .. Len(s)
  PROVE  /\ FromEnd(s, n) \in Int /\ FromEnd(Upside(s, m), n) = m - FromEnd(s, n)
         /\ Latest(s) \in Int /\ Latest(Upside(s, m)) = m - Latest(s)
<1>1. Len(Upside(s, m)) = Len(s) /\ \A i \in 1 .. Len(s) : s[i] \in Int /\ Upside(s, m)[i] = m - s[i]
  BY UpsideIs
<1>2. Len(s) - n + 1 \in 1 .. Len(s) /\ Len(s) \in 1 .. Len(s)
  OBVIOUS
<1> QED BY <1>1, <1>2, Zenon DEF FromEnd, Latest

\* The mirrored market has the opposite momentum.
LEMMA MomentumFlips ==
  ASSUME NEW m \in Int, NEW s \in Seq(Int), NEW n \in Nat \ {0}
  PROVE  SimpleMomentum(Upside(s, m), n) = -SimpleMomentum(s, n)
<1> DEFINE u == Upside(s, m)
           g == Sign(Latest(s) - FromEnd(s, n))
           h == Sign(Latest(u) - FromEnd(u, n))
<1>1. Len(u) = Len(s) /\ Len(s) \in Nat
  BY UpsideIs
<1>2. ASSUME ~(Len(s) < n) PROVE h = -g
  <2>1. n \in 1 .. Len(s)
    BY <1>1, <1>2
  <2>2. /\ Latest(s) \in Int /\ FromEnd(s, n) \in Int
        /\ Latest(u) = m - Latest(s) /\ FromEnd(u, n) = m - FromEnd(s, n)
    BY <2>1, UpsideLatest
  <2>3. Latest(u) - FromEnd(u, n) = -(Latest(s) - FromEnd(s, n)) /\ Latest(s) - FromEnd(s, n) \in Int
    BY <2>2
  <2> QED BY <2>3, SignFlips, Zenon
<1>3. g \in Int
  BY DEF Sign
<1>4. Warm(u, n, h) = -Warm(s, n, g)
  <2>1. Len(u) = Len(s) /\ g \in Int /\ (Len(s) < n \/ h = -g)
    BY <1>1, <1>2, <1>3
  <2> HIDE DEF g, h, u
  <2> QED BY <2>1, WarmFlips
<1> QED BY <1>4, Zenon DEF SimpleMomentum

\* And the opposite difference of two momenta.
LEMMA DualMomentumFlips ==
  ASSUME NEW m \in Int, NEW s \in Seq(Int), NEW k \in Nat \ {0}, NEW n \in Nat, k <= n
  PROVE  DualMomentum(Upside(s, m), k, n) = -DualMomentum(s, k, n)
<1> DEFINE u == Upside(s, m)
           g == Sign((Latest(s) - FromEnd(s, k)) - (Latest(s) - FromEnd(s, n)))
           h == Sign((Latest(u) - FromEnd(u, k)) - (Latest(u) - FromEnd(u, n)))
<1>1. Len(u) = Len(s) /\ Len(s) \in Nat
  BY UpsideIs
<1>2. ASSUME ~(Len(s) < n) PROVE h = -g
  <2>1. n \in 1 .. Len(s) /\ k \in 1 .. Len(s)
    BY <1>1, <1>2
  <2>2. /\ Latest(s) \in Int /\ FromEnd(s, n) \in Int /\ FromEnd(s, k) \in Int
        /\ Latest(u) = m - Latest(s) /\ FromEnd(u, n) = m - FromEnd(s, n)
        /\ FromEnd(u, k) = m - FromEnd(s, k)
    BY <2>1, UpsideLatest
  <2> HIDE DEF u
  <2> DEFINE x == (Latest(s) - FromEnd(s, k)) - (Latest(s) - FromEnd(s, n))
  <2>3. (Latest(u) - FromEnd(u, k)) - (Latest(u) - FromEnd(u, n)) = -x /\ x \in Int
    BY <2>2
  <2> QED BY <2>3, SignFlips, Zenon
<1>3. g \in Int
  BY DEF Sign
<1>4. Warm(u, n, h) = -Warm(s, n, g)
  <2>1. Len(u) = Len(s) /\ g \in Int /\ (Len(s) < n \/ h = -g)
    BY <1>1, <1>2, <1>3
  <2> HIDE DEF g, h, u
  <2> QED BY <2>1, WarmFlips
<1> QED BY <1>4, Zenon DEF DualMomentum

\* A break out of the top of a window is one out of the bottom of the mirrored window.
LEMMA BreakoutFlips ==
  ASSUME NEW m \in Int, NEW s \in Seq(Int), NEW n \in Nat \ {0}
  PROVE  Breakout(Upside(s, m), n) = -Breakout(s, n)
<1> DEFINE u == Upside(s, m)
           WindowOf(z) == SubSeq(z, Len(z) - n, Len(z) - 1)
           Side(z) == IF Latest(z) > MaxOf(WindowOf(z)) THEN 1
                      ELSE IF Latest(z) < MinOf(WindowOf(z)) THEN -1 ELSE 0
<1>1. Len(u) = Len(s) /\ Len(s) \in Nat
  BY UpsideIs
<1>2. ASSUME ~(Len(s) < n + 1) PROVE Side(u) = -Side(s)
  <2>1. 1 \in 1 .. Len(s) /\ Len(s) - n \in 1 .. Len(s) + 1 /\ Len(s) - 1 \in (Len(s) - n) - 1 .. Len(s)
        /\ Len(s) - 1 - (Len(s) - n) + 1 = n
    BY <1>1, <1>2
  <2>2. Latest(s) \in Int /\ Latest(u) = m - Latest(s)
    BY <2>1, UpsideLatest
  <2>3. WindowOf(u) = Upside(WindowOf(s), m)
    BY <1>1, <2>1, UpsideOfPart
  <2>4. WindowOf(s) \in Seq(Int) /\ Len(WindowOf(s)) > 0
    <3>1. WindowOf(s) \in Seq(Int) /\ Len(WindowOf(s)) = Len(s) - 1 - (Len(s) - n) + 1
      BY <2>1, PartIs
    <3> QED BY <2>1, <3>1
  <2>5. MaxOf(WindowOf(u)) = m - MinOf(WindowOf(s)) /\ MinOf(WindowOf(u)) = m - MaxOf(WindowOf(s))
    BY <2>3, <2>4, UpsideExtremes
  <2>6. /\ MaxOf(WindowOf(s)) \in Int /\ MinOf(WindowOf(s)) \in Int
        /\ MinOf(WindowOf(s)) <= MaxOf(WindowOf(s))
    <3> DEFINE w == WindowOf(s)
    <3>1. /\ MaxOf(w) \in Int /\ \A i \in 1 .. Len(w) : w[i] <= MaxOf(w)
          /\ MinOf(w) \in Int /\ \A i \in 1 .. Len(w) : MinOf(w) <= w[i]
      BY <2>4, ExtremesOfSeries
    <3>2. 1 \in 1 .. Len(w) /\ w[1] \in Int
      BY <2>4
    <3> HIDE DEF w
    <3>3. MinOf(w) <= MaxOf(w)
      BY <3>1, <3>2
    <3> QED BY <3>1, <3>3 DEF w
  <2> HIDE DEF WindowOf, u
  <2> QED BY <2>2, <2>5, <2>6
<1>3. Side(s) \in Int
  OBVIOUS
<1>4. Warm(u, n + 1, Side(u)) = -Warm(s, n + 1, Side(s))
  <2>1. Len(u) = Len(s) /\ Side(s) \in Int /\ (Len(s) < n + 1 \/ Side(u) = -Side(s))
    <3> HIDE DEF Side, u
    <3> QED BY <1>1, <1>2, <1>3
  <2> HIDE DEF Side, u
  <2> QED BY <2>1, WarmFlips
<1>5. \A z : Breakout(z, n) = Warm(z, n + 1, Side(z))
  BY Zenon DEF Breakout
<1> HIDE DEF Side
<1> QED BY <1>4, <1>5, Zenon

\* The middle of a window is mirrored too.
LEMMA MiddleFlips ==
  ASSUME NEW m \in Int, NEW s \in Seq(Int), NEW n \in 1 .. Len(s)
  PROVE  /\ MiddleOf(LastN(s, n)) \in Int
         /\ MiddleOf(LastN(Upside(s, m), n)) = 2 * m - MiddleOf(LastN(s, n))
<1> DEFINE w == LastN(s, n)
<1>1. LastN(Upside(s, m), n) = Upside(w, m) /\ w \in Seq(Int) /\ Len(w) > 0
  <2>1. n \in 0 .. Len(s) /\ n > 0
    OBVIOUS
  <2> QED BY <2>1, UpsideOfLast
<1> HIDE DEF w
<1>2. MaxOf(w) \in Int /\ MinOf(w) \in Int
  BY <1>1, ExtremesOfSeries
<1>3. MaxOf(Upside(w, m)) = m - MinOf(w) /\ MinOf(Upside(w, m)) = m - MaxOf(w)
  BY <1>1, UpsideExtremes
<1>4. MiddleOf(w) \in Int /\ MiddleOf(Upside(w, m)) = 2 * m - MiddleOf(w)
  BY <1>2, <1>3 DEF MiddleOf
<1> QED BY <1>1, <1>4 DEF w

\* A price above the middle of its range is below the middle of the mirrored range.
LEMMA RangesFlip ==
  ASSUME NEW m \in Int, NEW s \in Seq(Int), NEW n \in Nat \ {0}
  PROVE  /\ Donchian(Upside(s, m), n) = -Donchian(s, n)
         /\ RangeSr(Upside(s, m), n) = -RangeSr(s, n)
<1> DEFINE u == Upside(s, m)
           x == 2 * Latest(s) - MiddleOf(LastN(s, n))
           y == 2 * Latest(u) - MiddleOf(LastN(u, n))
           x2 == MiddleOf(LastN(s, n)) - 2 * Latest(s)
           y2 == MiddleOf(LastN(u, n)) - 2 * Latest(u)
<1>1. Len(u) = Len(s) /\ Len(s) \in Nat
  BY UpsideIs
<1>2. ASSUME ~(Len(s) < n) PROVE Sign(y) = -Sign(x) /\ Sign(y2) = -Sign(x2)
  <2>1. n \in 1 .. Len(s)
    BY <1>1, <1>2
  <2>2. /\ Latest(s) \in Int /\ Latest(u) = m - Latest(s) /\ MiddleOf(LastN(s, n)) \in Int
        /\ MiddleOf(LastN(u, n)) = 2 * m - MiddleOf(LastN(s, n))
    BY <2>1, UpsideLatest, MiddleFlips
  <2>3. PICK a, b \in Int : a = Latest(s) /\ b = MiddleOf(LastN(s, n))
    BY <2>2, Zenon
  <2>4. y = -x /\ x \in Int /\ y2 = -x2 /\ x2 \in Int
    <3>1. /\ 2 * (m - a) - (2 * m - b) = -(2 * a - b) /\ 2 * a - b \in Int
          /\ (2 * m - b) - 2 * (m - a) = -(b - 2 * a) /\ b - 2 * a \in Int
      OBVIOUS
    <3>2. x = 2 * a - b /\ y = 2 * (m - a) - (2 * m - b)
      BY <2>2, <2>3, Zenon
    <3>3. x2 = b - 2 * a /\ y2 = (2 * m - b) - 2 * (m - a)
      BY <2>2, <2>3, Zenon
    <3> QED BY <3>1, <3>2, <3>3, Zenon
  <2> HIDE DEF x, y, x2, y2
  <2> QED BY <2>4, SignFlips, Zenon
<1>3. Sign(x) \in Int /\ Sign(x2) \in Int
  BY DEF Sign
<1>4. Warm(u, n, Sign(y)) = -Warm(s, n, Sign(x))
  <2>1. Len(u) = Len(s) /\ Sign(x) \in Int /\ (Len(s) < n \/ Sign(y) = -Sign(x))
    BY <1>1, <1>2, <1>3
  <2> HIDE DEF x, y, x2, y2, u
  <2> QED BY <2>1, WarmFlips
<1>5. Warm(u, n, Sign(y2)) = -Warm(s, n, Sign(x2))
  <2>1. Len(u) = Len(s) /\ Sign(x2) \in Int /\ (Len(s) < n \/ Sign(y2) = -Sign(x2))
    BY <1>1, <1>2, <1>3
  <2> HIDE DEF x, y, x2, y2, u
  <2> QED BY <2>1, WarmFlips
<1> QED BY <1>4, <1>5, Zenon DEF Donchian, RangeSr

\* The sum of the last prices, mirrored.
LEMMA LastSumFlips ==
  ASSUME NEW m \in Int, NEW s \in Seq(Int), NEW n \in 0 .. Len(s)
  PROVE  SumOf(LastN(s, n)) \in Int /\ SumOf(LastN(Upside(s, m), n)) = m * n - SumOf(LastN(s, n))
<1>1. LastN(Upside(s, m), n) = Upside(LastN(s, n), m) /\ LastN(s, n) \in Seq(Int) /\ Len(LastN(s, n)) = n
  BY UpsideOfLast
<1> QED BY <1>1, UpsideSum

\* Two moving averages cross the other way.
LEMMA CrossoverFlips ==
  ASSUME NEW m \in Int, NEW s \in Seq(Int), NEW f \in Nat, NEW n \in Nat, f <= n
  PROVE  MaCrossover(Upside(s, m), f, n) = -MaCrossover(s, f, n)
<1> DEFINE u == Upside(s, m)
           x == n * SumOf(LastN(s, f)) - f * SumOf(LastN(s, n))
           y == n * SumOf(LastN(u, f)) - f * SumOf(LastN(u, n))
<1>1. Len(u) = Len(s) /\ Len(s) \in Nat
  BY UpsideIs
<1>2. ASSUME ~(Len(s) < n) PROVE Sign(y) = -Sign(x)
  <2>1. n \in 0 .. Len(s) /\ f \in 0 .. Len(s)
    BY <1>1, <1>2
  <2>2. /\ SumOf(LastN(s, f)) \in Int /\ SumOf(LastN(u, f)) = m * f - SumOf(LastN(s, f))
        /\ SumOf(LastN(s, n)) \in Int /\ SumOf(LastN(u, n)) = m * n - SumOf(LastN(s, n))
    BY <2>1, LastSumFlips
  <2>3. PICK a, b \in Int : a = SumOf(LastN(s, f)) /\ b = SumOf(LastN(s, n))
    BY <2>2, Zenon
  <2>4. y = -x /\ x \in Int
    <3>1. /\ n * (m * f - a) - f * (m * n - b) = -(n * a - f * b)
          /\ n * a - f * b \in Int
      OBVIOUS
    <3>2. x = n * a - f * b /\ y = n * (m * f - a) - f * (m * n - b)
      BY <2>2, <2>3, Zenon
    <3> QED BY <3>1, <3>2, Zenon
  <2> HIDE DEF x, y
  <2> QED BY <2>4, SignFlips, Zenon
<1>3. Sign(x) \in Int
  BY DEF Sign
<1>4. Warm(u, n, Sign(y)) = -Warm(s, n, Sign(x))
  <2>1. Len(u) = Len(s) /\ Sign(x) \in Int /\ (Len(s) < n \/ Sign(y) = -Sign(x))
    BY <1>1, <1>2, <1>3
  <2> HIDE DEF x, y, u
  <2> QED BY <2>1, WarmFlips
<1> QED BY <1>4, Zenon DEF MaCrossover

\* A price above its mean is below the mean of the mirrored prices.
LEMMA ZScoreFlips ==
  ASSUME NEW m \in Int, NEW s \in Seq(Int), NEW n \in Nat \ {0}
  PROVE  ZScore(Upside(s, m), n) = -ZScore(s, n)
<1> DEFINE u == Upside(s, m)
           x == SumOf(LastN(s, n)) - n * Latest(s)
           y == SumOf(LastN(u, n)) - n * Latest(u)
<1>1. Len(u) = Len(s) /\ Len(s) \in Nat
  BY UpsideIs
<1>2. ASSUME ~(Len(s) < n) PROVE Sign(y) = -Sign(x)
  <2>1. n \in 0 .. Len(s) /\ n \in 1 .. Len(s)
    BY <1>1, <1>2
  <2>2. /\ SumOf(LastN(s, n)) \in Int /\ SumOf(LastN(u, n)) = m * n - SumOf(LastN(s, n))
        /\ Latest(s) \in Int /\ Latest(u) = m - Latest(s)
    BY <2>1, LastSumFlips, UpsideLatest
  <2>3. \A a, b \in Int : (m * n - a) - n * (m - b) = -(a - n * b) /\ a - n * b \in Int
    OBVIOUS
  <2>4. y = -x /\ x \in Int
    BY <2>2, <2>3
  <2> HIDE DEF x, y
  <2> QED BY <2>4, SignFlips, Zenon
<1>3. Sign(x) \in Int
  BY DEF Sign
<1>4. Warm(u, n, Sign(y)) = -Warm(s, n, Sign(x))
  <2>1. Len(u) = Len(s) /\ Sign(x) \in Int /\ (Len(s) < n \/ Sign(y) = -Sign(x))
    BY <1>1, <1>2, <1>3
  <2> HIDE DEF x, y, u
  <2> QED BY <2>1, WarmFlips
<1> QED BY <1>4, Zenon DEF ZScore

\* A value the filter can have stays between the prices seen when both are mirrored.
LEMMA KalmanFlips ==
  ASSUME NEW m \in Int, NEW s \in Seq(Int)
  PROVE  Kalman(Upside(s, m)) = {-g : g \in Kalman(s)}
<1> DEFINE u == Upside(s, m)
<1>1. Len(u) = Len(s) /\ Len(s) \in Nat
  BY UpsideIs
<1>2. CASE Len(s) < 5
  <2>1. Kalman(s) = {0} /\ Kalman(u) = {0}
    BY <1>1, <1>2 DEF Kalman
  <2> QED BY <2>1
<1>3. CASE ~(Len(s) < 5)
  <2>1. Len(s) > 0 /\ 1 \in 1 .. Len(s)
    BY <1>1, <1>3
  <2>2. MaxOf(s) \in Int /\ MinOf(s) \in Int /\ MaxOf(u) = m - MinOf(s) /\ MinOf(u) = m - MaxOf(s)
    BY <2>1, ExtremesOfSeries, UpsideExtremes
  <2>3. Latest(s) \in Int /\ Latest(u) = m - Latest(s)
    BY <2>1, UpsideLatest
  <2>4. /\ Kalman(s) = {Sign(f - Latest(s)) : f \in MinOf(s) .. MaxOf(s)}
        /\ Kalman(u) = {Sign(f - Latest(u)) : f \in MinOf(u) .. MaxOf(u)}
    BY <1>1, <1>3, Zenon DEF Kalman
  <2>5. \A f \in Int : Sign((m - f) - Latest(u)) = -Sign(f - Latest(s))
    <3> SUFFICES ASSUME NEW f \in Int PROVE Sign((m - f) - Latest(u)) = -Sign(f - Latest(s))
      OBVIOUS
    <3>1. (m - f) - Latest(u) = -(f - Latest(s)) /\ f - Latest(s) \in Int
      BY <2>3
    <3> QED BY <3>1, SignFlips, Zenon
  <2> HIDE DEF u
  <2>6. ASSUME NEW g \in Kalman(u) PROVE \E h \in Kalman(s) : g = -h
    <3>1. PICK f \in MinOf(u) .. MaxOf(u) : g = Sign(f - Latest(u))
      BY <2>4, <2>6, Zenon
    <3>2. f \in Int /\ m - f \in MinOf(s) .. MaxOf(s) /\ m - (m - f) = f /\ m - f \in Int
      BY <2>2
    <3>3. g = -Sign((m - f) - Latest(s))
      BY <2>5, <3>1, <3>2
    <3>4. Sign((m - f) - Latest(s)) \in Kalman(s)
      BY <2>4, <3>2, Zenon
    <3> QED BY <3>3, <3>4, Zenon
  <2>7. ASSUME NEW h \in Kalman(s) PROVE -h \in Kalman(u)
    <3>1. PICK f \in MinOf(s) .. MaxOf(s) : h = Sign(f - Latest(s))
      BY <2>4, <2>7, Zenon
    <3>2. f \in Int /\ m - f \in MinOf(u) .. MaxOf(u)
      BY <2>2
    <3>3. -h = Sign((m - f) - Latest(u))
      BY <2>5, <3>1, <3>2
    <3> QED BY <2>4, <3>2, <3>3, Zenon
  <2>8. Kalman(u) = {-g : g \in Kalman(s)}
    BY <2>6, <2>7, Zenon
  <2> QED BY <2>8 DEF u
<1> QED BY <1>2, <1>3

-----------------------------------------------------------------------------
(* Powers and averages, which are tables (Signals)                         *)

\* f begins with z and goes on with b[i] and c times the entry before.
IsRun(f, z, b, c, from, to) ==
  f = [i \in from - 1 .. to |-> IF i < from THEN z ELSE b[i] + c * f[i - 1]]

\* A table that is computed from one entry to the next exists, and its entries are integers.
LEMMA RunExists ==
  ASSUME NEW from \in Int, NEW n \in Nat, NEW z, NEW b, NEW c
  PROVE  \E f : IsRun(f, z, b, c, from, from - 1 + n)
<1> DEFINE L == {k \in Nat : \E f : IsRun(f, z, b, c, from, from - 1 + k)}
<1>1. 0 \in L
  <2> DEFINE f == [i \in from - 1 .. from - 1 + 0 |-> z]
  <2>1. \A i \in from - 1 .. from - 1 + 0 : i < from
    OBVIOUS
  <2>2. f = [i \in from - 1 .. from - 1 + 0 |-> IF i < from THEN z ELSE b[i] + c * f[i - 1]]
    BY <2>1
  <2>3. IsRun(f, z, b, c, from, from - 1 + 0)
    <3> HIDE DEF f
    <3> QED BY <2>2, Zenon DEF IsRun
  <2> HIDE DEF f
  <2> QED BY <2>3
<1>2. ASSUME NEW k \in Nat, k \in L PROVE k + 1 \in L
  <2>1. PICK g : IsRun(g, z, b, c, from, from - 1 + k)
    BY <1>2
  <2> DEFINE I == from - 1 .. from - 1 + (k + 1)
             h == [i \in I |-> IF i < from THEN z ELSE b[i] + c * g[i - 1]]
  <2>2. \A i \in I : ~(i < from) => i - 1 \in from - 1 .. from - 1 + k
    OBVIOUS
  <2>3. \A i \in from - 1 .. from - 1 + k : i \in I
    OBVIOUS
  <2>4. \A i \in from - 1 .. from - 1 + k : h[i] = g[i]
    <3> SUFFICES ASSUME NEW i \in from - 1 .. from - 1 + k PROVE h[i] = g[i]
      OBVIOUS
    <3>1. h[i] = IF i < from THEN z ELSE b[i] + c * g[i - 1]
      BY <2>3, Zenon
    <3>2. g[i] = IF i < from THEN z ELSE b[i] + c * g[i - 1]
      BY <2>1, Zenon DEF IsRun
    <3> QED BY <3>1, <3>2, Zenon
  <2>5. \A i \in I : ~(i < from) => h[i - 1] = g[i - 1]
    <3> HIDE DEF h, I
    <3> QED BY <2>2, <2>4
  <2>6. h = [i \in I |-> IF i < from THEN z ELSE b[i] + c * h[i - 1]]
    <3> HIDE DEF I
    <3> QED BY <2>5, Zenon
  <2>7. IsRun(h, z, b, c, from, from - 1 + (k + 1))
    <3> HIDE DEF h
    <3> QED BY <2>6, Zenon DEF IsRun
  <2> HIDE DEF h
  <2> QED BY <2>7
<1>3. n \in L
  <2> HIDE DEF L
  <2> QED BY <1>1, <1>2, Inductive
<1> QED BY <1>3

IntsOn(b, from, to) == \A i \in from .. to : b[i] \in Int
\* The same, one entry at a time.
RunOf(f, z, b, c, from, to) ==
  /\ f[from - 1] = z
  /\ \A i \in from - 1 .. to : f[i] \in Int
  /\ \A i \in from .. to : f[i] = b[i] + c * f[i - 1]

\* So the table a definition chooses is computed so.
LEMMA RunIs ==
  ASSUME NEW from \in Int, NEW to \in Int, from - 1 <= to, NEW z \in Int, NEW c \in Int, NEW b,
         IntsOn(b, from, to), NEW f, IsRun(f, z, b, c, from, to)
  PROVE  RunOf(f, z, b, c, from, to)
<1> DEFINE n == to - from + 1
           L == {k \in Nat : k <= n => f[from - 1 + k] \in Int}
<1>0. n \in Nat /\ from - 1 + n = to
  OBVIOUS
<1>1. \A i \in from - 1 .. to : f[i] = IF i < from THEN z ELSE b[i] + c * f[i - 1]
  BY Zenon DEF IsRun
<1>2. f[from - 1] = z
  <2>1. from - 1 \in from - 1 .. to /\ from - 1 < from
    OBVIOUS
  <2> QED BY <1>1, <2>1, Zenon
<1>3. ASSUME NEW i \in from .. to PROVE f[i] = b[i] + c * f[i - 1]
  <2>1. i \in from - 1 .. to /\ ~(i < from)
    OBVIOUS
  <2> QED BY <1>1, <2>1, Zenon
<1>4. 0 \in L
  BY <1>2
<1>5. ASSUME NEW k \in Nat, k \in L PROVE k + 1 \in L
  <2> SUFFICES ASSUME k + 1 <= n PROVE f[from - 1 + (k + 1)] \in Int
    OBVIOUS
  <2>1. from - 1 + (k + 1) \in from .. to /\ from - 1 + (k + 1) - 1 = from - 1 + k
    OBVIOUS
  <2>2. f[from - 1 + k] \in Int
    BY <1>5
  <2>3. f[from - 1 + (k + 1)] = b[from - 1 + (k + 1)] + c * f[from - 1 + k]
    BY <1>3, <2>1
  <2>4. b[from - 1 + (k + 1)] \in Int
    BY <2>1, Zenon DEF IntsOn
  <2>5. PICK x, y \in Int : x = f[from - 1 + k] /\ y = b[from - 1 + (k + 1)]
    BY <2>2, <2>4, Zenon
  <2>6. y + c * x \in Int
    OBVIOUS
  <2> QED BY <2>3, <2>5, <2>6, Zenon
<1>6. Nat \subseteq L
  <2> HIDE DEF L
  <2> QED BY <1>4, <1>5, Inductive
<1>7. ASSUME NEW i \in from - 1 .. to PROVE f[i] \in Int
  <2>1. i - (from - 1) \in Nat /\ i - (from - 1) <= n /\ from - 1 + (i - (from - 1)) = i
    OBVIOUS
  <2>2. f[from - 1 + (i - (from - 1))] \in Int
    BY <1>6, <2>1
  <2> QED BY <2>1, <2>2
<1> QED BY <1>2, <1>3, <1>7, Zenon DEF RunOf

\* The table behind a power.
IsPowers(f, x, k) == f = [i \in 0 .. k |-> IF i = 0 THEN 1 ELSE x * f[i - 1]]

PowersOf(f, x, k) ==
  /\ f[0] = 1 /\ \A i \in 0 .. k : f[i] \in Int
  /\ \A i \in 1 .. k : f[i] = x * f[i - 1]

\* The table of powers that Power chooses.
LEMMA PowerTable ==
  ASSUME NEW x \in Int, NEW k \in Nat
  PROVE  \E f : PowersOf(f, x, k) /\ Power(x, k) = f[k]
<1> DEFINE zero == [i \in 1 .. k |-> 0]
<1>0. PICK a \in Int : a = 1
  OBVIOUS
<1>1. PICK g : IsRun(g, 1, zero, x, a, a - 1 + k)
  BY RunExists, Zenon
<1>2. /\ g[a - 1] = 1 /\ \A i \in a - 1 .. a - 1 + k : g[i] \in Int
      /\ \A i \in a .. a - 1 + k : g[i] = zero[i] + x * g[i - 1]
  <2>1. /\ 1 \in Int /\ a - 1 + k \in Int /\ a - 1 <= a - 1 + k
        /\ \A i \in a .. a - 1 + k : zero[i] \in Int
    BY <1>0
  <2>2. IntsOn(zero, a, a - 1 + k)
    BY <2>1, Zenon DEF IntsOn
  <2> HIDE DEF zero
  <2> DEFINE to == a - 1 + k
  <2>3. RunOf(g, 1, zero, x, a, to)
    <3>1. to \in Int /\ a - 1 <= to /\ IntsOn(zero, a, to) /\ IsRun(g, 1, zero, x, a, to)
      BY <1>1, <2>1, <2>2
    <3> HIDE DEF to
    <3> QED BY <2>1, <3>1, RunIs
  <2> QED BY <2>3, Zenon DEF RunOf
<1>3. g[0] = 1 /\ \A i \in 1 .. k : g[i] = x * g[i - 1]
  <2>1. ASSUME NEW i \in 1 .. k PROVE g[i] = x * g[i - 1]
    <3>1. g[i] = zero[i] + x * g[i - 1] /\ zero[i] = 0 /\ g[i - 1] \in Int
      BY <1>0, <1>2
    <3>2. PICK y \in Int : y = g[i - 1]
      BY <3>1, Zenon
    <3>3. 0 + x * y = x * y
      OBVIOUS
    <3> QED BY <3>1, <3>2, <3>3, Zenon
  <2> QED BY <1>0, <1>2, <2>1
<1>4. IsPowers(g, x, k)
  <2>1. DOMAIN g = 0 .. k /\ g = [i \in DOMAIN g |-> g[i]]
    <3>1. a - 1 .. a - 1 + k = 0 .. k
      BY <1>0
    <3>2. g = [i \in a - 1 .. a - 1 + k |-> IF i < a THEN 1 ELSE zero[i] + x * g[i - 1]]
      <4> HIDE DEF zero
      <4> QED BY <1>1, Zenon DEF IsRun
    <3> HIDE DEF zero
    <3> QED BY <3>1, <3>2
  <2>2. \A i \in 0 .. k : g[i] = IF i = 0 THEN 1 ELSE x * g[i - 1]
    BY <1>3
  <2>3. g = [i \in 0 .. k |-> IF i = 0 THEN 1 ELSE x * g[i - 1]]
    BY <2>1, <2>2, Zenon
  <2> QED BY <2>3, Zenon DEF IsPowers
<1> DEFINE f == CHOOSE h : IsPowers(h, x, k)
<1>5. IsPowers(f, x, k)
  BY <1>4, Zenon
<1>6. Power(x, k) = f[k]
  BY Zenon DEF Power, IsPowers
<1> HIDE DEF f
<1>7. \A i \in 0 .. k : f[i] = IF i = 0 THEN 1 ELSE x * f[i - 1]
  BY <1>5, Zenon DEF IsPowers
<1>8. f[0] = 1 /\ \A i \in 1 .. k : f[i] = x * f[i - 1]
  BY <1>7
<1> DEFINE L == {i \in Nat : i <= k => f[i] \in Int}
<1>9. 0 \in L
  BY <1>8
<1>10. ASSUME NEW i \in Nat, i \in L PROVE i + 1 \in L
  <2> SUFFICES ASSUME i + 1 <= k PROVE f[i + 1] \in Int
    OBVIOUS
  <2>1. i + 1 \in 1 .. k /\ (i + 1) - 1 = i /\ f[i] \in Int
    BY <1>10
  <2>2. f[i + 1] = x * f[i]
    BY <1>8, <2>1
  <2>3. PICK y \in Int : y = f[i]
    BY <2>1, Zenon
  <2>4. x * y \in Int
    OBVIOUS
  <2> QED BY <2>2, <2>3, <2>4, Zenon
<1>11. \A i \in 0 .. k : f[i] \in Int
  <2>1. Nat \subseteq L
    <3> HIDE DEF L
    <3> QED BY <1>9, <1>10, Inductive
  <2> QED BY <2>1
<1> QED BY <1>6, <1>8, <1>11, Zenon DEF PowersOf

\* Powers, from one to the next.
LEMMA PowerIs ==
  ASSUME NEW x \in Int
  PROVE  /\ Power(x, 0) = 1
         /\ \A k \in Nat : Power(x, k) \in Int /\ Power(x, k + 1) = x * Power(x, k)
<1>1. Power(x, 0) = 1
  <2>1. 0 \in Nat
    OBVIOUS
  <2>2. PICK f : PowersOf(f, x, 0) /\ Power(x, 0) = f[0]
    BY <2>1, PowerTable, Zenon
  <2> QED BY <2>2, Zenon DEF PowersOf
<1>2. ASSUME NEW k \in Nat PROVE Power(x, k) \in Int /\ Power(x, k + 1) = x * Power(x, k)
  <2>1. PICK f : PowersOf(f, x, k) /\ Power(x, k) = f[k]
    BY PowerTable, Zenon
  <2>2. k + 1 \in Nat
    OBVIOUS
  <2>3. PICK g : PowersOf(g, x, k + 1) /\ Power(x, k + 1) = g[k + 1]
    BY <2>2, PowerTable, Zenon
  <2> DEFINE L == {i \in Nat : i <= k => g[i] = f[i]}
  <2>4. 0 \in L
    BY <2>1, <2>3 DEF PowersOf
  <2>5. ASSUME NEW i \in Nat, i \in L PROVE i + 1 \in L
    <3> SUFFICES ASSUME i + 1 <= k PROVE g[i + 1] = f[i + 1]
      OBVIOUS
    <3>1. i + 1 \in 1 .. k /\ i + 1 \in 1 .. k + 1 /\ (i + 1) - 1 = i /\ g[i] = f[i]
      BY <2>5
    <3>2. g[i + 1] = x * g[i] /\ f[i + 1] = x * f[i]
      BY <2>1, <2>3, <3>1 DEF PowersOf
    <3> QED BY <3>1, <3>2, Zenon
  <2>6. k \in L
    <3> HIDE DEF L
    <3> QED BY <2>4, <2>5, Inductive
  <2>7. g[k] = f[k]
    BY <2>6
  <2>8. k + 1 \in 1 .. k + 1 /\ (k + 1) - 1 = k /\ k \in 0 .. k
    OBVIOUS
  <2>9. g[k + 1] = x * g[k]
    BY <2>3, <2>8 DEF PowersOf
  <2>10. Power(x, k) \in Int
    BY <2>1, <2>8 DEF PowersOf
  <2> QED BY <2>10, <2>1, <2>3, <2>7, <2>8, <2>9, Zenon
<1> QED BY <1>1, <1>2

\* A product of two powers of a number is one of its powers.
LEMMA PowersAdd ==
  ASSUME NEW x \in Int, NEW j \in Nat, NEW k \in Nat
  PROVE  Power(x, j + k) = Power(x, j) * Power(x, k)
<1> DEFINE L == {i \in Nat : Power(x, i + k) = Power(x, i) * Power(x, k)}
<1>1. 0 \in L
  <2>1. Power(x, 0) = 1 /\ Power(x, k) \in Int /\ 0 + k = k
    BY PowerIs
  <2> QED BY <2>1
<1>2. ASSUME NEW i \in Nat, i \in L PROVE i + 1 \in L
  <2>1. (i + 1) + k = (i + k) + 1 /\ i + k \in Nat
    OBVIOUS
  <2>2. /\ Power(x, i + 1) = x * Power(x, i) /\ Power(x, (i + k) + 1) = x * Power(x, i + k)
        /\ Power(x, i) \in Int /\ Power(x, k) \in Int
    BY <2>1, PowerIs
  <2>3. Power(x, i + k) = Power(x, i) * Power(x, k)
    BY <1>2
  <2>4. \A a, b \in Int : x * (a * b) = (x * a) * b
    OBVIOUS
  <2>5. Power(x, (i + 1) + k) = Power(x, i + 1) * Power(x, k)
    BY <2>1, <2>2, <2>3, <2>4, Zenon
  <2> QED BY <2>5
<1>3. j \in L
  <2> HIDE DEF L
  <2> QED BY <1>1, <1>2, Inductive
<1> QED BY <1>3

\* The powers of a positive number are positive.
LEMMA PowerPositive ==
  ASSUME NEW x \in Nat \ {0}, NEW k \in Nat
  PROVE  Power(x, k) \in Nat \ {0}
<1> DEFINE L == {i \in Nat : Power(x, i) \in Nat \ {0}}
<1>1. 0 \in L
  <2>1. x \in Int
    OBVIOUS
  <2>2. Power(x, 0) = 1
    BY <2>1, PowerIs, Zenon
  <2> QED BY <2>2
<1>2. ASSUME NEW i \in Nat, i \in L PROVE i + 1 \in L
  <2>1. Power(x, i + 1) = x * Power(x, i) /\ Power(x, i) \in Nat \ {0}
    BY <1>2, PowerIs
  <2>2. \A a, b \in Nat \ {0} : a * b \in Nat \ {0}
    OBVIOUS
  <2>3. Power(x, i + 1) \in Nat \ {0}
    BY <2>1, <2>2, Zenon
  <2> QED BY <2>3
<1>3. k \in L
  <2> HIDE DEF L
  <2> QED BY <1>1, <1>2, Inductive
<1> QED BY <1>3

\* What the price i adds to an average.
Pushes(s, from, n) == [i \in from .. Len(s) |-> 2 * Unit(n, i - from) * s[i]]

\* The unit of an average, from one price to the next.
LEMMA UnitIs ==
  ASSUME NEW n \in Nat
  PROVE  /\ Unit(n, 0) = n
         /\ \A k \in Nat : Unit(n, k) \in Int /\ Unit(n, k + 1) = (n + 1) * Unit(n, k)
<1>1. n + 1 \in Int /\ n \in Int
  OBVIOUS
<1> DEFINE x == n + 1
<1>2. /\ Power(x, 0) = 1
      /\ \A k \in Nat : Power(x, k) \in Int /\ Power(x, k + 1) = x * Power(x, k)
  <2> HIDE DEF x
  <2>1. x \in Int
    BY <1>1 DEF x
  <2> QED BY <2>1, PowerIs, Zenon
<1>3. \A k : Unit(n, k) = n * Power(x, k)
  BY Zenon DEF Unit
<1>4. Unit(n, 0) = n
  <2>1. n * 1 = n
    OBVIOUS
  <2> QED BY <1>2, <1>3, <2>1, Zenon
<1>5. ASSUME NEW k \in Nat PROVE Unit(n, k) \in Int /\ Unit(n, k + 1) = x * Unit(n, k)
  <2>1. Power(x, k) \in Int /\ Power(x, k + 1) = x * Power(x, k)
    BY <1>2
  <2>2. x \in Int
    OBVIOUS
  <2> HIDE DEF x
  <2>3. \A p \in Int : n * p \in Int /\ n * (x * p) = x * (n * p)
    BY <2>2
  <2>4. n * Power(x, k) \in Int /\ n * Power(x, k + 1) = x * (n * Power(x, k))
    BY <2>1, <2>3, Zenon
  <2>5. Unit(n, k) = n * Power(x, k) /\ Unit(n, k + 1) = n * Power(x, k + 1)
    BY <1>3, Zenon
  <2> QED BY <2>4, <2>5, Zenon
<1> QED BY <1>4, <1>5

\* An average, from one price to the next.
LEMMA EmaIs ==
  ASSUME NEW s \in Seq(Int), NEW from \in 1 .. Len(s) + 1, NEW n \in Nat, NEW sum \in Int
  PROVE  /\ RunOf(Ema(s, from, n, sum), sum, Pushes(s, from, n), n - 1, from, Len(s))
         /\ IntsOn(Pushes(s, from, n), from, Len(s))
<1> DEFINE b == Pushes(s, from, n)
           to == Len(s)
           c == n - 1
           E(f) == f = [i \in from - 1 .. to |->
                          IF i < from THEN sum ELSE 2 * Unit(n, i - from) * s[i] + c * f[i - 1]]
           e == CHOOSE f : E(f)
<1>0. from \in Int /\ to \in Int /\ from - 1 <= to /\ c \in Int /\ to - from + 1 \in Nat
      /\ from - 1 + (to - from + 1) = to
  OBVIOUS
<1>1. \A i \in from .. to : b[i] = 2 * Unit(n, i - from) * s[i]
  BY Zenon DEF Pushes
<1>2. IntsOn(b, from, to)
  <2> SUFFICES ASSUME NEW i \in from .. to PROVE b[i] \in Int
    BY Zenon DEF IntsOn
  <2>1. i - from \in Nat /\ s[i] \in Int
    OBVIOUS
  <2>2. Unit(n, i - from) \in Int
    BY <2>1, UnitIs
  <2>3. \A p, q \in Int : 2 * p * q \in Int
    OBVIOUS
  <2> QED BY <1>1, <2>1, <2>2, <2>3, Zenon
<1> HIDE DEF b, c, to
<1>3. ASSUME NEW f PROVE E(f) <=> IsRun(f, sum, b, c, from, to)
  <2>1. \A i \in from - 1 .. to : ~(i < from) => i \in from .. to
    BY <1>0
  <2>2. \A i \in from - 1 .. to :
          (IF i < from THEN sum ELSE 2 * Unit(n, i - from) * s[i] + c * f[i - 1])
          = (IF i < from THEN sum ELSE b[i] + c * f[i - 1])
    BY <1>1, <2>1, Zenon
  <2>3. [i \in from - 1 .. to |-> IF i < from THEN sum ELSE 2 * Unit(n, i - from) * s[i] + c * f[i - 1]]
        = [i \in from - 1 .. to |-> IF i < from THEN sum ELSE b[i] + c * f[i - 1]]
    BY <2>2, Zenon
  <2> QED BY <2>3, Zenon DEF IsRun
<1>4. \E f : E(f)
  <2>1. PICK k \in Nat : from - 1 + k = to
    BY <1>0
  <2> HIDE DEF E
  <2>2. \E f : IsRun(f, sum, b, c, from, from - 1 + k)
    BY <1>0, RunExists, Zenon
  <2> QED BY <1>3, <2>1, <2>2, Zenon
<1>5. IsRun(e, sum, b, c, from, to)
  <2> HIDE DEF E
  <2>1. E(e)
    BY <1>4, Zenon
  <2> HIDE DEF e
  <2> QED BY <1>3, <2>1, Zenon
<1>6. Ema(s, from, n, sum) = e
  BY Zenon DEF Ema, to, c
<1> HIDE DEF e, E
<1>7. RunOf(e, sum, b, c, from, to)
  BY <1>0, <1>2, <1>5, RunIs
<1> QED BY <1>2, <1>6, <1>7, Zenon DEF b, c, to

\* An average of the mirrored series is the mirrored average.
LEMMA EmaFlips ==
  ASSUME NEW m \in Int, NEW s \in Seq(Int), NEW from \in 1 .. Len(s) + 1, NEW n \in Nat,
         NEW sum \in Int, NEW i \in from - 1 .. Len(s)
  PROVE  /\ Ema(s, from, n, sum)[i] \in Int
         /\ Ema(Upside(s, m), from, n, m * n - sum)[i]
            = m * Unit(n, i - from + 1) - Ema(s, from, n, sum)[i]
<1> DEFINE u == Upside(s, m)
           e == Ema(s, from, n, sum)
           d == Ema(u, from, n, m * n - sum)
           b == Pushes(s, from, n)
           a == Pushes(u, from, n)
           c == n - 1
           L == {k \in Nat : from - 1 + k <= Len(s) =>
                   d[from - 1 + k] = m * Unit(n, k) - e[from - 1 + k]}
<1>1. u \in Seq(Int) /\ Len(u) = Len(s) /\ Len(s) \in Nat
      /\ \A j \in 1 .. Len(s) : s[j] \in Int /\ u[j] = m - s[j]
  BY UpsideIs
<1>2. from \in 1 .. Len(u) + 1 /\ m * n - sum \in Int /\ from \in Int /\ c \in Int
  BY <1>1
<1> HIDE DEF u
<1>3. RunOf(e, sum, b, c, from, Len(s))
  BY EmaIs
<1>4. RunOf(d, m * n - sum, a, c, from, Len(s))
  BY <1>1, <1>2, EmaIs
<1>5. \A j \in from .. Len(s) : b[j] = 2 * Unit(n, j - from) * s[j] /\ a[j] = 2 * Unit(n, j - from) * u[j]
  BY <1>1, Zenon DEF Pushes
<1>6. /\ Unit(n, 0) = n
      /\ \A k \in Nat : Unit(n, k) \in Int /\ Unit(n, k + 1) = (n + 1) * Unit(n, k)
  BY UnitIs
<1> HIDE DEF a, b, d, e
<1>7. /\ e[from - 1] = sum /\ \A j \in from - 1 .. Len(s) : e[j] \in Int
      /\ \A j \in from .. Len(s) : e[j] = b[j] + c * e[j - 1]
      /\ d[from - 1] = m * n - sum /\ \A j \in from .. Len(s) : d[j] = a[j] + c * d[j - 1]
  BY <1>3, <1>4, Zenon DEF RunOf
<1>8. 0 \in L
  <2>1. from - 1 + 0 = from - 1
    OBVIOUS
  <2>2. d[from - 1] = m * Unit(n, 0) - e[from - 1]
    BY <1>6, <1>7
  <2> QED BY <2>1, <2>2
<1>9. ASSUME NEW k \in Nat, k \in L PROVE k + 1 \in L
  <2> SUFFICES ASSUME from - 1 + (k + 1) <= Len(s)
               PROVE  d[from - 1 + (k + 1)] = m * Unit(n, k + 1) - e[from - 1 + (k + 1)]
    OBVIOUS
  <2>1. PICK j \in from .. Len(s) : j = from - 1 + (k + 1)
    BY <1>1
  <2>2. j - 1 = from - 1 + k /\ j - from = k /\ j \in 1 .. Len(s) /\ j - 1 \in from - 1 .. Len(s)
    BY <2>1
  <2>3. d[j - 1] = m * Unit(n, k) - e[j - 1]
    BY <1>9, <2>2, <1>1
  <2>4. /\ e[j] = 2 * Unit(n, k) * s[j] + c * e[j - 1] /\ e[j - 1] \in Int
        /\ d[j] = 2 * Unit(n, k) * (m - s[j]) + c * d[j - 1] /\ s[j] \in Int
    <3>1. b[j] = 2 * Unit(n, k) * s[j] /\ a[j] = 2 * Unit(n, k) * (m - s[j]) /\ s[j] \in Int
      BY <1>1, <1>5, <2>2, Zenon
    <3> QED BY <1>7, <2>2, <3>1, Zenon
  <2>5. \A U, x, y \in Int :
          2 * U * (m - x) + c * (m * U - y) = m * ((n + 1) * U) - (2 * U * x + c * y)
    OBVIOUS
  <2>6. Unit(n, k) \in Int /\ Unit(n, k + 1) = (n + 1) * Unit(n, k)
    BY <1>6
  <2> HIDE DEF c
  <2>8. 2 * Unit(n, k) * (m - s[j]) + c * (m * Unit(n, k) - e[j - 1])
        = m * ((n + 1) * Unit(n, k)) - (2 * Unit(n, k) * s[j] + c * e[j - 1])
    BY <2>4, <2>5, <2>6, Zenon
  <2>7. d[j] = m * Unit(n, k + 1) - e[j]
    BY <2>3, <2>4, <2>6, <2>8, Zenon
  <2> QED BY <2>1, <2>7, Zenon
<1>10. Nat \subseteq L
  <2> HIDE DEF L
  <2> QED BY <1>8, <1>9, Inductive
<1>11. PICK k \in Nat : from - 1 + k = i /\ i - from + 1 = k
  <2>1. i - from + 1 \in Nat /\ from - 1 + (i - from + 1) = i
    OBVIOUS
  <2> QED BY <2>1
<1>12. d[i] = m * Unit(n, k) - e[i]
  <2>1. i <= Len(s)
    BY <1>1
  <2>2. k \in L
    BY <1>10
  <2> QED BY <1>11, <2>1, <2>2
<1>13. e[i] \in Int
  BY <1>7
<1> QED BY <1>11, <1>12, <1>13, Zenon DEF d, e, u

-----------------------------------------------------------------------------
(* What a mirrored market is answered                                      *)

\* Numbers of opposite signs give opposite signals.
LEMMA SignsFlip ==
  ASSUME NEW s, NEW u, Len(u) = Len(s), NEW n, NEW x, NEW y,
         ~(Len(s) < n) => x \in Int /\ y = -x
  PROVE  Warm(u, n, Sign(y)) = -Warm(s, n, Sign(x))
<1>1. Sign(x) \in Int
  BY DEF Sign
<1>2. Len(s) < n \/ Sign(y) = -Sign(x)
  BY SignFlips, Zenon
<1> QED BY <1>1, <1>2, WarmFlips

\* The average over the last prices, mirrored.
LEMMA LastAverageFlips ==
  ASSUME NEW m \in Int, NEW s \in Seq(Int), NEW n \in 1 .. Len(s)
  PROVE  /\ EmaOfLast(s, n) \in Int /\ Unit(n, n - 1) \in Int
         /\ EmaOfLast(Upside(s, m), n) = m * Unit(n, n - 1) - EmaOfLast(s, n)
<1> DEFINE u == Upside(s, m)
           sum == SumOf(LastN(s, n))
           other == SumOf(LastN(u, n))
<1>1. Len(u) = Len(s) /\ Len(s) \in Nat
  BY UpsideIs
<1>2. sum \in Int /\ other = m * n - sum
  <2>1. n \in 0 .. Len(s)
    OBVIOUS
  <2> QED BY <2>1, LastSumFlips
<1>3. PICK from \in 1 .. Len(s) + 1 : from = Len(s) - n + 2
  <2>1. Len(s) - n + 2 \in 1 .. Len(s) + 1
    BY <1>1
  <2> QED BY <2>1, Zenon
<1>4. n \in Nat /\ n - 1 \in Nat /\ Len(s) - from + 1 = n - 1 /\ Len(s) \in from - 1 .. Len(s)
  BY <1>1, <1>3
<1>5. /\ EmaOfLast(s, n) = Ema(s, from, n, sum)[Len(s)]
      /\ EmaOfLast(u, n) = Ema(u, from, n, m * n - sum)[Len(s)]
  BY <1>1, <1>2, <1>3, Zenon DEF EmaOfLast
<1> HIDE DEF sum, other
<1>6. /\ Ema(s, from, n, sum)[Len(s)] \in Int
      /\ Ema(u, from, n, m * n - sum)[Len(s)]
         = m * Unit(n, Len(s) - from + 1) - Ema(s, from, n, sum)[Len(s)]
  BY <1>2, <1>4, EmaFlips
<1>7. Unit(n, n - 1) \in Int
  BY <1>4, UnitIs
<1> QED BY <1>4, <1>5, <1>6, <1>7, Zenon

\* Of two averages each of which is mirrored the difference is negated.
LEMMA DifferenceFlips ==
  \A m, U, V, x, y \in Int : /\ U * x - V * y \in Int
                             /\ U * (m * V - x) - V * (m * U - y) = -(U * x - V * y)
OBVIOUS

\* Two exponential averages cross the other way.
LEMMA EmaCrossoverFlips ==
  ASSUME NEW m \in Int, NEW s \in Seq(Int), NEW f \in Nat \ {0}, NEW n \in Nat, f <= n
  PROVE  EmaCrossover(Upside(s, m), f, n) = -EmaCrossover(s, f, n)
<1> DEFINE u == Upside(s, m)
           U == Unit(n, n - 1)
           V == Unit(f, f - 1)
           x == U * EmaOfLast(s, f) - V * EmaOfLast(s, n)
           y == U * EmaOfLast(u, f) - V * EmaOfLast(u, n)
<1>1. Len(u) = Len(s) /\ Len(s) \in Nat
  BY UpsideIs
<1>2. ASSUME ~(Len(s) < n) PROVE x \in Int /\ y = -x
  <2>1. n \in 1 .. Len(s) /\ f \in 1 .. Len(s)
    BY <1>1, <1>2
  <2>2. /\ EmaOfLast(s, f) \in Int /\ V \in Int /\ EmaOfLast(u, f) = m * V - EmaOfLast(s, f)
        /\ EmaOfLast(s, n) \in Int /\ U \in Int /\ EmaOfLast(u, n) = m * U - EmaOfLast(s, n)
    BY <2>1, LastAverageFlips
  <2> HIDE DEF U, V, u
  <2> QED BY <2>2, DifferenceFlips
<1>3. Warm(u, n, Sign(y)) = -Warm(s, n, Sign(x))
  <2> HIDE DEF x, y, u
  <2> QED BY <1>1, <1>2, SignsFlip
<1> QED BY <1>3, Zenon DEF EmaCrossover

\* A point of a line of MACD, mirrored.
LEMMA LineFlips ==
  ASSUME NEW m \in Int, NEW s \in Seq(Int), NEW n \in 1 .. Len(s), NEW i \in n .. Len(s)
  PROVE  /\ LineOf(s, n, i) \in Int /\ Unit(n, Len(s) - n) \in Int
         /\ LineOf(Upside(s, m), n, i) = m * Unit(n, Len(s) - n) - LineOf(s, n, i)
<1> DEFINE u == Upside(s, m)
           w == SubSeq(s, 1, n)
           sum == SumOf(w)
           e == Ema(s, n + 1, n, sum)[i]
           P == Power(n + 1, Len(s) - i)
<1>1. Len(u) = Len(s) /\ Len(s) \in Nat /\ n \in Nat
  BY UpsideIs
<1>2. 1 \in 1 .. Len(s) + 1 /\ n \in 1 - 1 .. Len(s) /\ n - 1 + 1 = n
  BY <1>1
<1>3. w \in Seq(Int) /\ Len(w) = n /\ SubSeq(u, 1, n) = Upside(w, m)
  BY <1>2, PartIs, UpsideOfPart
<1>4. sum \in Int /\ SumOf(SubSeq(u, 1, n)) = m * n - sum
  <2> HIDE DEF w
  <2> QED BY <1>3, UpsideSum
<1>5. PICK from \in 1 .. Len(s) + 1 : from = n + 1
  BY <1>1
<1>6. PICK j \in Nat : j = i - n
  OBVIOUS
<1>7. PICK k \in Nat : k = Len(s) - i
  BY <1>1
<1>8. i - from + 1 = j /\ i \in from - 1 .. Len(s) /\ Len(s) - n = j + k /\ n + 1 \in Int
  BY <1>1, <1>5, <1>6, <1>7
<1> HIDE DEF w, sum
<1>9. /\ Ema(s, from, n, sum)[i] \in Int
      /\ Ema(u, from, n, m * n - sum)[i] = m * Unit(n, i - from + 1) - Ema(s, from, n, sum)[i]
  BY <1>1, <1>4, <1>8, EmaFlips
<1>10. e \in Int /\ Ema(u, n + 1, n, m * n - sum)[i] = m * Unit(n, j) - e
  BY <1>5, <1>8, <1>9, Zenon
<1>11. Power(n + 1, j + k) = Power(n + 1, j) * Power(n + 1, k)
  BY <1>8, PowersAdd
<1>12. Power(n + 1, j) \in Int /\ Power(n + 1, k) \in Int
  BY <1>8, PowerIs, Zenon
<1>13. Unit(n, j) = n * Power(n + 1, j) /\ Unit(n, Len(s) - n) = n * Power(n + 1, Len(s) - n)
  BY Zenon DEF Unit
<1>14. P = Power(n + 1, k)
  BY <1>7, Zenon
<1>15. LineOf(s, n, i) = e * P
  BY Zenon DEF LineOf, sum, w
<1>16. LineOf(u, n, i) = (m * Unit(n, j) - e) * P
  BY <1>1, <1>4, <1>10, Zenon DEF LineOf
<1>17. Unit(n, Len(s) - n) = n * (Power(n + 1, j) * Power(n + 1, k))
  BY <1>8, <1>11, <1>13, Zenon
<1> HIDE DEF e, P
<1>18. PICK p, q, z \in Int : p = Power(n + 1, j) /\ q = Power(n + 1, k) /\ z = e
  BY <1>10, <1>12, Zenon
<1>19. /\ LineOf(s, n, i) = z * q /\ LineOf(u, n, i) = (m * (n * p) - z) * q
       /\ Unit(n, Len(s) - n) = n * (p * q)
  BY <1>13, <1>14, <1>15, <1>16, <1>17, <1>18, Zenon
<1>20. /\ z * q \in Int /\ n * (p * q) \in Int
       /\ (m * (n * p) - z) * q = m * (n * (p * q)) - z * q
  BY <1>1
<1> QED BY <1>19, <1>20, Zenon

\* The difference of the two lines is negated.
LEMMA MacdOfFlips ==
  ASSUME NEW m \in Int, NEW s \in Seq(Int), Slow <= Len(s), NEW i \in Slow .. Len(s)
  PROVE  MacdOf(s, i) \in Int /\ MacdOf(Upside(s, m), i) = -MacdOf(s, i)
<1> DEFINE u == Upside(s, m)
           U == Unit(Slow, Len(s) - Slow)
           V == Unit(Fast, Len(s) - Fast)
           x == LineOf(s, Fast, i)
           y == LineOf(s, Slow, i)
<1>1. Slow \in 1 .. Len(s) /\ Fast \in 1 .. Len(s) /\ i \in Fast .. Len(s) /\ Len(u) = Len(s)
  <2>1. Len(s) \in Nat /\ Len(u) = Len(s)
    BY UpsideIs
  <2> QED BY <2>1, SignalAssumption
<1>2. /\ x \in Int /\ V \in Int /\ LineOf(u, Fast, i) = m * V - x
      /\ y \in Int /\ U \in Int /\ LineOf(u, Slow, i) = m * U - y
  BY <1>1, LineFlips
<1>3. MacdOf(s, i) = U * x - V * y /\ MacdOf(u, i) = U * LineOf(u, Fast, i) - V * LineOf(u, Slow, i)
  BY <1>1, Zenon DEF MacdOf
<1> HIDE DEF U, V, x, y, u
<1>4. U * x - V * y \in Int /\ U * (m * V - x) - V * (m * U - y) = -(U * x - V * y)
  BY <1>2, DifferenceFlips
<1> QED BY <1>2, <1>3, <1>4, Zenon DEF u

\* A sum of opposite terms.
LEMMA SumFlips ==
  ASSUME NEW S, IsFiniteSet(S), NEW f, NEW h, \A x \in S : f[x] \in Int /\ h[x] = -f[x]
  PROVE  SumFunctionOnSet(f, S) \in Int /\ SumFunctionOnSet(h, S) = -SumFunctionOnSet(f, S)
<1>1. Combines(h, -1, f, 0, f, S)
  BY DEF Combines
<1>2. SumFunctionOnSet(f, S) \in Int
  BY SumSame
<1>3. SumFunctionOnSet(h, S) = (-1) * SumFunctionOnSet(f, S) + 0 * SumFunctionOnSet(f, S)
  <2>1. -1 \in Int /\ 0 \in Int
    OBVIOUS
  <2> QED BY <1>1, <2>1, SumCombines
<1> QED BY <1>2, <1>3

\* So the MACD of the mirrored market is on the other side of its average.
LEMMA MacdFlips ==
  ASSUME NEW m \in Int, NEW s \in Seq(Int)
  PROVE  Macd(Upside(s, m)) = -Macd(s)
<1> DEFINE u == Upside(s, m)
           I == Len(s) - Smooth + 1 .. Len(s)
           f == [i \in I |-> MacdOf(s, i)]
           h == [i \in I |-> MacdOf(u, i)]
           x == Smooth * MacdOf(s, Len(s)) - SumFunctionOnSet(f, I)
           y == Smooth * MacdOf(u, Len(s)) - SumFunctionOnSet(h, I)
<1>1. Len(u) = Len(s) /\ Len(s) \in Nat
  BY UpsideIs
<1>2. ASSUME ~(Len(s) < Slow + Smooth) PROVE x \in Int /\ y = -x
  <2>1. Slow <= Len(s) /\ Len(s) \in Slow .. Len(s) /\ \A i \in I : i \in Slow .. Len(s)
    BY <1>1, <1>2, SignalAssumption
  <2>2. \A i \in I : f[i] = MacdOf(s, i) /\ h[i] = MacdOf(u, i)
    OBVIOUS
  <2>3. IsFiniteSet(I)
    <3>1. Len(s) - Smooth + 1 \in Int /\ Len(s) \in Int
      BY <1>1, SignalAssumption
    <3> QED BY <3>1, FS_Interval
  <2> HIDE DEF I, f, h
  <2>4. \A i \in I : f[i] \in Int /\ h[i] = -f[i]
    BY <2>1, <2>2, MacdOfFlips
  <2>5. SumFunctionOnSet(f, I) \in Int /\ SumFunctionOnSet(h, I) = -SumFunctionOnSet(f, I)
    BY <2>3, <2>4, SumFlips
  <2>6. MacdOf(s, Len(s)) \in Int /\ MacdOf(u, Len(s)) = -MacdOf(s, Len(s)) /\ Smooth \in Int
    BY <2>1, MacdOfFlips, SignalAssumption
  <2>7. \A a, b, c \in Int : a * b - c \in Int /\ a * (-b) - (-c) = -(a * b - c)
    OBVIOUS
  <2> QED BY <2>5, <2>6, <2>7
<1>3. Warm(u, Slow + Smooth, Sign(y)) = -Warm(s, Slow + Smooth, Sign(x))
  <2> HIDE DEF x, y, u
  <2> QED BY <1>1, <1>2, SignsFlip
<1>4. Macd(s) = Warm(s, Slow + Smooth, Sign(x)) /\ Macd(u) = Warm(u, Slow + Smooth, Sign(y))
  BY <1>1, Zenon DEF Macd, Total
<1> QED BY <1>3, <1>4, Zenon

\* The line through the mirrored prices is the mirrored line.
LEMMA RegressionFlips ==
  ASSUME NEW m \in Int, NEW s \in Seq(Int), NEW n \in Nat \ {0}
  PROVE  Regression(Upside(s, m), n) = -Regression(s, n)
<1> DEFINE u == Upside(s, m)
           w == LastN(s, n)
           v == LastN(u, n)
           I == 1 .. n
           place == [i \in I |-> i - 1]
           square == [i \in I |-> (i - 1) * (i - 1)]
           f == [i \in I |-> (i - 1) * w[i]]
           h == [i \in I |-> (i - 1) * v[i]]
           sx == SumFunctionOnSet(place, I)
           sxx == SumFunctionOnSet(square, I)
           den == n * sxx - sx * sx
           rise == n * SumFunctionOnSet(f, I) - sx * SumOf(w)
           fall == n * SumFunctionOnSet(h, I) - sx * SumOf(v)
           x == SumOf(w) * den + rise * (n * (n - 1) - sx) - n * den * Latest(s)
           y == SumOf(v) * den + fall * (n * (n - 1) - sx) - n * den * Latest(u)
<1>1. Len(u) = Len(s) /\ Len(s) \in Nat
  BY UpsideIs
<1>2. ASSUME ~(Len(s) < n) PROVE x \in Int /\ y = -x
  <2>1. n \in 0 .. Len(s) /\ n \in 1 .. Len(s)
    BY <1>1, <1>2
  <2>2. v = Upside(w, m) /\ w \in Seq(Int) /\ Len(w) = n
    BY <2>1, UpsideOfLast
  <2>3. SumOf(w) \in Int /\ SumOf(v) = m * n - SumOf(w)
    BY <2>1, LastSumFlips
  <2>4. Latest(s) \in Int /\ Latest(u) = m - Latest(s)
    BY <2>1, UpsideLatest
  <2>5. \A i \in I : w[i] \in Int /\ v[i] = m - w[i]
    <3> HIDE DEF v, w
    <3> QED BY <2>2, UpsideIs
  <2>6. IsFiniteSet(I)
    BY FS_Interval
  <2>7. \A i \in I : place[i] \in Int /\ square[i] \in Int
    OBVIOUS
  <2>8. \A i \in I : f[i] \in Int /\ place[i] \in Int /\ h[i] = m * place[i] + (-1) * f[i]
    <3> SUFFICES ASSUME NEW i \in I
                 PROVE  f[i] \in Int /\ place[i] \in Int /\ h[i] = m * place[i] + (-1) * f[i]
      OBVIOUS
    <3>1. f[i] = (i - 1) * w[i] /\ h[i] = (i - 1) * v[i] /\ place[i] = i - 1 /\ i - 1 \in Int
      OBVIOUS
    <3>2. w[i] \in Int /\ v[i] = m - w[i]
      BY <2>5
    <3> HIDE DEF f, h, place, v, w
    <3>3. PICK a, b \in Int : a = i - 1 /\ b = w[i]
      BY <3>1, <3>2, Zenon
    <3>4. a * b \in Int /\ a * (m - b) = m * a + (-1) * (a * b)
      OBVIOUS
    <3> QED BY <3>1, <3>2, <3>3, <3>4, Zenon
  <2> HIDE DEF place, square, f, h, I, v, w, u
  <2>9. sx \in Int /\ sxx \in Int /\ SumFunctionOnSet(f, I) \in Int
    BY <2>6, <2>7, <2>8, SumSame
  <2>10. SumFunctionOnSet(h, I) = m * sx + (-1) * SumFunctionOnSet(f, I)
    <3>1. Combines(h, m, place, -1, f, I)
      BY <2>8, Zenon DEF Combines
    <3>2. -1 \in Int
      OBVIOUS
    <3> QED BY <2>6, <3>1, <3>2, SumCombines
  <2>11. rise \in Int /\ fall = -rise
    <3>1. PICK a, b, c \in Int : a = sx /\ b = SumFunctionOnSet(f, I) /\ c = SumOf(w)
      BY <2>3, <2>9, Zenon
    <3>2. /\ n * b - a * c \in Int
          /\ n * (m * a + (-1) * b) - a * (m * n - c) = -(n * b - a * c)
      OBVIOUS
    <3>3. rise = n * b - a * c /\ fall = n * (m * a + (-1) * b) - a * (m * n - c)
      BY <2>3, <2>10, <3>1, Zenon
    <3> QED BY <3>2, <3>3, Zenon
  <2>12. den \in Int /\ n * (n - 1) - sx \in Int
    <3>1. \A a, b \in Int : n * b - a * a \in Int /\ n * (n - 1) - a \in Int
      OBVIOUS
    <3> QED BY <2>9, <3>1, Zenon
  <2> HIDE DEF rise, fall, den
  <2>13. PICK a, d, r, k, l \in Int :
           a = SumOf(w) /\ d = den /\ r = rise /\ k = n * (n - 1) - sx /\ l = Latest(s)
    BY <2>3, <2>4, <2>11, <2>12, Zenon
  <2>14. /\ x = a * d + r * k - n * d * l
         /\ y = (m * n - a) * d + (-r) * k - n * d * (m - l)
    BY <2>3, <2>4, <2>11, <2>13, Zenon
  <2>15. /\ a * d + r * k - n * d * l \in Int
         /\ (m * n - a) * d + (-r) * k - n * d * (m - l) = -(a * d + r * k - n * d * l)
    OBVIOUS
  <2> QED BY <2>14, <2>15, Zenon
<1>3. Warm(u, n, Sign(y)) = -Warm(s, n, Sign(x))
  <2> HIDE DEF x, y, u
  <2> QED BY <1>1, <1>2, SignsFlip
<1>4. Regression(s, n) = Warm(s, n, Sign(x)) /\ Regression(u, n) = Warm(u, n, Sign(y))
  BY Zenon DEF Regression, Total
<1> QED BY <1>3, <1>4, Zenon

\* What a strategy on prices computes with the windows f and n.
Computes(p, b, f, n, s) ==
  /\ p.strategy \in {"momentum", "funding_oi_filter"} => Signal(p, s, b) = {SimpleMomentum(s, n)}
  /\ p.strategy = "dual_momentum" => Signal(p, s, b) = {DualMomentum(s, f, n)}
  /\ p.strategy = "breakout" => Signal(p, s, b) = {Breakout(s, n)}
  /\ p.strategy = "donchian_channel" => Signal(p, s, b) = {Donchian(s, n)}
  /\ p.strategy \in {"ma_crossover", "trend_following"} => Signal(p, s, b) = {MaCrossover(s, f, n)}
  /\ p.strategy = "ema_crossover" => Signal(p, s, b) = {EmaCrossover(s, f, n)}
  /\ p.strategy = "macd_signal" => Signal(p, s, b) = {Macd(s)}
  /\ p.strategy \in {"z_score", "bollinger_reversion", "mean_reversion"} => Signal(p, s, b) = {ZScore(s, n)}
  /\ p.strategy = "rsi_signal" => Signal(p, s, b) = {Rsi(s, n)}
  /\ p.strategy = "range_sr" => Signal(p, s, b) = {RangeSr(s, n)}
  /\ p.strategy = "linear_regression_channel" => Signal(p, s, b) = {Regression(s, n)}
  /\ p.strategy = "kalman_fair_value" => Signal(p, s, b) = Kalman(s)

\* The windows come from the plan and the number of candles, not from the prices.
LEMMA WindowsOfPlan ==
  ASSUME SignalAssumption, NEW p, p.lookback \in Int, NEW b
  PROVE  \E n \in Nat \ {0} : \E f \in 1 .. n : \A s : Computes(p, b, f, n, s)
<1> DEFINE asked == p.lookback
           name == p.strategy
           l == Larger(2, asked)
           half == l \div 2
           enough == b # <<>> /\ Len(b) >= l
<1>1. l \in Nat /\ l >= 2 /\ half \in Nat /\ half >= 1 /\ half <= l
  <2>1. l \in Nat /\ l >= 2
    BY DEF Larger
  <2> HIDE DEF l
  <2> QED BY <2>1
<1>2. /\ Larger(2, half) \in 1 .. l /\ Larger(1, half) \in 1 .. l
      /\ Smaller(Period, l) \in Nat \ {0} /\ Larger(1, asked) \in Nat \ {0}
      /\ Larger(3, asked) \in Nat \ {0}
  <2> HIDE DEF l, half, asked
  <2>1. Period \in Nat \ {0}
    BY DEF SignalAssumption
  <2> QED BY <1>1, <2>1 DEF Larger, Smaller, asked
<1> DEFINE n == IF name = "funding_oi_filter" THEN Larger(1, asked)
                ELSE IF name = "rsi_signal" THEN Smaller(Period, l)
                ELSE IF name = "mean_reversion" /\ ~enough THEN Larger(3, asked) ELSE l
           f == IF name = "dual_momentum" THEN half
                ELSE IF name \in {"ma_crossover", "ema_crossover"} \/ (name = "trend_following" /\ enough)
                  THEN Larger(2, half)
                ELSE IF name = "trend_following" THEN Larger(1, half) ELSE 1
<1>3. n \in Nat \ {0} /\ f \in 1 .. n
  <2> HIDE DEF l, half, asked, enough
  <2>1. l \in Nat \ {0} /\ half \in 1 .. l /\ 1 \in 1 .. l
    BY <1>1
  <2>2. \A k \in Nat \ {0} : 1 \in 1 .. k
    OBVIOUS
  <2> QED BY <1>2, <2>1, <2>2
<1>4. ASSUME NEW s PROVE Computes(p, b, f, n, s)
  <2> DEFINE P == PriceSignal(name, s, asked)
  <2>1. /\ name = "momentum" => P = {SimpleMomentum(s, l)}
        /\ name = "funding_oi_filter" => P = {SimpleMomentum(s, Larger(1, asked))}
        /\ name = "dual_momentum" => P = {DualMomentum(s, half, l)}
        /\ name = "breakout" => P = {Breakout(s, l)}
        /\ name = "donchian_channel" => P = {Donchian(s, l)}
        /\ name = "ma_crossover" => P = {MaCrossover(s, Larger(2, half), l)}
        /\ name = "ema_crossover" => P = {EmaCrossover(s, Larger(2, half), l)}
        /\ name = "macd_signal" => P = {Macd(s)}
        /\ name \in {"z_score", "bollinger_reversion"} => P = {ZScore(s, l)}
        /\ name = "rsi_signal" => P = {Rsi(s, Smaller(Period, l))}
        /\ name = "range_sr" => P = {RangeSr(s, l)}
        /\ name = "linear_regression_channel" => P = {Regression(s, l)}
        /\ name = "kalman_fair_value" => P = Kalman(s)
    BY DEF PriceSignal
  <2>2. /\ Fallback("trend_following", s, asked) = MaCrossover(s, Larger(1, half), l)
        /\ Fallback("mean_reversion", s, asked) = ZScore(s, Larger(3, asked))
    BY DEF Fallback
  <2>3. Signal(p, s, b) =
          IF name \in OfBars /\ enough THEN {BarSignal(name, b, l)}
          ELSE IF name = "trend_following" /\ enough THEN {MaCrossover(s, Larger(2, half), l)}
          ELSE IF name = "mean_reversion" /\ enough THEN {ZScore(s, l)}
          ELSE IF name \in OfBoth THEN {Fallback(name, s, asked)}
          ELSE P
    BY Zenon DEF Signal
  <2>4. /\ name \in {"momentum", "funding_oi_filter", "dual_momentum", "breakout", "donchian_channel",
                     "ma_crossover", "ema_crossover", "macd_signal", "z_score", "bollinger_reversion",
                     "rsi_signal", "range_sr", "linear_regression_channel", "kalman_fair_value"}
           => name \notin OfBars /\ name \notin OfBoth /\ name # "trend_following" /\ name # "mean_reversion"
        /\ {"trend_following", "mean_reversion"} \cap OfBars = {}
        /\ OfBoth = {"trend_following", "mean_reversion"}
    BY DEF OfBars, OfBoth
  <2> HIDE DEF l, half, asked, enough, P
  <2>5. /\ name \in {"momentum", "funding_oi_filter", "dual_momentum", "breakout", "donchian_channel",
                     "ma_crossover", "ema_crossover", "macd_signal", "z_score", "bollinger_reversion",
                     "rsi_signal", "range_sr", "linear_regression_channel", "kalman_fair_value"}
           => Signal(p, s, b) = P
        /\ name = "trend_following" =>
             Signal(p, s, b) = {MaCrossover(s, IF enough THEN Larger(2, half) ELSE Larger(1, half), l)}
        /\ name = "mean_reversion" =>
             Signal(p, s, b) = {ZScore(s, IF enough THEN l ELSE Larger(3, asked))}
    BY <2>2, <2>3, <2>4
  <2>6. /\ name \in {"momentum", "dual_momentum", "breakout", "donchian_channel", "ma_crossover",
                     "ema_crossover", "z_score", "bollinger_reversion", "range_sr",
                     "linear_regression_channel", "trend_following"} => n = l
        /\ name = "funding_oi_filter" => n = Larger(1, asked)
        /\ name = "rsi_signal" => n = Smaller(Period, l)
        /\ name = "mean_reversion" => n = IF enough THEN l ELSE Larger(3, asked)
        /\ name = "dual_momentum" => f = half
        /\ name \in {"ma_crossover", "ema_crossover"} => f = Larger(2, half)
        /\ name = "trend_following" => f = IF enough THEN Larger(2, half) ELSE Larger(1, half)
    OBVIOUS
  <2> HIDE DEF f, n
  <2> QED BY <2>1, <2>5, <2>6 DEF Computes
<1> QED BY <1>3, <1>4

Alike == (FollowTrend \cup FadeTrend \cup {"macd_signal", "linear_regression_channel",
           "kalman_fair_value", "dual_momentum"}) \ {"rsi_signal"}

\* A strategy that treats both sides alike gives the mirrored market the opposite signals.
LEMMA SignalFlips ==
  ASSUME SignalAssumption, NEW p, p.lookback \in Int, p.strategy \in Alike, NEW b,
         NEW m \in Int, NEW s \in Seq(Int)
  PROVE  Signal(p, Upside(s, m), b) = {-g : g \in Signal(p, s, b)}
<1> DEFINE u == Upside(s, m)
<1>1. PICK n \in Nat \ {0} : \E f \in 1 .. n : \A z : Computes(p, b, f, n, z)
  BY WindowsOfPlan
<1>2. PICK f \in 1 .. n : \A z : Computes(p, b, f, n, z)
  BY <1>1
<1>3. Computes(p, b, f, n, s) /\ Computes(p, b, f, n, u)
  BY <1>2
<1>4. f \in Nat \ {0} /\ f <= n /\ n \in Nat
  OBVIOUS
<1>5. ASSUME NEW x, NEW y, y = -x, Signal(p, s, b) = {x}, Signal(p, u, b) = {y}
      PROVE  Signal(p, u, b) = {-g : g \in Signal(p, s, b)}
  BY <1>5
<1> HIDE DEF u
<1>6. CASE p.strategy \in {"momentum", "funding_oi_filter"}
  <2>1. Signal(p, s, b) = {SimpleMomentum(s, n)} /\ Signal(p, u, b) = {SimpleMomentum(u, n)}
    BY <1>3, <1>6, Zenon DEF Computes
  <2> QED BY <1>5, <2>1, MomentumFlips DEF u
<1>7. CASE p.strategy = "dual_momentum"
  <2>1. Signal(p, s, b) = {DualMomentum(s, f, n)} /\ Signal(p, u, b) = {DualMomentum(u, f, n)}
    BY <1>3, <1>7, Zenon DEF Computes
  <2> QED BY <1>4, <1>5, <2>1, DualMomentumFlips DEF u
<1>8. CASE p.strategy = "breakout"
  <2>1. Signal(p, s, b) = {Breakout(s, n)} /\ Signal(p, u, b) = {Breakout(u, n)}
    BY <1>3, <1>8, Zenon DEF Computes
  <2> QED BY <1>5, <2>1, BreakoutFlips DEF u
<1>9. CASE p.strategy = "donchian_channel"
  <2>1. Signal(p, s, b) = {Donchian(s, n)} /\ Signal(p, u, b) = {Donchian(u, n)}
    BY <1>3, <1>9, Zenon DEF Computes
  <2> QED BY <1>5, <2>1, RangesFlip DEF u
<1>10. CASE p.strategy \in {"ma_crossover", "trend_following"}
  <2>1. Signal(p, s, b) = {MaCrossover(s, f, n)} /\ Signal(p, u, b) = {MaCrossover(u, f, n)}
    BY <1>3, <1>10, Zenon DEF Computes
  <2> QED BY <1>4, <1>5, <2>1, CrossoverFlips DEF u
<1>11. CASE p.strategy = "ema_crossover"
  <2>1. Signal(p, s, b) = {EmaCrossover(s, f, n)} /\ Signal(p, u, b) = {EmaCrossover(u, f, n)}
    BY <1>3, <1>11, Zenon DEF Computes
  <2> QED BY <1>4, <1>5, <2>1, EmaCrossoverFlips DEF u
<1>12. CASE p.strategy = "macd_signal"
  <2>1. Signal(p, s, b) = {Macd(s)} /\ Signal(p, u, b) = {Macd(u)}
    BY <1>3, <1>12, Zenon DEF Computes
  <2> QED BY <1>5, <2>1, MacdFlips DEF u
<1>13. CASE p.strategy \in {"z_score", "bollinger_reversion", "mean_reversion"}
  <2>1. Signal(p, s, b) = {ZScore(s, n)} /\ Signal(p, u, b) = {ZScore(u, n)}
    BY <1>3, <1>13, Zenon DEF Computes
  <2> QED BY <1>5, <2>1, ZScoreFlips DEF u
<1>14. CASE p.strategy = "range_sr"
  <2>1. Signal(p, s, b) = {RangeSr(s, n)} /\ Signal(p, u, b) = {RangeSr(u, n)}
    BY <1>3, <1>14, Zenon DEF Computes
  <2> QED BY <1>5, <2>1, RangesFlip DEF u
<1>15. CASE p.strategy = "linear_regression_channel"
  <2>1. Signal(p, s, b) = {Regression(s, n)} /\ Signal(p, u, b) = {Regression(u, n)}
    BY <1>3, <1>15, Zenon DEF Computes
  <2> QED BY <1>5, <2>1, RegressionFlips DEF u
<1>16. CASE p.strategy = "kalman_fair_value"
  <2>1. Signal(p, s, b) = Kalman(s) /\ Signal(p, u, b) = Kalman(u)
    BY <1>3, <1>16, Zenon DEF Computes
  <2> QED BY <2>1, KalmanFlips DEF u
<1>17. p.strategy \in {"momentum", "funding_oi_filter", "dual_momentum", "breakout", "donchian_channel",
          "ma_crossover", "trend_following", "ema_crossover", "macd_signal", "z_score",
          "bollinger_reversion", "mean_reversion", "range_sr", "linear_regression_channel",
          "kalman_fair_value"}
  BY DEF Alike, FollowTrend, FadeTrend
<1> QED BY <1>6, <1>7, <1>8, <1>9, <1>10, <1>11, <1>12, <1>13, <1>14, <1>15, <1>16, <1>17 DEF u

-----------------------------------------------------------------------------
(* A market that has only risen                                            *)

Climbs(s) == \A i, j \in 1 .. Len(s) : i <= j => s[i] <= s[j]

\* What rises from one price to the next rises over any distance.
LEMMA RisingClimbs ==
  ASSUME NEW s \in Seq(Int), Rising(s)
  PROVE  Climbs(s)
<1>0. DOMAIN s = 1 .. Len(s) /\ Len(s) \in Nat /\ \A i \in 1 .. Len(s) : s[i] \in Int
  OBVIOUS
<1>1. \A i \in 1 .. Len(s) : i > 1 => s[i] > s[i - 1]
  BY <1>0, Zenon DEF Rising
<1> SUFFICES ASSUME NEW i \in 1 .. Len(s) PROVE \A j \in 1 .. Len(s) : i <= j => s[i] <= s[j]
  BY DEF Climbs
<1> DEFINE L == {k \in Nat : i + k <= Len(s) => s[i] <= s[i + k]}
<1>2. 0 \in L
  BY <1>0
<1>3. ASSUME NEW k \in Nat, k \in L PROVE k + 1 \in L
  <2> SUFFICES ASSUME i + (k + 1) <= Len(s) PROVE s[i] <= s[i + (k + 1)]
    OBVIOUS
  <2>1. PICK j \in 1 .. Len(s) : j = i + (k + 1)
    BY <1>0
  <2>2. j > 1 /\ j - 1 = i + k /\ j - 1 \in 1 .. Len(s) /\ i + k <= Len(s)
    BY <1>0, <2>1
  <2>3. s[i] <= s[j - 1]
    BY <1>3, <2>2
  <2>4. s[j - 1] < s[j] /\ s[i] \in Int /\ s[j - 1] \in Int /\ s[j] \in Int
    BY <1>0, <1>1, <2>2
  <2>5. s[i] <= s[j]
    <3> HIDE DEF L
    <3> QED BY <2>3, <2>4
  <2> QED BY <2>1, <2>5
<1>4. Nat \subseteq L
  <2> HIDE DEF L
  <2> QED BY <1>2, <1>3, Inductive
<1>5. ASSUME NEW j \in 1 .. Len(s), i <= j PROVE s[i] <= s[j]
  <2>1. PICK k \in Nat : i + k = j
    <3>1. j - i \in Nat /\ i + (j - i) = j
      BY <1>5
    <3> QED BY <3>1, Zenon
  <2>2. k \in L /\ i + k <= Len(s)
    BY <1>0, <1>4, <2>1
  <2> QED BY <2>1, <2>2
<1> QED BY <1>5

\* The mirrored market rises as this one falls.
LEMMA FallingRises ==
  ASSUME NEW s \in Seq(Int), Falling(s), NEW m \in Int
  PROVE  Rising(Upside(s, m))
<1>1. /\ Upside(s, m) \in Seq(Int) /\ Len(Upside(s, m)) = Len(s)
      /\ \A i \in 1 .. Len(s) : s[i] \in Int /\ Upside(s, m)[i] = m - s[i]
  BY UpsideIs
<1> DEFINE u == Upside(s, m)
<1> HIDE DEF u
<1>2. DOMAIN s = 1 .. Len(s) /\ DOMAIN u = 1 .. Len(s) /\ Len(s) \in Nat
  BY <1>1 DEF u
<1>3. \A i \in 1 .. Len(s) : i > 1 => s[i] < s[i - 1]
  BY <1>2, Zenon DEF Falling
<1>4. ASSUME NEW i \in 1 .. Len(s), i > 1 PROVE u[i] > u[i - 1]
  <2>1. i - 1 \in 1 .. Len(s)
    BY <1>4
  <2>2. /\ s[i] < s[i - 1] /\ s[i] \in Int /\ s[i - 1] \in Int
        /\ u[i] = m - s[i] /\ u[i - 1] = m - s[i - 1]
    BY <1>1, <1>3, <1>4, <2>1 DEF u
  <2> QED BY <2>2
<1> QED BY <1>2, <1>4, Zenon DEF Rising, u

\* A signal other than none is that of a window that is full.
LEMMA WarmIs ==
  ASSUME NEW s, NEW n, NEW g, Warm(s, n, g) # 0
  PROVE  ~(Len(s) < n) /\ Warm(s, n, g) = g
BY DEF Warm

\* What a sign says of a number.
LEMMA SignIs ==
  \A x \in Int : (Sign(x) = 1 => x > 0) /\ (Sign(x) = -1 => x < 0)
BY DEF Sign

\* A market that has risen has no falling momentum.
LEMMA MomentumRises ==
  ASSUME NEW s \in Seq(Int), Climbs(s), NEW n \in Nat \ {0}
  PROVE  SimpleMomentum(s, n) # -1
<1> SUFFICES ASSUME SimpleMomentum(s, n) = -1 PROVE FALSE
  OBVIOUS
<1> DEFINE x == Latest(s) - FromEnd(s, n)
<1>1. Warm(s, n, Sign(x)) = -1
  BY Zenon DEF SimpleMomentum
<1>2. ~(Len(s) < n) /\ Sign(x) = -1
  <2> HIDE DEF x
  <2>1. Warm(s, n, Sign(x)) # 0
    BY <1>1
  <2> QED BY <1>1, <2>1, WarmIs
<1>3. Len(s) - n + 1 \in 1 .. Len(s) /\ Len(s) \in 1 .. Len(s) /\ Len(s) - n + 1 <= Len(s)
  BY <1>2
<1>4. s[Len(s) - n + 1] <= s[Len(s)] /\ s[Len(s) - n + 1] \in Int /\ s[Len(s)] \in Int
  BY <1>3 DEF Climbs
<1>5. x \in Int /\ x >= 0
  BY <1>4 DEF Latest, FromEnd
<1> HIDE DEF x
<1> QED BY <1>2, <1>5, SignIs

\* Its latest price is the highest of a window.
LEMMA LastEntry ==
  ASSUME NEW s \in Seq(Int), Climbs(s), NEW n \in 1 .. Len(s)
  PROVE  /\ LastN(s, n) \in Seq(Int) /\ Len(LastN(s, n)) > 0 /\ Latest(s) \in Int
         /\ \A i \in 1 .. Len(LastN(s, n)) : LastN(s, n)[i] \in Int /\ LastN(s, n)[i] <= Latest(s)
<1>1. Len(s) \in Nat /\ n \in 0 .. Len(s) /\ Len(s) \in 1 .. Len(s)
  OBVIOUS
<1> DEFINE a == Len(s) - n + 1
           w == LastN(s, n)
<1>2. w = SubSeq(s, a, Len(s)) /\ a \in 1 .. Len(s) + 1
  BY <1>1, LastIsPart
<1>3. Len(s) \in a - 1 .. Len(s) /\ Len(s) - a + 1 = n
  BY <1>1
<1> HIDE DEF a
<1>4. w \in Seq(Int) /\ Len(w) = n /\ \A i \in 1 .. n : w[i] = s[a + i - 1]
  BY <1>2, <1>3, PartIs
<1>5. ASSUME NEW i \in 1 .. n PROVE s[a + i - 1] \in Int /\ s[a + i - 1] <= s[Len(s)]
  <2>1. a + i - 1 \in 1 .. Len(s) /\ a + i - 1 <= Len(s)
    BY <1>2, <1>3
  <2> QED BY <1>1, <2>1 DEF Climbs
<1>6. s[Len(s)] \in Int
  BY <1>1
<1> HIDE DEF w
<1>7. Latest(s) = s[Len(s)]
  BY Zenon DEF Latest
<1>8. Len(w) > 0 /\ \A i \in 1 .. Len(w) : w[i] \in Int /\ w[i] <= Latest(s)
  BY <1>4, <1>5, <1>7
<1> QED BY <1>4, <1>6, <1>7, <1>8, Zenon DEF w

\* It is not below the middle of its range.
LEMMA RangesRise ==
  ASSUME NEW s \in Seq(Int), Climbs(s), NEW n \in Nat \ {0}
  PROVE  Donchian(s, n) # -1 /\ RangeSr(s, n) # 1
<1> DEFINE w == LastN(s, n)
           x == 2 * Latest(s) - MiddleOf(w)
           y == MiddleOf(w) - 2 * Latest(s)
<1>1. ASSUME ~(Len(s) < n) PROVE x \in Int /\ x >= 0 /\ y \in Int /\ y <= 0
  <2>1. n \in 1 .. Len(s)
    BY <1>1
  <2>2. /\ w \in Seq(Int) /\ Len(w) > 0 /\ Latest(s) \in Int
        /\ \A i \in 1 .. Len(w) : w[i] \in Int /\ w[i] <= Latest(s)
    BY <2>1, LastEntry
  <2> HIDE DEF w
  <2>3. /\ MaxOf(w) \in Int /\ (\E i \in 1 .. Len(w) : MaxOf(w) = w[i])
        /\ MinOf(w) \in Int /\ (\E i \in 1 .. Len(w) : MinOf(w) = w[i])
    BY <2>2, ExtremesOfSeries
  <2>4. MaxOf(w) <= Latest(s) /\ MinOf(w) <= Latest(s)
    BY <2>2, <2>3
  <2>5. PICK a, b, l \in Int : a = MaxOf(w) /\ b = MinOf(w) /\ l = Latest(s)
    BY <2>2, <2>3, Zenon
  <2>6. a <= l /\ b <= l
    BY <2>4, <2>5, Zenon
  <2>7. /\ 2 * l - (a + b) \in Int /\ 2 * l - (a + b) >= 0
        /\ (a + b) - 2 * l \in Int /\ (a + b) - 2 * l <= 0
    BY <2>6
  <2> QED BY <2>5, <2>7, Zenon DEF MiddleOf
<1>2. ASSUME Donchian(s, n) = -1 PROVE FALSE
  <2>1. Warm(s, n, Sign(x)) = -1
    BY <1>2, Zenon DEF Donchian
  <2> HIDE DEF x, y
  <2>2. ~(Len(s) < n) /\ Sign(x) = -1
    <3>1. Warm(s, n, Sign(x)) # 0
      BY <2>1
    <3> QED BY <2>1, <3>1, WarmIs
  <2> QED BY <1>1, <2>2, SignIs
<1>3. ASSUME RangeSr(s, n) = 1 PROVE FALSE
  <2>1. Warm(s, n, Sign(y)) = 1
    BY <1>3, Zenon DEF RangeSr
  <2> HIDE DEF x, y
  <2>2. ~(Len(s) < n) /\ Sign(y) = 1
    <3>1. Warm(s, n, Sign(y)) # 0
      BY <2>1
    <3> QED BY <2>1, <3>1, WarmIs
  <2> QED BY <1>1, <2>2, SignIs
<1> QED BY <1>2, <1>3

\* It does not break out of the bottom of a window.
LEMMA BreakoutRises ==
  ASSUME NEW s \in Seq(Int), Climbs(s), NEW n \in Nat \ {0}
  PROVE  Breakout(s, n) # -1
<1> DEFINE w == SubSeq(s, Len(s) - n, Len(s) - 1)
           g == IF Latest(s) > MaxOf(w) THEN 1 ELSE IF Latest(s) < MinOf(w) THEN -1 ELSE 0
<1> SUFFICES ASSUME Breakout(s, n) = -1 PROVE FALSE
  OBVIOUS
<1>1. Warm(s, n + 1, g) = -1
  BY Zenon DEF Breakout
<1>2. ~(Len(s) < n + 1) /\ g = -1
  <2> HIDE DEF g
  <2>1. Warm(s, n + 1, g) # 0
    BY <1>1
  <2> QED BY <1>1, <2>1, WarmIs
<1>3. Latest(s) < MinOf(w)
  <2>1. g = -1
    BY <1>2
  <2> HIDE DEF w
  <2> QED BY <2>1
<1>4. PICK a \in 1 .. Len(s) : a = Len(s) - n
  <2>1. Len(s) - n \in 1 .. Len(s)
    BY <1>2
  <2> QED BY <2>1, Zenon
<1>5. /\ a \in 1 .. Len(s) + 1 /\ Len(s) - 1 \in a - 1 .. Len(s) /\ Len(s) - 1 - a + 1 = n
      /\ 1 \in 1 .. n /\ a + 1 - 1 = a /\ Len(s) \in 1 .. Len(s) /\ a <= Len(s)
  BY <1>2, <1>4
<1>6. w \in Seq(Int) /\ Len(w) = n /\ w[1] = s[a]
  <2>1. /\ SubSeq(s, a, Len(s) - 1) \in Seq(Int) /\ Len(SubSeq(s, a, Len(s) - 1)) = n
        /\ \A i \in 1 .. n : SubSeq(s, a, Len(s) - 1)[i] = s[a + i - 1]
    BY <1>5, PartIs
  <2>2. SubSeq(s, a, Len(s) - 1)[1] = s[a + 1 - 1]
    BY <1>5, <2>1
  <2> QED BY <1>4, <1>5, <2>1, <2>2
<1> HIDE DEF w
<1>7. MinOf(w) <= s[a] /\ MinOf(w) \in Int
  <2>1. Len(w) > 0 /\ 1 \in 1 .. Len(w)
    BY <1>5, <1>6
  <2>2. MinOf(w) \in Int /\ \A i \in 1 .. Len(w) : MinOf(w) <= w[i]
    BY <1>6, <2>1, ExtremesOfSeries
  <2> QED BY <1>6, <2>1, <2>2
<1>8. s[a] <= s[Len(s)] /\ s[a] \in Int /\ s[Len(s)] \in Int
  BY <1>5 DEF Climbs
<1> QED BY <1>3, <1>7, <1>8 DEF Latest

\* The sum of the last prices is the difference of two partial sums.
LEMMA LastSumIs ==
  ASSUME NEW s \in Seq(Int), NEW n \in 0 .. Len(s)
  PROVE  /\ SumOf(LastN(s, n)) = SumsOf(s)[Len(s)] - SumsOf(s)[Len(s) - n]
         /\ SumOf(LastN(s, n)) \in Int /\ SumsOf(s)[Len(s)] \in Int /\ SumsOf(s)[Len(s) - n] \in Int
<1>1. Len(s) \in Nat /\ Len(s) - n \in 0 .. Len(s) /\ Len(s) \in 0 .. Len(s)
  OBVIOUS
<1>2. LastN(s, n) = SubSeq(s, Len(s) - n + 1, Len(s)) /\ Len(s) - n + 1 \in 1 .. Len(s) + 1
  BY <1>1, LastIsPart
<1>3. PICK a \in 1 .. Len(s) + 1 : a = Len(s) - n + 1
  BY <1>2, Zenon
<1>4. Len(s) \in a - 1 .. Len(s) /\ a - 1 = Len(s) - n
  BY <1>1, <1>3
<1>5. /\ SumOf(SubSeq(s, a, Len(s))) = SumsOf(s)[Len(s)] - SumsOf(s)[a - 1]
      /\ SumOf(SubSeq(s, a, Len(s))) \in Int
  BY <1>4, SumOfPart
<1>6. SumsOf(s)[Len(s)] \in Int /\ SumsOf(s)[Len(s) - n] \in Int
  BY <1>1, SumsUnfold
<1> QED BY <1>2, <1>3, <1>4, <1>5, <1>6, Zenon

\* In a rising market the mean of the later prices is not below the mean of more of them.
LEMMA MeansRise ==
  ASSUME NEW s \in Seq(Int), Climbs(s), NEW n \in 1 .. Len(s), NEW f \in 1 .. n
  PROVE  /\ SumOf(LastN(s, f)) \in Int /\ SumOf(LastN(s, n)) \in Int
         /\ n * SumOf(LastN(s, f)) - f * SumOf(LastN(s, n)) >= 0
<1> DEFINE L == Len(s)
           S == SumsOf(s)
<1>1. /\ L \in Nat /\ f \in 0 .. L /\ n \in 0 .. L
      /\ L - n \in 0 .. L /\ L - f \in L - n .. L /\ L - f \in 0 .. L /\ L \in L - f .. L
      /\ (L - f) - (L - n) = n - f /\ L - (L - f) = f /\ L - f + 1 \in 1 .. L
  OBVIOUS
<1>2. /\ SumOf(LastN(s, f)) = S[L] - S[L - f] /\ SumOf(LastN(s, n)) = S[L] - S[L - n]
      /\ S[L] \in Int /\ S[L - f] \in Int /\ S[L - n] \in Int
  BY <1>1, LastSumIs
<1>3. PICK c \in Int : c = s[L - f + 1]
  BY <1>1
<1>4. \A i \in (L - n) + 1 .. L - f : s[i] <= c
  <2> SUFFICES ASSUME NEW i \in (L - n) + 1 .. L - f PROVE s[i] <= c
    OBVIOUS
  <2>1. i \in 1 .. L /\ i <= L - f + 1
    BY <1>1
  <2> HIDE DEF L
  <2> QED BY <1>1, <1>3, <2>1 DEF Climbs, L
<1>5. \A i \in (L - f) + 1 .. L : s[i] >= c
  <2> SUFFICES ASSUME NEW i \in (L - f) + 1 .. L PROVE s[i] >= c
    OBVIOUS
  <2>1. i \in 1 .. L /\ L - f + 1 <= i /\ L - f + 1 \in 1 .. L
    BY <1>1
  <2>2. s[L - f + 1] <= s[i] /\ s[i] \in Int
    BY <2>1 DEF Climbs
  <2> HIDE DEF L
  <2> QED BY <1>3, <2>2
<1>6. S[L - f] - S[L - n] <= (n - f) * c
  <2>1. S[L - f] - S[L - n] <= ((L - f) - (L - n)) * c
    BY <1>1, <1>4, PartBounds
  <2> HIDE DEF S
  <2> QED BY <1>1, <2>1
<1>7. S[L] - S[L - f] >= f * c
  <2>1. S[L] - S[L - f] >= (L - (L - f)) * c
    BY <1>1, <1>5, PartBounds
  <2> HIDE DEF S
  <2> QED BY <1>1, <2>1
<1>8. PICK x, y \in Int :
        /\ x = S[L] - S[L - f] /\ y = S[L - f] - S[L - n]
        /\ SumOf(LastN(s, f)) = x /\ SumOf(LastN(s, n)) = x + y
  <2> HIDE DEF S, L
  <2>1. PICK i, j, k \in Int : i = S[L] /\ j = S[L - f] /\ k = S[L - n]
    BY <1>2, Zenon
  <2>2. i - j \in Int /\ j - k \in Int /\ (i - j) + (j - k) = i - k
    OBVIOUS
  <2> QED BY <1>2, <2>1, <2>2, Zenon
<1>9. SumOf(LastN(s, f)) = x /\ SumOf(LastN(s, n)) = x + y
  BY <1>8, Zenon
<1>10. y <= (n - f) * c /\ x >= f * c
  BY <1>6, <1>7, <1>8, Zenon
<1>11. n * x - f * (x + y) >= 0
  <2>1. n - f \in Nat /\ f \in Nat
    OBVIOUS
  <2>2. PICK d \in Nat : d = n - f
    BY <2>1
  <2>3. x - f * c \in Nat /\ d * c - y \in Nat
    BY <1>10, <2>2
  <2>4. d * (x - f * c) >= 0 /\ f * (d * c - y) >= 0
    BY <2>1, <2>3
  <2>5. n * x - f * (x + y) = d * (x - f * c) + f * (d * c - y)
    BY <2>2
  <2>6. d * (x - f * c) \in Int /\ f * (d * c - y) \in Int
    BY <2>1, <2>3
  <2> QED BY <2>4, <2>5, <2>6
<1>12. x + y \in Int
  OBVIOUS
<1> QED BY <1>9, <1>11, <1>12

\* The average of the later prices is not below the one of more of them.
LEMMA CrossoverRises ==
  ASSUME NEW s \in Seq(Int), Climbs(s), NEW n \in Nat \ {0}, NEW f \in 1 .. n
  PROVE  MaCrossover(s, f, n) # -1
<1> DEFINE x == n * SumOf(LastN(s, f)) - f * SumOf(LastN(s, n))
<1> SUFFICES ASSUME MaCrossover(s, f, n) = -1 PROVE FALSE
  OBVIOUS
<1>1. Warm(s, n, Sign(x)) = -1
  BY Zenon DEF MaCrossover
<1>2. ~(Len(s) < n) /\ Sign(x) = -1
  <2> HIDE DEF x
  <2>1. Warm(s, n, Sign(x)) # 0
    BY <1>1
  <2> QED BY <1>1, <2>1, WarmIs
<1>3. n \in 1 .. Len(s)
  BY <1>2
<1>4. x \in Int /\ x >= 0
  BY <1>3, MeansRise
<1> HIDE DEF x
<1> QED BY <1>2, <1>4, SignIs

\* The latest price is not below the mean.
LEMMA ZScoreRises ==
  ASSUME NEW s \in Seq(Int), Climbs(s), NEW n \in Nat \ {0}
  PROVE  ZScore(s, n) # 1
<1> DEFINE x == SumOf(LastN(s, n)) - n * Latest(s)
<1> SUFFICES ASSUME ZScore(s, n) = 1 PROVE FALSE
  OBVIOUS
<1>1. Warm(s, n, Sign(x)) = 1
  BY Zenon DEF ZScore
<1>2. ~(Len(s) < n) /\ Sign(x) = 1
  <2> HIDE DEF x
  <2>1. Warm(s, n, Sign(x)) # 0
    BY <1>1
  <2> QED BY <1>1, <2>1, WarmIs
<1> DEFINE L == Len(s)
           S == SumsOf(s)
<1>3. L \in Nat /\ n \in 0 .. L /\ L - n \in 0 .. L /\ L \in L - n .. L /\ L - (L - n) = n /\ L \in 1 .. L
  BY <1>2
<1>4. SumOf(LastN(s, n)) = S[L] - S[L - n] /\ S[L] \in Int /\ S[L - n] \in Int
  BY <1>3, LastSumIs
<1>5. PICK c \in Int : c = s[L]
  BY <1>3
<1>6. \A i \in (L - n) + 1 .. L : s[i] <= c
  BY <1>3, <1>5 DEF Climbs
<1>7. S[L] - S[L - n] <= (L - (L - n)) * c
  BY <1>3, <1>6, PartBounds
<1>8. x = S[L] - S[L - n] - n * c
  BY <1>4, <1>5, Zenon DEF Latest
<1>9. n * c \in Int
  OBVIOUS
<1> HIDE DEF S, x
<1>10. S[L] - S[L - n] <= n * c
  BY <1>3, <1>7
<1> HIDE DEF L
<1>11. x \in Int /\ x <= 0
  BY <1>4, <1>8, <1>9, <1>10
<1> QED BY <1>2, <1>11, SignIs

\* The changes of a rising market are gains, those of a falling one losses.
LEMMA RsiKeepsSide ==
  ASSUME NEW s \in Seq(Int), NEW n \in Nat \ {0}
  PROVE  /\ Rising(s) => Rsi(s, n) # 1
         /\ Falling(s) => Rsi(s, n) # -1
<1> DEFINE I == Len(s) - n + 1 .. Len(s)
           Change(i) == s[i] - s[i - 1]
           up == [i \in I |-> Larger(Change(i), 0)]
           down == [i \in I |-> Larger(-Change(i), 0)]
           gain == SumFunctionOnSet(up, I)
           loss == SumFunctionOnSet(down, I)
           g == IF loss = 0 THEN -1 ELSE Sign(loss - gain)
<1>1. Rsi(s, n) = Warm(s, n + 1, g)
  BY Zenon DEF Rsi, Total
<1>2. IsFiniteSet(I) /\ (Len(s) >= n + 1 => Cardinality(I) = n)
  <2>1. Len(s) - n + 1 \in Int /\ Len(s) \in Int
    OBVIOUS
  <2>2. Cardinality(I) = IF Len(s) - n + 1 > Len(s) THEN 0 ELSE Len(s) - (Len(s) - n + 1) + 1
    BY <2>1, FS_Interval
  <2>3. IsFiniteSet(I)
    BY <2>1, FS_Interval
  <2> HIDE DEF I
  <2> QED BY <2>2, <2>3
<1>3. ASSUME Len(s) >= n + 1, NEW i \in I
      PROVE  i \in 1 .. Len(s) /\ i > 1 /\ i \in DOMAIN s /\ s[i] \in Int /\ s[i - 1] \in Int
  BY <1>3
<1>4. \A i \in I : up[i] = Larger(Change(i), 0) /\ down[i] = Larger(-Change(i), 0)
  BY Zenon
<1> HIDE DEF I, up, down
<1>5. ASSUME Rising(s), Len(s) >= n + 1 PROVE g = -1
  <2>1. \A i \in I : down[i] = 0
    <3> SUFFICES ASSUME NEW i \in I PROVE down[i] = 0
      OBVIOUS
    <3>1. s[i] > s[i - 1] /\ s[i] \in Int /\ s[i - 1] \in Int
      BY <1>3, <1>5 DEF Rising
    <3>2. down[i] = Larger(-(s[i] - s[i - 1]), 0)
      BY <1>4
    <3> QED BY <3>1, <3>2 DEF Larger
  <2>2. Combines(down, 0, down, 0, down, I)
    BY <2>1 DEF Combines
  <2>3. loss = 0 * loss + 0 * loss /\ loss \in Int
    <3>1. 0 \in Int
      OBVIOUS
    <3>2. \A i \in I : down[i] \in Int
      BY <2>1
    <3> QED BY <1>2, <2>2, <3>1, <3>2, SumCombines, SumSame
  <2>4. loss = 0
    <3> HIDE DEF loss
    <3> QED BY <2>3
  <2> HIDE DEF loss, gain
  <2> QED BY <2>4
<1>6. ASSUME Falling(s), Len(s) >= n + 1 PROVE g = 1
  <2>1. \A i \in I : up[i] = 0 /\ down[i] \in Int /\ down[i] >= 1
    <3> SUFFICES ASSUME NEW i \in I PROVE up[i] = 0 /\ down[i] \in Int /\ down[i] >= 1
      OBVIOUS
    <3>1. s[i] < s[i - 1] /\ s[i] \in Int /\ s[i - 1] \in Int
      BY <1>3, <1>6 DEF Falling
    <3>2. down[i] = Larger(-(s[i] - s[i - 1]), 0) /\ up[i] = Larger(s[i] - s[i - 1], 0)
      BY <1>4
    <3> QED BY <3>1, <3>2 DEF Larger
  <2>2. gain \in Int /\ gain <= 0 * Cardinality(I)
    <3>1. 0 \in Int /\ \A i \in I : up[i] \in Int /\ up[i] <= 0
      BY <2>1
    <3> QED BY <1>2, <3>1, SumAtMost
  <2> DEFINE less == [i \in I |-> -down[i]]
  <2>3. \A i \in I : down[i] \in Int /\ less[i] = -down[i] /\ less[i] \in Int /\ less[i] <= -1
    <3> SUFFICES ASSUME NEW i \in I
                 PROVE  down[i] \in Int /\ less[i] = -down[i] /\ less[i] \in Int /\ less[i] <= -1
      OBVIOUS
    <3>1. down[i] \in Int /\ down[i] >= 1 /\ less[i] = -down[i]
      BY <2>1
    <3> HIDE DEF less
    <3> QED BY <3>1
  <2> HIDE DEF less
  <2>4. loss \in Int /\ SumFunctionOnSet(less, I) = -loss
    BY <1>2, <2>3, SumFlips
  <2>5. SumFunctionOnSet(less, I) <= (-1) * Cardinality(I)
    <3>1. -1 \in Int
      OBVIOUS
    <3> QED BY <1>2, <2>3, <3>1, SumAtMost
  <2> HIDE DEF loss, gain
  <2>6. Cardinality(I) = n
    BY <1>2, <1>6
  <2>7. loss >= 1 /\ gain <= 0
    BY <2>2, <2>4, <2>5, <2>6
  <2>8. loss - gain > 0 /\ loss # 0
    BY <2>2, <2>4, <2>7
  <2> QED BY <2>8 DEF Sign
<1>7. Warm(s, n + 1, g) # 0 => Len(s) >= n + 1 /\ Warm(s, n + 1, g) = g
  <2> HIDE DEF g
  <2>1. Len(s) \in Nat
    OBVIOUS
  <2> QED BY <2>1 DEF Warm
<1> HIDE DEF g
<1> QED BY <1>1, <1>5, <1>6, <1>7

-----------------------------------------------------------------------------
(* Two exponential averages that run together                              *)

\* Scaled so that all are integers: u and v are what an average keeps of itself in one step, slow and
\* fast, in units of which 2 b + u make a whole; Q, U and V are the powers of the three; z is a
\* price and T the sum of prices, G the slow average, all against the first value of the fast one;
\* D is the fast average less the slow one.
Together(m, b, u, v, Q, U, V, z, T, G, D) ==
  /\ b \in Nat /\ u \in Nat /\ v \in Nat /\ v <= u
  /\ \A j \in 0 .. m : /\ Q[j] \in Int /\ U[j] \in Int /\ V[j] \in Int
                       /\ z[j] \in Int /\ T[j] \in Int /\ G[j] \in Int /\ D[j] \in Int
  /\ Q[0] >= 0 /\ U[0] = Q[0] /\ V[0] = Q[0] /\ T[0] = 0 /\ G[0] <= 0 /\ D[0] >= 0
  /\ \A j \in 1 .. m : /\ Q[j] = (2 * b + u) * Q[j - 1] /\ U[j] = u * U[j - 1] /\ V[j] = v * V[j - 1]
                       /\ T[j] = T[j - 1] + z[j]
                       /\ G[j] = 2 * b * Q[j - 1] * z[j] + u * G[j - 1]
                       /\ D[j] = v * D[j - 1] + (u - v) * (Q[j - 1] * z[j] - G[j - 1])
  /\ \A j \in 1 .. m - 1 : z[j] <= z[j + 1]

\* The number before and after a step.
LEMMA Stepwise ==
  ASSUME NEW m \in Nat, NEW k \in Nat, k + 1 <= m
  PROVE  k \in 0 .. m /\ k + 1 \in 0 .. m /\ k + 1 \in 1 .. m /\ (k + 1) - 1 = k
OBVIOUS

\* What an average keeps of its start is less the faster it is.
LEMMA PowersOrdered ==
  ASSUME NEW m \in Nat, NEW b, NEW u, NEW v, NEW Q, NEW U, NEW V, NEW z, NEW T, NEW G, NEW D,
         Together(m, b, u, v, Q, U, V, z, T, G, D), NEW j \in 0 .. m
  PROVE  /\ 0 <= V[j] /\ V[j] <= U[j] /\ U[j] <= Q[j]
         /\ v * (U[j] - V[j]) <= j * ((u - v) * U[j])
<1> DEFINE L == {k \in Nat : k <= m => /\ 0 <= V[k] /\ V[k] <= U[k] /\ U[k] <= Q[k]
                                       /\ v * (U[k] - V[k]) <= k * ((u - v) * U[k])}
<1>0. b \in Nat /\ u \in Nat /\ v \in Nat /\ v <= u
  BY Zenon DEF Together
<1>1. 0 \in L
  <2>1. Q[0] \in Int /\ Q[0] >= 0 /\ U[0] = Q[0] /\ V[0] = Q[0]
    <3>1. 0 \in 0 .. m
      OBVIOUS
    <3> QED BY <3>1, Zenon DEF Together
  <2>2. PICK q \in Nat : q = Q[0]
    BY <2>1
  <2>3. U[0] = q /\ V[0] = q /\ Q[0] = q
    BY <2>1, <2>2, Zenon
  <2>4. v * (q - q) <= 0 * ((u - v) * q)
    BY <1>0
  <2> QED BY <2>3, <2>4
<1>2. ASSUME NEW k \in Nat, k \in L PROVE k + 1 \in L
  <2> SUFFICES ASSUME k + 1 <= m
               PROVE  /\ 0 <= V[k + 1] /\ V[k + 1] <= U[k + 1] /\ U[k + 1] <= Q[k + 1]
                      /\ v * (U[k + 1] - V[k + 1]) <= (k + 1) * ((u - v) * U[k + 1])
    OBVIOUS
  <2>1. /\ 0 <= V[k] /\ V[k] <= U[k] /\ U[k] <= Q[k]
        /\ v * (U[k] - V[k]) <= k * ((u - v) * U[k])
    BY <1>2
  <2> HIDE DEF L
  <2>2. k \in 0 .. m /\ k + 1 \in 1 .. m /\ (k + 1) - 1 = k
    BY Stepwise
  <2>3. /\ Q[k] \in Int /\ U[k] \in Int /\ V[k] \in Int
        /\ Q[k + 1] = (2 * b + u) * Q[k] /\ U[k + 1] = u * U[k] /\ V[k + 1] = v * V[k]
    BY <2>2, Zenon DEF Together
  <2>4. PICK x, y, q \in Int : x = U[k] /\ y = V[k] /\ q = Q[k]
    BY <2>3, Zenon
  <2>5. 0 <= y /\ y <= x /\ x <= q /\ v * (x - y) <= k * ((u - v) * x)
    BY <2>1, <2>4, Zenon
  <2>6. 0 <= v * y /\ v * y <= u * x /\ u * x <= (2 * b + u) * q
    <3>1. 0 <= v * y
      BY <1>0, <2>5
    <3>2. v * y <= u * x
      <4>1. u * x - v * y = (u - v) * x + v * (x - y)
        BY <1>0
      <4>2. 0 <= (u - v) * x /\ 0 <= v * (x - y)
        BY <1>0, <2>5
      <4> QED BY <1>0, <4>1, <4>2
    <3>3. u * x <= (2 * b + u) * q
      <4>1. (2 * b + u) * q - u * x = 2 * (b * q) + u * (q - x)
        BY <1>0
      <4>2. 0 <= b * q /\ 0 <= u * (q - x)
        BY <1>0, <2>5
      <4> QED BY <1>0, <4>1, <4>2
    <3> QED BY <3>1, <3>2, <3>3
  <2>7. v * (u * x - v * y) <= (k + 1) * ((u - v) * (u * x))
    <3> DEFINE e == u - v
    <3>0. e \in Nat /\ u = v + e
      BY <1>0
    <3> HIDE DEF e
    <3>1. v * (u * x - v * y) = v * (e * x) + v * (v * (x - y))
      BY <1>0, <3>0
    <3>2. v * (v * (x - y)) <= v * (k * (e * x))
      <4>1. PICK p, r \in Int : p = v * (x - y) /\ r = k * (e * x)
        BY <1>0, <3>0
      <4>2. p <= r
        BY <2>5, <4>1 DEF e
      <4>3. v * p <= v * r
        BY <1>0, <4>2
      <4> QED BY <4>1, <4>3
    <3>3. (k + 1) * (e * (u * x)) = (k + 1) * (e * (v * x)) + (k + 1) * (e * (e * x))
      BY <1>0, <3>0
    <3>4. 0 <= (k + 1) * (e * (e * x))
      <4>1. x \in Nat
        BY <2>5
      <4> QED BY <3>0, <4>1
    <3>5. (k + 1) * (e * (v * x)) = v * (e * x) + v * (k * (e * x))
      BY <1>0, <3>0
    <3>6. /\ v * (e * x) \in Int /\ v * (v * (x - y)) \in Int /\ v * (k * (e * x)) \in Int
          /\ (k + 1) * (e * (v * x)) \in Int /\ (k + 1) * (e * (e * x)) \in Int
          /\ (k + 1) * (e * (u * x)) \in Int
      BY <1>0, <3>0
    <3>7. v * (u * x - v * y) <= (k + 1) * (e * (u * x))
      BY <3>1, <3>2, <3>3, <3>4, <3>5, <3>6
    <3> QED BY <3>7 DEF e
  <2> QED BY <2>3, <2>4, <2>6, <2>7, Zenon
<1>3. j \in L /\ j <= m
  <2> HIDE DEF L
  <2> QED BY <1>1, <1>2, Inductive
<1> QED BY <1>3

\* Prices that rise are on average below the last of them.
LEMMA SumsBelow ==
  ASSUME NEW m \in Nat, NEW b, NEW u, NEW v, NEW Q, NEW U, NEW V, NEW z, NEW T, NEW G, NEW D,
         Together(m, b, u, v, Q, U, V, z, T, G, D), NEW j \in 1 .. m
  PROVE  T[j] <= j * z[j]
<1> DEFINE L == {k \in Nat : k + 1 <= m => T[k + 1] <= (k + 1) * z[k + 1]}
<1>1. 0 \in L
  <2> SUFFICES ASSUME 0 + 1 <= m PROVE T[0 + 1] <= (0 + 1) * z[0 + 1]
    OBVIOUS
  <2>1. 1 \in 1 .. m /\ 1 - 1 = 0 /\ 1 \in 0 .. m
    OBVIOUS
  <2>2. T[1] = T[0] + z[1] /\ T[0] = 0 /\ z[1] \in Int
    BY <2>1, Zenon DEF Together
  <2> HIDE DEF L
  <2> QED BY <2>2
<1>2. ASSUME NEW k \in Nat, k \in L PROVE k + 1 \in L
  <2> SUFFICES ASSUME (k + 1) + 1 <= m PROVE T[(k + 1) + 1] <= ((k + 1) + 1) * z[(k + 1) + 1]
    OBVIOUS
  <2>1. PICK i \in Nat : i = k + 1
    OBVIOUS
  <2>2. i \in 1 .. m - 1 /\ i + 1 \in 1 .. m /\ i + 1 \in 0 .. m /\ i \in 0 .. m /\ (i + 1) - 1 = i
    BY <2>1
  <2>3. T[i] <= i * z[i]
    BY <1>2, <2>1, <2>2
  <2>4. z[i] <= z[i + 1] /\ T[i + 1] = T[i] + z[i + 1]
        /\ z[i] \in Int /\ z[i + 1] \in Int /\ T[i] \in Int
    BY <2>2, Zenon DEF Together
  <2> HIDE DEF L
  <2>5. PICK x, y, t \in Int : x = z[i] /\ y = z[i + 1] /\ t = T[i]
    BY <2>4, Zenon
  <2>6. x <= y /\ t <= i * x /\ T[i + 1] = t + y
    BY <2>3, <2>4, <2>5, Zenon
  <2>7. i * x <= i * y
    BY <2>6
  <2>8. (i + 1) * y = i * y + y /\ i * x \in Int /\ i * y \in Int
    OBVIOUS
  <2>9. t + y <= (i + 1) * y
    BY <2>6, <2>7, <2>8
  <2> QED BY <2>1, <2>5, <2>6, <2>9, Zenon
<1>3. j - 1 \in L /\ (j - 1) + 1 = j
  <2> HIDE DEF L
  <2> QED BY <1>1, <1>2, Inductive
<1> QED BY <1>3

\* The slow average is behind the next price.
LEMMA SlowBehind ==
  ASSUME NEW m \in Nat, NEW b, NEW u, NEW v, NEW Q, NEW U, NEW V, NEW z, NEW T, NEW G, NEW D,
         Together(m, b, u, v, Q, U, V, z, T, G, D), NEW j \in 0 .. m - 1
  PROVE  G[j] <= (Q[j] - U[j]) * z[j + 1]
<1> DEFINE L == {k \in Nat : k <= m - 1 => G[k] <= (Q[k] - U[k]) * z[k + 1]}
<1>0. b \in Nat /\ u \in Nat /\ v \in Nat /\ v <= u
  BY Zenon DEF Together
<1>1. 0 \in L
  <2> SUFFICES ASSUME 0 <= m - 1 PROVE G[0] <= (Q[0] - U[0]) * z[0 + 1]
    OBVIOUS
  <2>1. 0 \in 0 .. m /\ 0 + 1 \in 0 .. m
    OBVIOUS
  <2>2. G[0] <= 0 /\ U[0] = Q[0] /\ Q[0] \in Int /\ z[0 + 1] \in Int /\ G[0] \in Int
    BY <2>1, Zenon DEF Together
  <2>3. \A q, x \in Int : (q - q) * x = 0
    OBVIOUS
  <2>4. (Q[0] - U[0]) * z[0 + 1] = 0
    BY <2>2, <2>3, Zenon
  <2> QED BY <2>2, <2>4, Zenon
<1>2. ASSUME NEW k \in Nat, k \in L PROVE k + 1 \in L
  <2> SUFFICES ASSUME k + 1 <= m - 1 PROVE G[k + 1] <= (Q[k + 1] - U[k + 1]) * z[(k + 1) + 1]
    OBVIOUS
  <2>1. G[k] <= (Q[k] - U[k]) * z[k + 1]
    BY <1>2
  <2> HIDE DEF L
  <2>2. PICK i \in Nat : i = k + 1
    OBVIOUS
  <2>3. /\ i \in 1 .. m - 1 /\ i \in 1 .. m /\ i \in 0 .. m /\ i + 1 \in 0 .. m /\ i - 1 = k
        /\ k \in 0 .. m
    BY <2>2
  <2>4. /\ z[i] <= z[i + 1] /\ z[i] \in Int /\ z[i + 1] \in Int
        /\ G[i] = 2 * b * Q[k] * z[i] + u * G[k]
        /\ Q[i] = (2 * b + u) * Q[k] /\ U[i] = u * U[k]
        /\ Q[k] \in Int /\ U[k] \in Int /\ G[k] \in Int
    BY <2>3, Zenon DEF Together
  <2>5. U[k] <= Q[k] /\ U[i] <= Q[i]
    BY <2>3, PowersOrdered
  <2>6. PICK x, y, q, p, g \in Int : x = z[i] /\ y = z[i + 1] /\ q = Q[k] /\ p = U[k] /\ g = G[k]
    BY <2>4, Zenon
  <2>7. /\ x <= y /\ p <= q /\ g <= (q - p) * x
        /\ G[i] = 2 * b * q * x + u * g /\ Q[i] = (2 * b + u) * q /\ U[i] = u * p
    BY <2>1, <2>2, <2>4, <2>5, <2>6, Zenon
  <2>8. u * p <= (2 * b + u) * q
    BY <2>5, <2>7, Zenon
  <2>9. 2 * b * q * x + u * g <= ((2 * b + u) * q - u * p) * x
    <3>1. PICK r \in Int : r = (q - p) * x
      OBVIOUS
    <3>2. u * g <= u * r
      BY <1>0, <2>7, <3>1
    <3>3. ((2 * b + u) * q - u * p) * x = 2 * b * q * x + u * r
      BY <1>0, <3>1
    <3>4. 2 * b * q * x \in Int /\ u * g \in Int /\ u * r \in Int
      BY <1>0
    <3> QED BY <3>2, <3>3, <3>4
  <2>10. ((2 * b + u) * q - u * p) * x <= ((2 * b + u) * q - u * p) * y
    <3>1. PICK r \in Nat : r = (2 * b + u) * q - u * p
      <4>1. (2 * b + u) * q \in Int /\ u * p \in Int
        BY <1>0
      <4>2. (2 * b + u) * q - u * p \in Nat
        BY <2>8, <4>1
      <4> QED BY <4>2, Zenon
    <3>2. r * x <= r * y
      BY <2>7
    <3> QED BY <3>1, <3>2, Zenon
  <2>11. 2 * b * q * x + u * g <= ((2 * b + u) * q - u * p) * y
    <3>1. /\ 2 * b * q * x + u * g \in Int
          /\ ((2 * b + u) * q - u * p) * x \in Int /\ ((2 * b + u) * q - u * p) * y \in Int
      BY <1>0
    <3> QED BY <2>9, <2>10, <3>1
  <2> QED BY <2>2, <2>6, <2>7, <2>11, Zenon
<1>3. j \in L /\ j <= m - 1
  <2> HIDE DEF L
  <2> QED BY <1>1, <1>2, Inductive
<1> QED BY <1>3

\* The fast average is ahead by what the prices have risen.
LEMMA LeadGrows ==
  ASSUME NEW m \in Nat, NEW b, NEW u, NEW v, NEW Q, NEW U, NEW V, NEW z, NEW T, NEW G, NEW D,
         Together(m, b, u, v, Q, U, V, z, T, G, D), NEW j \in 0 .. m
  PROVE  j * D[j] >= (U[j] - V[j]) * T[j]
<1> DEFINE L == {k \in Nat : k <= m => k * D[k] >= (U[k] - V[k]) * T[k]}
<1>0. b \in Nat /\ u \in Nat /\ v \in Nat /\ v <= u
  BY Zenon DEF Together
<1>1. 0 \in L
  <2>1. 0 \in 0 .. m
    OBVIOUS
  <2>2. T[0] = 0 /\ U[0] \in Int /\ V[0] \in Int /\ D[0] \in Int
    BY <2>1, Zenon DEF Together
  <2>3. 0 * D[0] = 0 /\ (U[0] - V[0]) * 0 = 0
    BY <2>2
  <2> QED BY <2>2, <2>3
<1>2. ASSUME NEW k \in Nat, k \in L PROVE k + 1 \in L
  <2> SUFFICES ASSUME k + 1 <= m PROVE (k + 1) * D[k + 1] >= (U[k + 1] - V[k + 1]) * T[k + 1]
    OBVIOUS
  <2>1. k * D[k] >= (U[k] - V[k]) * T[k]
    BY <1>2
  <2> HIDE DEF L
  <2>2. k \in 0 .. m /\ k + 1 \in 0 .. m /\ k + 1 \in 1 .. m /\ (k + 1) - 1 = k /\ k \in 0 .. m - 1
    BY Stepwise
  <2>3. /\ U[k + 1] = u * U[k] /\ V[k + 1] = v * V[k] /\ T[k + 1] = T[k] + z[k + 1]
        /\ D[k + 1] = v * D[k] + (u - v) * (Q[k] * z[k + 1] - G[k])
        /\ Q[k] \in Int /\ U[k] \in Int /\ V[k] \in Int /\ T[k] \in Int /\ G[k] \in Int
        /\ D[k] \in Int /\ z[k + 1] \in Int
    BY <2>2, Zenon DEF Together
  <2>4. /\ 0 <= V[k] /\ V[k] <= U[k] /\ U[k] <= Q[k]
        /\ v * (U[k] - V[k]) <= k * ((u - v) * U[k])
    BY <2>2, PowersOrdered
  <2>5. G[k] <= (Q[k] - U[k]) * z[k + 1]
    BY <2>2, SlowBehind
  <2>6. PICK d, q, p, y, x, g, t \in Int :
          d = D[k] /\ q = Q[k] /\ p = U[k] /\ y = V[k] /\ x = z[k + 1] /\ g = G[k] /\ t = T[k]
    BY <2>3, Zenon
  <2>7. PICK e \in Nat : e = u - v
    BY <1>0
  <2>8. /\ 0 <= y /\ y <= p /\ p <= q /\ v * (p - y) <= k * (e * p)
        /\ g <= (q - p) * x /\ k * d >= (p - y) * t
        /\ U[k + 1] = u * p /\ V[k + 1] = v * y /\ T[k + 1] = t + x
        /\ D[k + 1] = v * d + e * (q * x - g)
    BY <2>1, <2>3, <2>4, <2>5, <2>6, <2>7, Zenon
  <2>9. PICK A, B \in Int : A = v * (p - y) /\ B = e * p
    BY <1>0
  <2>10. u * p - v * y = A + B
    BY <1>0, <2>7, <2>9
  <2>11. PICK c \in Int : c = v * d + e * (q * x - g)
    BY <1>0
  <2>12. c >= v * d + B * x
    <3>1. PICK r \in Nat : r = q * x - g - p * x
      <4>1. (q - p) * x = q * x - p * x /\ q * x \in Int /\ p * x \in Int
        OBVIOUS
      <4>2. q * x - g - p * x \in Nat
        BY <2>8, <4>1
      <4> QED BY <4>2, Zenon
    <3>2. c = v * d + B * x + e * r
      BY <1>0, <2>9, <2>11, <3>1
    <3>3. e * r >= 0 /\ e * r \in Int /\ v * d \in Int /\ B * x \in Int
      BY <1>0
    <3> QED BY <3>2, <3>3
  <2>13. (k + 1) * c >= (A + B) * (t + x)
    <3>1. CASE k = 0
      <4>1. T[0] = 0 /\ D[0] >= 0 /\ U[0] = V[0]
        BY Zenon DEF Together
      <4>2. t = 0 /\ d >= 0 /\ p = y
        BY <2>6, <3>1, <4>1
      <4>3. A = 0
        BY <1>0, <2>9, <4>2
      <4>4. 0 <= v * d
        BY <1>0, <4>2
      <4>5. (k + 1) * c = c /\ (A + B) * (t + x) = B * x
        BY <3>1, <4>2, <4>3
      <4>6. B * x \in Int /\ v * d \in Int
        BY <1>0
      <4> QED BY <2>12, <4>4, <4>5, <4>6
    <3>2. CASE k # 0
      <4>1. t <= k * x
        <5>1. k \in 1 .. m - 1 /\ k \in 1 .. m
          BY <3>2
        <5>2. T[k] <= k * z[k]
          BY <5>1, SumsBelow
        <5>3. z[k] <= z[k + 1] /\ z[k] \in Int
          BY <2>2, <5>1, Zenon DEF Together
        <5>4. PICK o \in Int : o = z[k]
          BY <5>3, Zenon
        <5>5. t <= k * o /\ o <= x
          BY <2>6, <5>2, <5>3, <5>4, Zenon
        <5>6. k * o <= k * x
          BY <5>5
        <5>7. k * o \in Int /\ k * x \in Int
          OBVIOUS
        <5> QED BY <5>5, <5>6, <5>7
      <4>2. k * c >= A * t + k * (B * x)
        <5>1. k * (v * d) >= A * t
          <6>1. PICK r, w \in Int : r = k * d /\ w = (p - y) * t
            OBVIOUS
          <6>2. r >= w
            BY <2>8, <6>1, Zenon
          <6>3. v * r >= v * w
            BY <1>0, <6>2
          <6>4. k * (v * d) = v * r /\ A * t = v * w
            BY <1>0, <2>9, <6>1
          <6> QED BY <6>3, <6>4, Zenon
        <5>2. k * c >= k * (v * d + B * x)
          <6>1. PICK r \in Int : r = v * d + B * x
            BY <1>0
          <6>2. k * c >= k * r
            BY <2>12, <6>1
          <6> QED BY <6>1, <6>2, Zenon
        <5>3. k * (v * d + B * x) = k * (v * d) + k * (B * x)
          BY <1>0
        <5>4. k * (v * d) \in Int /\ k * (B * x) \in Int /\ A * t \in Int /\ k * c \in Int
          BY <1>0
        <5> QED BY <5>1, <5>2, <5>3, <5>4
      <4>3. (k * x - t) * (k * B - A) >= 0
        <5>1. PICK r, w \in Int : r = k * x - t /\ w = k * B - A
          OBVIOUS
        <5>2. k * x \in Int /\ k * B \in Int
          OBVIOUS
        <5>3. k * B = k * (e * p)
          BY <2>9, Zenon
        <5>4. A <= k * B
          BY <2>8, <2>9, <5>3, Zenon
        <5>5. r \in Nat /\ w \in Nat
          BY <4>1, <5>1, <5>2, <5>4
        <5>6. r * w >= 0
          BY <5>5
        <5> QED BY <5>1, <5>6, Zenon
      <4>4. (k + 1) * (A * t + k * (B * x)) = k * ((A + B) * (t + x)) + (k * x - t) * (k * B - A)
        OBVIOUS
      <4>5. k * ((k + 1) * c) >= k * ((A + B) * (t + x))
        <5>1. PICK r \in Int : r = A * t + k * (B * x)
          OBVIOUS
        <5>2. PICK w \in Int : w = k * c
          OBVIOUS
        <5>3. w >= r
          BY <4>2, <5>1, <5>2, Zenon
        <5>4. (k + 1) * w >= (k + 1) * r
          BY <5>3
        <5>5. k * ((k + 1) * c) = (k + 1) * w
          BY <5>2
        <5>6. (k + 1) * r = k * ((A + B) * (t + x)) + (k * x - t) * (k * B - A)
          BY <4>4, <5>1, Zenon
        <5>7. /\ k * ((A + B) * (t + x)) \in Int /\ (k * x - t) * (k * B - A) \in Int
              /\ (k + 1) * w \in Int /\ (k + 1) * r \in Int
          OBVIOUS
        <5> QED BY <4>3, <5>4, <5>5, <5>6, <5>7
      <4>6. PICK r, w \in Int : r = (k + 1) * c /\ w = (A + B) * (t + x)
        OBVIOUS
      <4>7. k * r >= k * w
        BY <4>5, <4>6, Zenon
      <4>8. r >= w
        <5> SUFFICES ASSUME r + 1 <= w PROVE FALSE
          OBVIOUS
        <5>1. k * (r + 1) <= k * w
          OBVIOUS
        <5>2. k * (r + 1) = k * r + k /\ k * r \in Int /\ k * w \in Int /\ k > 0
          BY <3>2
        <5> QED BY <4>7, <5>1, <5>2
      <4> QED BY <4>6, <4>8, Zenon
    <3> QED BY <3>1, <3>2
  <2> QED BY <2>8, <2>10, <2>11, <2>13, Zenon
<1>3. j \in L /\ j <= m
  <2> HIDE DEF L
  <2> QED BY <1>1, <1>2, Inductive
<1> QED BY <1>3

\* When the prices sum up to no less than at the beginning, the fast average ends ahead.
LEMMA LeadKept ==
  ASSUME NEW m \in Nat, NEW b, NEW u, NEW v, NEW Q, NEW U, NEW V, NEW z, NEW T, NEW G, NEW D,
         Together(m, b, u, v, Q, U, V, z, T, G, D), T[m] >= 0
  PROVE  D[m] >= 0
<1>1. m \in 0 .. m
  OBVIOUS
<1>2. D[m] \in Int /\ T[m] \in Int /\ U[m] \in Int /\ V[m] \in Int /\ D[0] >= 0
  BY <1>1, Zenon DEF Together
<1>3. m * D[m] >= (U[m] - V[m]) * T[m]
  BY <1>1, LeadGrows
<1>4. V[m] <= U[m]
  BY <1>1, PowersOrdered
<1>5. PICK d, r, t \in Int : d = D[m] /\ r = U[m] - V[m] /\ t = T[m]
  BY <1>2
<1>6. r >= 0 /\ t >= 0 /\ m * d >= r * t
  BY <1>2, <1>3, <1>4, <1>5
<1>7. r * t >= 0 /\ r * t \in Int /\ m * d \in Int
  BY <1>6
<1>8. CASE m = 0
  BY <1>2, <1>8
<1>9. CASE m # 0
  <2> SUFFICES ASSUME d <= -1 PROVE FALSE
    BY <1>5
  <2>1. m * d <= m * (-1)
    OBVIOUS
  <2>2. m * (-1) < 0 /\ m * (-1) \in Int
    BY <1>9
  <2> QED BY <1>6, <1>7, <2>1, <2>2
<1> QED BY <1>8, <1>9

\* The average that _ema has after k of the prices it takes in again, of n - 1.
LatestEma(s, n) == Ema(s, Len(s) - n + 2, n, SumOf(LastN(s, n)))
After(s, n, k) == LatestEma(s, n)[Len(s) - n + 1 + k]

\* This average, from one price to the next.
LEMMA AfterIs ==
  ASSUME NEW s \in Seq(Int), NEW n \in 1 .. Len(s)
  PROVE  /\ SumOf(LastN(s, n)) \in Int /\ After(s, n, 0) = SumOf(LastN(s, n))
         /\ \A k \in 0 .. n - 1 : After(s, n, k) \in Int
         /\ \A k \in 1 .. n - 1 :
              After(s, n, k) = 2 * Unit(n, k - 1) * s[Len(s) - n + 1 + k] + (n - 1) * After(s, n, k - 1)
         /\ EmaOfLast(s, n) = After(s, n, n - 1)
<1> DEFINE sum == SumOf(LastN(s, n))
           e == LatestEma(s, n)
<1>1. Len(s) \in Nat /\ n \in Nat /\ n \in 0 .. Len(s)
  OBVIOUS
<1>2. sum \in Int
  BY <1>1, LastSumIs
<1>3. PICK from \in 1 .. Len(s) + 1 : from = Len(s) - n + 2
  <2>1. Len(s) - n + 2 \in 1 .. Len(s) + 1
    BY <1>1
  <2> QED BY <2>1, Zenon
<1>4. e = Ema(s, from, n, sum)
  BY <1>3, Zenon DEF LatestEma
<1> DEFINE b == Pushes(s, from, n)
           c == n - 1
           to == Len(s)
<1>5. \A i \in from .. to : b[i] = 2 * Unit(n, i - from) * s[i]
  BY Zenon DEF Pushes
<1> HIDE DEF sum
<1>6. RunOf(Ema(s, from, n, sum), sum, b, c, from, to)
  BY <1>1, <1>2, EmaIs
<1> HIDE DEF b, e
<1>7. /\ e[from - 1] = sum /\ \A i \in from - 1 .. to : e[i] \in Int
      /\ \A i \in from .. to : e[i] = b[i] + c * e[i - 1]
  <2> HIDE DEF c, to
  <2> QED BY <1>4, <1>6, Zenon DEF RunOf
<1>8. \A k : After(s, n, k) = e[Len(s) - n + 1 + k]
  BY Zenon DEF After, e
<1>9. After(s, n, 0) = sum
  <2>1. Len(s) - n + 1 + 0 = from - 1
    BY <1>1, <1>3
  <2> QED BY <1>7, <1>8, <2>1, Zenon
<1>10. ASSUME NEW k \in 0 .. n - 1 PROVE After(s, n, k) \in Int
  <2>1. Len(s) - n + 1 + k \in from - 1 .. to
    BY <1>1, <1>3
  <2> QED BY <1>7, <1>8, <2>1, Zenon
<1>11. ASSUME NEW k \in 1 .. n - 1
       PROVE After(s, n, k) = 2 * Unit(n, k - 1) * s[Len(s) - n + 1 + k] + c * After(s, n, k - 1)
  <2>1. PICK i \in from .. to : i = Len(s) - n + 1 + k
    <3>1. Len(s) - n + 1 + k \in from .. to
      BY <1>1, <1>3
    <3> QED BY <3>1, Zenon
  <2>2. i - from = k - 1 /\ Len(s) - n + 1 + (k - 1) = i - 1
    BY <1>1, <1>3, <2>1
  <2>3. e[i] = b[i] + c * e[i - 1] /\ b[i] = 2 * Unit(n, i - from) * s[i]
    BY <1>5, <1>7, <2>1
  <2>4. After(s, n, k) = e[i] /\ After(s, n, k - 1) = e[i - 1]
    BY <1>8, <2>1, <2>2, Zenon
  <2> QED BY <2>1, <2>2, <2>3, <2>4, Zenon
<1>12. EmaOfLast(s, n) = After(s, n, n - 1)
  <2>1. Len(s) - n + 1 + (n - 1) = Len(s)
    BY <1>1
  <2>2. EmaOfLast(s, n) = LatestEma(s, n)[Len(s)]
    BY Zenon DEF EmaOfLast, LatestEma
  <2>3. After(s, n, n - 1) = LatestEma(s, n)[Len(s) - n + 1 + (n - 1)]
    BY Zenon DEF After
  <2> QED BY <2>1, <2>2, <2>3, Zenon
<1> QED BY <1>2, <1>9, <1>10, <1>11, <1>12 DEF sum

\* The sum of the last f prices of a market that has risen is above what f of those before make.
LEMMA LastSumAbove ==
  ASSUME NEW s \in Seq(Int), Climbs(s), NEW f \in 1 .. Len(s), NEW i \in 1 .. Len(s) - f + 1
  PROVE  s[i] \in Int /\ f * s[i] <= SumOf(LastN(s, f))
<1> DEFINE L == Len(s)
           S == SumsOf(s)
<1>1. /\ L \in Nat /\ f \in 0 .. L /\ L - f \in 0 .. L /\ L \in L - f .. L /\ L - (L - f) = f
      /\ i \in 1 .. L
  OBVIOUS
<1>2. PICK c \in Int : c = s[i]
  BY <1>1
<1>3. \A k \in (L - f) + 1 .. L : s[k] >= c
  <2> SUFFICES ASSUME NEW k \in (L - f) + 1 .. L PROVE s[k] >= c
    OBVIOUS
  <2>1. k \in 1 .. L /\ i <= k
    BY <1>1
  <2>2. s[i] <= s[k] /\ s[k] \in Int
    BY <1>1, <2>1 DEF Climbs
  <2> HIDE DEF L
  <2> QED BY <1>2, <2>2
<1>4. S[L] - S[L - f] >= (L - (L - f)) * c
  BY <1>1, <1>3, PartBounds
<1>5. SumOf(LastN(s, f)) = S[L] - S[L - f]
  BY <1>1, LastSumIs
<1> HIDE DEF L, S
<1>6. S[L] - S[L - f] >= f * c
  BY <1>1, <1>4
<1>7. f * c \in Int /\ f * c = f * s[i]
  BY <1>2
<1> QED BY <1>2, <1>5, <1>6, <1>7

\* Before the prices the fast average is made from, the slow one stays below their mean.
LEMMA SlowLags ==
  ASSUME NEW s \in Seq(Int), Climbs(s), NEW g \in 1 .. Len(s), NEW f \in 1 .. g, NEW k \in 0 .. g - f
  PROVE  f * After(s, g, k) <= Unit(g, k) * SumOf(LastN(s, f))
<1> DEFINE A == SumOf(LastN(s, f))
           I == {i \in Nat : i <= g - f => f * After(s, g, i) <= Unit(g, i) * A}
<1>1. f \in 1 .. Len(s) /\ g \in Nat /\ f \in Nat /\ Len(s) \in Nat
  OBVIOUS
<1>2. /\ SumOf(LastN(s, g)) \in Int /\ After(s, g, 0) = SumOf(LastN(s, g))
      /\ \A i \in 0 .. g - 1 : After(s, g, i) \in Int
      /\ \A i \in 1 .. g - 1 :
           After(s, g, i) = 2 * Unit(g, i - 1) * s[Len(s) - g + 1 + i] + (g - 1) * After(s, g, i - 1)
  BY AfterIs
<1>3. A \in Int /\ g * A - f * SumOf(LastN(s, g)) >= 0
  BY MeansRise
<1>4. /\ Unit(g, 0) = g
      /\ \A i \in Nat : Unit(g, i) \in Int /\ Unit(g, i + 1) = (g + 1) * Unit(g, i)
  BY <1>1, UnitIs
<1> HIDE DEF A
<1>5. 0 \in I
  <2>1. g * A \in Int /\ f * SumOf(LastN(s, g)) \in Int
    BY <1>1, <1>2, <1>3
  <2>2. f * SumOf(LastN(s, g)) <= g * A
    BY <1>3, <2>1
  <2> QED BY <1>2, <1>4, <2>2
<1>6. ASSUME NEW i \in Nat, i \in I PROVE i + 1 \in I
  <2> SUFFICES ASSUME i + 1 <= g - f PROVE f * After(s, g, i + 1) <= Unit(g, i + 1) * A
    OBVIOUS
  <2>1. f * After(s, g, i) <= Unit(g, i) * A
    BY <1>1, <1>6
  <2> HIDE DEF I
  <2>2. PICK l \in 1 .. Len(s) - f + 1 : l = Len(s) - g + 1 + (i + 1)
    <3>1. Len(s) - g + 1 + (i + 1) \in 1 .. Len(s) - f + 1
      BY <1>1
    <3> QED BY <3>1, Zenon
  <2>3. i + 1 \in 1 .. g - 1 /\ (i + 1) - 1 = i /\ i \in 0 .. g - 1
    BY <1>1
  <2>4. After(s, g, i + 1) = 2 * Unit(g, i) * s[l] + (g - 1) * After(s, g, i) /\ After(s, g, i) \in Int
    BY <1>2, <2>2, <2>3
  <2>5. s[l] \in Int /\ f * s[l] <= A
    BY <1>1, LastSumAbove DEF A
  <2>6. Unit(g, i) \in Int /\ Unit(g, i) >= 0
    <3>1. Power(g + 1, i) \in Nat \ {0}
      <4>1. g + 1 \in Nat \ {0}
        BY <1>1
      <4> QED BY <4>1, PowerPositive
    <3>2. Unit(g, i) = g * Power(g + 1, i)
      BY Zenon DEF Unit
    <3>3. \A p \in Nat : g * p \in Int /\ g * p >= 0
      BY <1>1
    <3> QED BY <3>1, <3>2, <3>3
  <2>7. PICK e, p, q \in Int : e = After(s, g, i) /\ p = s[l] /\ q = Unit(g, i)
    BY <2>4, <2>5, <2>6, Zenon
  <2>8. /\ f * e <= q * A /\ f * p <= A /\ q >= 0
        /\ After(s, g, i + 1) = 2 * q * p + (g - 1) * e /\ Unit(g, i + 1) = (g + 1) * q
    BY <1>4, <2>1, <2>4, <2>5, <2>6, <2>7, Zenon
  <2>9. f * (2 * q * p + (g - 1) * e) <= ((g + 1) * q) * A
    <3>1. PICK r, w \in Int : r = f * p /\ w = f * e
      BY <1>1
    <3>2. q * r <= q * A
      BY <1>3, <2>8, <3>1
    <3>3. (g - 1) * w <= (g - 1) * (q * A)
      <4>1. PICK o \in Int : o = q * A
        BY <1>3
      <4>2. w <= o
        BY <2>8, <3>1, <4>1, Zenon
      <4>3. (g - 1) * w <= (g - 1) * o
        BY <1>1, <4>2
      <4> QED BY <4>1, <4>3, Zenon
    <3>4. f * (2 * q * p + (g - 1) * e) = 2 * (q * r) + (g - 1) * w
      BY <1>1, <3>1
    <3>5. ((g + 1) * q) * A = 2 * (q * A) + (g - 1) * (q * A)
      BY <1>1, <1>3
    <3>6. q * r \in Int /\ q * A \in Int /\ (g - 1) * w \in Int /\ (g - 1) * (q * A) \in Int
      BY <1>1, <1>3
    <3>7. 2 * (q * r) + (g - 1) * w <= 2 * (q * A) + (g - 1) * (q * A)
      <4>1. PICK a, b, c, d \in Int : a = q * r /\ b = q * A /\ c = (g - 1) * w /\ d = (g - 1) * (q * A)
        BY <3>6, Zenon
      <4>2. a <= b /\ c <= d
        BY <3>2, <3>3, <4>1, Zenon
      <4>3. 2 * a + c <= 2 * b + d
        BY <4>2
      <4> QED BY <4>1, <4>3, Zenon
    <3> QED BY <3>4, <3>5, <3>7, Zenon
  <2> QED BY <2>8, <2>9, Zenon
<1>7. k \in I /\ k <= g - f
  <2>1. k \in Nat /\ k <= g - f
    BY <1>1
  <2> HIDE DEF I
  <2> QED BY <1>5, <1>6, <2>1, Inductive
<1>8. f * After(s, g, k) <= Unit(g, k) * A
  BY <1>7
<1> QED BY <1>8 DEF A

\* In a market that has risen the fast average of ema_crossover is not below the slow one: from the
\* last f prices on the two run together.
LEMMA FastAhead ==
  ASSUME NEW s \in Seq(Int), Climbs(s), NEW g \in 1 .. Len(s), NEW f \in 1 .. g
  PROVE  /\ Unit(g, g - 1) * EmaOfLast(s, f) - Unit(f, f - 1) * EmaOfLast(s, g) \in Int
         /\ Unit(g, g - 1) * EmaOfLast(s, f) - Unit(f, f - 1) * EmaOfLast(s, g) >= 0
<1> DEFINE A == SumOf(LastN(s, f))
           S == SumsOf(s)
           h == g - f
           m == f - 1
           o == Len(s) - f + 1
           b == f + 1
           u == (f + 1) * (g - 1)
           v == (f - 1) * (g + 1)
           I == 0 .. m
           P == [j \in I |-> Power(f + 1, j)]
           N == [j \in I |-> Unit(g, h + j)]
           R == [j \in I |-> Unit(f, j)]
           x == [j \in I |-> After(s, f, j)]
           y == [j \in I |-> After(s, g, h + j)]
           Q == [j \in I |-> P[j] * N[j]]
           U == [j \in I |-> Unit(g, h) * Power(u, j)]
           V == [j \in I |-> Unit(g, h) * Power(v, j)]
           z == [j \in I |-> f * s[o + j] - A]
           T == [j \in I |-> f * (S[o + j] - S[o]) - j * A]
           G == [j \in I |-> R[j] * y[j] - Q[j] * A]
           D == [j \in I |-> N[j] * x[j] - R[j] * y[j]]
<1>0. /\ f \in 1 .. Len(s) /\ g \in Nat /\ f \in Nat /\ Len(s) \in Nat /\ h \in Nat /\ m \in Nat
      /\ 0 \in I /\ m \in I /\ \A j \in I : j \in Nat /\ h + j \in Nat /\ h + j \in 0 .. g - 1
      /\ \A j \in 1 .. m : /\ j \in I /\ j - 1 \in I /\ h + (j - 1) = (h + j) - 1
                           /\ h + j \in 1 .. g - 1 /\ j - 1 \in Nat /\ (h + (j - 1)) + 1 = h + j
                           /\ h + (j - 1) \in Nat /\ (j - 1) + 1 = j
  OBVIOUS
<1>1. b \in Nat /\ u \in Nat /\ v \in Nat /\ v <= u /\ 2 * b + u = (f + 1) * (g + 1)
  <2>1. u - v = 2 * h
    BY <1>0
  <2>2. PICK c \in Nat : c = g - 1
    BY <1>0
  <2>3. u = (f + 1) * c /\ v = m * (g + 1)
    BY <2>2
  <2>4. u \in Nat /\ v \in Nat
    BY <1>0, <2>2, <2>3
  <2>5. 2 * b + u = (f + 1) * (g + 1)
    BY <1>0
  <2>6. v <= u
    <3> HIDE DEF u, v, h
    <3> QED BY <1>0, <2>1, <2>4
  <2> QED BY <1>0, <2>4, <2>5, <2>6
<1>2. /\ \A j \in I : P[j] \in Int
      /\ P[0] = 1 /\ \A j \in 1 .. m : P[j] = (f + 1) * P[j - 1]
  <2> HIDE DEF I, m
  <2>1. f + 1 \in Int
    BY <1>0
  <2>2. /\ Power(f + 1, 0) = 1
        /\ \A k \in Nat : Power(f + 1, k) \in Int /\ Power(f + 1, k + 1) = (f + 1) * Power(f + 1, k)
    BY <2>1, PowerIs
  <2>3. \A j \in I : P[j] = Power(f + 1, j)
    OBVIOUS
  <2> HIDE DEF P
  <2>4. ASSUME NEW j \in 1 .. m PROVE P[j] = (f + 1) * P[j - 1]
    <3>1. Power(f + 1, (j - 1) + 1) = (f + 1) * Power(f + 1, j - 1)
      BY <1>0, <2>2
    <3>2. Power(f + 1, (j - 1) + 1) = Power(f + 1, j)
      BY <1>0
    <3>3. P[j] = Power(f + 1, j) /\ P[j - 1] = Power(f + 1, j - 1)
      BY <1>0, <2>3
    <3> QED BY <3>1, <3>2, <3>3, Zenon
  <2> QED BY <1>0, <2>2, <2>3, <2>4
<1>3. /\ \A j \in I : N[j] \in Int
      /\ N[0] = Unit(g, h) /\ \A j \in 1 .. m : N[j] = (g + 1) * N[j - 1]
  <2>0. h + 0 = h
    BY <1>0
  <2> HIDE DEF I, m, h
  <2>2. \A k \in Nat : Unit(g, k) \in Int /\ Unit(g, k + 1) = (g + 1) * Unit(g, k)
    BY <1>0, UnitIs
  <2>3. \A j \in I : N[j] = Unit(g, h + j)
    OBVIOUS
  <2> HIDE DEF N
  <2>4. ASSUME NEW j \in 1 .. m PROVE N[j] = (g + 1) * N[j - 1]
    <3>1. Unit(g, (h + (j - 1)) + 1) = (g + 1) * Unit(g, h + (j - 1))
      BY <1>0, <2>2
    <3>2. (h + (j - 1)) + 1 = h + j
      BY <1>0
    <3>3. N[j] = Unit(g, h + j) /\ N[j - 1] = Unit(g, h + (j - 1))
      BY <1>0, <2>3
    <3> QED BY <3>1, <3>2, <3>3, Zenon
  <2> QED BY <1>0, <2>0, <2>2, <2>3, <2>4
<1>4. /\ \A j \in I : R[j] \in Int /\ R[j] = f * P[j]
      /\ R[0] = f /\ \A j \in 1 .. m : R[j] = (f + 1) * R[j - 1]
  <2> HIDE DEF I, m
  <2>2. Unit(f, 0) = f /\ \A k \in Nat : Unit(f, k) \in Int /\ Unit(f, k + 1) = (f + 1) * Unit(f, k)
    BY <1>0, UnitIs
  <2>3. \A j \in I : R[j] = Unit(f, j) /\ P[j] = Power(f + 1, j)
    OBVIOUS
  <2> HIDE DEF R, P
  <2>4. ASSUME NEW j \in 1 .. m PROVE R[j] = (f + 1) * R[j - 1]
    <3>1. Unit(f, (j - 1) + 1) = (f + 1) * Unit(f, j - 1)
      BY <1>0, <2>2
    <3>2. Unit(f, (j - 1) + 1) = Unit(f, j)
      BY <1>0
    <3>3. R[j] = Unit(f, j) /\ R[j - 1] = Unit(f, j - 1)
      BY <1>0, <2>3
    <3> QED BY <3>1, <3>2, <3>3, Zenon
  <2>5. \A j \in I : R[j] = f * P[j]
    BY <2>3, Zenon DEF Unit
  <2> QED BY <1>0, <2>2, <2>3, <2>4, <2>5
<1>5. /\ \A j \in I : o + j \in 1 .. Len(s) /\ s[o + j] \in Int
      /\ \A j \in 1 .. m : Len(s) - f + 1 + j = o + j /\ Len(s) - g + 1 + (h + j) = o + j
  <2>1. \A j \in I : o + j \in 1 .. Len(s)
    BY <1>0
  <2>2. \A j \in 1 .. m : Len(s) - f + 1 + j = o + j /\ Len(s) - g + 1 + (h + j) = o + j
    BY <1>0
  <2> QED BY <2>1, <2>2
<1>6. A \in Int
  BY <1>0, LastSumIs
<1>7. /\ \A j \in I : x[j] \in Int
      /\ x[0] = A /\ \A j \in 1 .. m : x[j] = 2 * R[j - 1] * s[o + j] + (f - 1) * x[j - 1]
      /\ x[m] = EmaOfLast(s, f)
  <2>1. /\ After(s, f, 0) = A /\ EmaOfLast(s, f) = After(s, f, m)
        /\ \A k \in I : After(s, f, k) \in Int
        /\ \A k \in 1 .. m :
             After(s, f, k) = 2 * Unit(f, k - 1) * s[Len(s) - f + 1 + k] + (f - 1) * After(s, f, k - 1)
    BY <1>0, AfterIs
  <2> HIDE DEF I, m, o, A
  <2>2. \A j \in I : x[j] = After(s, f, j) /\ R[j] = Unit(f, j)
    OBVIOUS
  <2> HIDE DEF x, R
  <2>3. ASSUME NEW j \in 1 .. m PROVE x[j] = 2 * R[j - 1] * s[o + j] + (f - 1) * x[j - 1]
    <3>1. After(s, f, j) = 2 * Unit(f, j - 1) * s[Len(s) - f + 1 + j] + (f - 1) * After(s, f, j - 1)
      BY <2>1
    <3>2. /\ x[j] = After(s, f, j) /\ x[j - 1] = After(s, f, j - 1) /\ R[j - 1] = Unit(f, j - 1)
          /\ Len(s) - f + 1 + j = o + j
      BY <1>0, <1>5, <2>2
    <3> QED BY <3>1, <3>2, Zenon
  <2> QED BY <1>0, <2>1, <2>2, <2>3
<1>8. /\ \A j \in I : y[j] \in Int
      /\ f * y[0] <= Unit(g, h) * A
      /\ \A j \in 1 .. m : y[j] = 2 * N[j - 1] * s[o + j] + (g - 1) * y[j - 1]
      /\ y[m] = EmaOfLast(s, g) /\ N[m] = Unit(g, g - 1)
  <2>0. h + 0 = h /\ h \in 0 .. g - f /\ h + m = g - 1
    BY <1>0
  <2>1. /\ EmaOfLast(s, g) = After(s, g, g - 1)
        /\ \A k \in 0 .. g - 1 : After(s, g, k) \in Int
        /\ \A k \in 1 .. g - 1 :
             After(s, g, k) = 2 * Unit(g, k - 1) * s[Len(s) - g + 1 + k] + (g - 1) * After(s, g, k - 1)
    BY AfterIs
  <2>2. f * After(s, g, h) <= Unit(g, h) * A
    BY <2>0, SlowLags
  <2> HIDE DEF I, m, o, A, h
  <2>3. \A j \in I : y[j] = After(s, g, h + j) /\ N[j] = Unit(g, h + j)
    OBVIOUS
  <2> HIDE DEF y, N
  <2>4. ASSUME NEW j \in 1 .. m PROVE y[j] = 2 * N[j - 1] * s[o + j] + (g - 1) * y[j - 1]
    <3>1. PICK k \in 1 .. g - 1 : k = h + j
      BY <1>0
    <3>2. After(s, g, k) = 2 * Unit(g, k - 1) * s[Len(s) - g + 1 + k] + (g - 1) * After(s, g, k - 1)
      BY <2>1
    <3>3. /\ y[j] = After(s, g, k) /\ y[j - 1] = After(s, g, k - 1) /\ N[j - 1] = Unit(g, k - 1)
          /\ Len(s) - g + 1 + k = o + j
      <4>1. h + (j - 1) = k - 1 /\ Len(s) - g + 1 + k = o + j
        BY <1>0, <1>5, <3>1
      <4>2. j \in I /\ j - 1 \in I
        BY <1>0
      <4>3. y[j] = After(s, g, h + j) /\ y[j - 1] = After(s, g, h + (j - 1))
            /\ N[j - 1] = Unit(g, h + (j - 1))
        BY <2>3, <4>2, Zenon
      <4> QED BY <3>1, <4>1, <4>3, Zenon
    <3> QED BY <3>2, <3>3, Zenon
  <2>5. y[0] = After(s, g, h) /\ y[m] = After(s, g, g - 1) /\ N[m] = Unit(g, g - 1)
    BY <1>0, <2>0, <2>3
  <2>6. \A j \in I : y[j] \in Int
    BY <1>0, <2>1, <2>3
  <2> QED BY <2>1, <2>2, <2>4, <2>5, <2>6, Zenon
<1> HIDE DEF P, N, R, x, y
<1>9. Unit(g, h) \in Int /\ Unit(g, h) >= 0
  <2>1. Power(g + 1, h) \in Nat \ {0}
    <3>1. g + 1 \in Nat \ {0}
      BY <1>0
    <3> HIDE DEF h
    <3> QED BY <1>0, <3>1, PowerPositive
  <2>2. Unit(g, h) = g * Power(g + 1, h)
    BY Zenon DEF Unit
  <2>3. \A p \in Nat : g * p \in Int /\ g * p >= 0
    BY <1>0
  <2> HIDE DEF h
  <2> QED BY <2>1, <2>2, <2>3
<1>10. /\ \A j \in I : U[j] \in Int /\ V[j] \in Int
       /\ U[0] = Unit(g, h) /\ \A j \in 1 .. m : U[j] = u * U[j - 1]
       /\ V[0] = Unit(g, h) /\ \A j \in 1 .. m : V[j] = v * V[j - 1]
  <2>1. \A j \in I : U[j] = Unit(g, h) * Power(u, j) /\ V[j] = Unit(g, h) * Power(v, j)
    OBVIOUS
  <2> HIDE DEF I, m, h, U, V, u, v
  <2>2. ASSUME NEW c \in Nat
        PROVE  /\ \A j \in I : Unit(g, h) * Power(c, j) \in Int
               /\ Unit(g, h) * Power(c, 0) = Unit(g, h)
               /\ \A j \in 1 .. m : Unit(g, h) * Power(c, j) = c * (Unit(g, h) * Power(c, j - 1))
    <3>1. /\ Power(c, 0) = 1
          /\ \A k \in Nat : Power(c, k) \in Int /\ Power(c, k + 1) = c * Power(c, k)
      <4>1. c \in Int
        OBVIOUS
      <4> QED BY <4>1, PowerIs, Zenon
    <3>2. PICK e \in Int : e = Unit(g, h)
      BY <1>9, Zenon
    <3>3. ASSUME NEW j \in 1 .. m PROVE e * Power(c, j) = c * (e * Power(c, j - 1))
      <4>1. Power(c, (j - 1) + 1) = c * Power(c, j - 1) /\ Power(c, j - 1) \in Int
        BY <1>0, <3>1
      <4>2. (j - 1) + 1 = j
        BY <1>0
      <4>3. PICK p \in Int : p = Power(c, j - 1)
        BY <4>1, Zenon
      <4>4. e * (c * p) = c * (e * p)
        OBVIOUS
      <4> QED BY <4>1, <4>2, <4>3, <4>4, Zenon
    <3>4. ASSUME NEW j \in I PROVE e * Power(c, j) \in Int
      <4>1. j \in Nat
        BY <1>0
      <4>2. Power(c, j) \in Int
        BY <3>1, <4>1, Zenon
      <4>3. PICK p \in Int : p = Power(c, j)
        BY <4>2, Zenon
      <4>4. e * p \in Int
        OBVIOUS
      <4> QED BY <4>3, <4>4, Zenon
    <3>5. e * Power(c, 0) = e
      BY <3>1
    <3> QED BY <3>2, <3>3, <3>4, <3>5, Zenon
  <2>3. u \in Nat /\ v \in Nat
    BY <1>1
  <2>4. ASSUME NEW j \in 1 .. m PROVE U[j] = u * U[j - 1] /\ V[j] = v * V[j - 1]
    <3>1. j \in I /\ j - 1 \in I
      BY <1>0
    <3>2. /\ Unit(g, h) * Power(u, j) = u * (Unit(g, h) * Power(u, j - 1))
          /\ Unit(g, h) * Power(v, j) = v * (Unit(g, h) * Power(v, j - 1))
      BY <2>2, <2>3
    <3>3. /\ U[j] = Unit(g, h) * Power(u, j) /\ U[j - 1] = Unit(g, h) * Power(u, j - 1)
          /\ V[j] = Unit(g, h) * Power(v, j) /\ V[j - 1] = Unit(g, h) * Power(v, j - 1)
      BY <2>1, <3>1, Zenon
    <3> QED BY <3>2, <3>3, Zenon
  <2>5. \A j \in I : U[j] \in Int /\ V[j] \in Int
    BY <2>1, <2>2, <2>3
  <2>6. U[0] = Unit(g, h) /\ V[0] = Unit(g, h)
    BY <1>0, <2>1, <2>2, <2>3
  <2> QED BY <2>4, <2>5, <2>6, Zenon
<1>11. /\ \A j \in I : z[j] \in Int /\ z[j] = f * s[o + j] - A
       /\ \A j \in 1 .. m - 1 : z[j] <= z[j + 1]
  <2>1. \A j \in I : z[j] = f * s[o + j] - A
    OBVIOUS
  <2> HIDE DEF A, I, z
  <2>2. ASSUME NEW j \in I PROVE z[j] \in Int
    <3>1. PICK p, a \in Int : p = s[o + j] /\ a = A
      BY <1>5, <1>6, Zenon
    <3>2. f * p - a \in Int
      BY <1>0
    <3> QED BY <2>1, <3>1, <3>2, Zenon
  <2>3. ASSUME NEW j \in 1 .. m - 1 PROVE z[j] <= z[j + 1]
    <3>1. j \in I /\ j + 1 \in I
      BY DEF I
    <3>2. o + j \in 1 .. Len(s) /\ o + (j + 1) \in 1 .. Len(s) /\ o + j <= o + (j + 1)
      BY <1>0, <1>5, <3>1
    <3>3. PICK p, q \in Int : p = s[o + j] /\ q = s[o + (j + 1)]
      BY <1>5, <3>1, Zenon
    <3>4. p <= q
      BY <3>2, <3>3, Zenon DEF Climbs
    <3>5. f * p <= f * q /\ f * p \in Int /\ f * q \in Int
      BY <1>0, <3>4
    <3>6. z[j] = f * p - A /\ z[j + 1] = f * q - A
      BY <2>1, <3>1, <3>3, Zenon
    <3> QED BY <1>6, <3>5, <3>6
  <2> QED BY <2>1, <2>2, <2>3
<1>12. /\ \A j \in I : T[j] \in Int
       /\ T[0] = 0 /\ (\A j \in 1 .. m : T[j] = T[j - 1] + z[j]) /\ T[m] >= 0
  <2>1. \A j \in I : T[j] = f * (S[o + j] - S[o]) - j * A
    OBVIOUS
  <2>2. /\ \A k \in 0 .. Len(s) : S[k] \in Int
        /\ \A k \in 1 .. Len(s) : S[k] = S[k - 1] + s[k]
    BY SumsUnfold
  <2>3. A = S[Len(s)] - S[Len(s) - f]
    BY <1>0, LastSumIs
  <2>4. /\ o + m = Len(s) /\ o \in 1 .. Len(s) /\ o - 1 = Len(s) - f /\ o + 0 = o
        /\ Len(s) - f \in 0 .. Len(s) /\ o \in 1 .. Len(s) - f + 1 /\ Len(s) \in 0 .. Len(s)
        /\ \A j \in I : o + j \in 0 .. Len(s) /\ o + j \in 1 .. Len(s)
        /\ \A j \in 1 .. m : (o + j) - 1 = o + (j - 1)
        /\ o \in 0 .. Len(s)
    BY <1>0
  <2>5. f * s[o] <= A /\ s[o] \in Int
    BY <1>0, <2>4, LastSumAbove
  <2> HIDE DEF S, A, I, o, T
  <2>6. ASSUME NEW j \in I PROVE T[j] \in Int
    <3>1. PICK c, d, a \in Int : c = S[o] /\ d = S[o + j] /\ a = A
      BY <1>6, <2>2, <2>4, Zenon
    <3>2. j \in Int
      BY <1>0
    <3>3. f * (d - c) - j * a \in Int
      BY <1>0, <3>2
    <3> QED BY <2>1, <3>1, <3>3, Zenon
  <2>7. T[0] = 0
    <3>1. PICK c, a \in Int : c = S[o] /\ a = A
      BY <1>6, <2>2, <2>4, Zenon
    <3>2. T[0] = f * (c - c) - 0 * a
      BY <1>0, <2>1, <2>4, <3>1, Zenon
    <3>3. f * (c - c) - 0 * a = 0
      BY <1>0
    <3> QED BY <3>2, <3>3, Zenon
  <2>8. ASSUME NEW j \in 1 .. m PROVE T[j] = T[j - 1] + z[j]
    <3>1. j \in I /\ j - 1 \in I
      BY <1>0
    <3>2. PICK c, d, p \in Int : c = S[o] /\ d = S[o + (j - 1)] /\ p = s[o + j]
      BY <1>5, <2>2, <2>4, <3>1, Zenon
    <3>3. S[o + j] = d + p
      BY <2>2, <2>4, <3>1, <3>2
    <3>4. T[j] = f * ((d + p) - c) - j * A /\ T[j - 1] = f * (d - c) - (j - 1) * A
      BY <2>1, <3>1, <3>2, <3>3, Zenon
    <3>5. z[j] = f * p - A
      BY <1>11, <3>1, <3>2, Zenon
    <3>6. f * ((d + p) - c) - j * A = (f * (d - c) - (j - 1) * A) + (f * p - A)
      BY <1>0, <1>6
    <3> QED BY <3>4, <3>5, <3>6, Zenon
  <2>9. T[m] >= 0
    <3>1. PICK c, d, p \in Int : c = S[Len(s) - f] /\ d = S[Len(s)] /\ p = s[o]
      BY <2>2, <2>4, <2>5, Zenon
    <3>2. S[o] = c + p /\ A = d - c /\ f * p <= A
      BY <2>2, <2>3, <2>4, <2>5, <3>1
    <3>3. T[m] = f * (d - (c + p)) - m * A
      <4>1. T[m] = f * (S[o + m] - S[o]) - m * A
        BY <1>0, <2>1, Zenon
      <4> QED BY <2>4, <3>1, <3>2, <4>1, Zenon
    <3>4. f * (d - (c + p)) - m * (d - c) = (d - c) - f * p
      BY <1>0
    <3>5. f * p \in Int
      BY <1>0
    <3> QED BY <3>2, <3>3, <3>4, <3>5
  <2> QED BY <2>6, <2>7, <2>8, <2>9
<1>13. /\ \A j \in I : Q[j] \in Int /\ Q[j] = P[j] * N[j]
       /\ Q[0] = Unit(g, h) /\ \A j \in 1 .. m : Q[j] = (2 * b + u) * Q[j - 1]
  <2>1. \A j \in I : Q[j] = P[j] * N[j]
    OBVIOUS
  <2> HIDE DEF Q, I, h, b, u
  <2>2. \A j \in I : Q[j] \in Int
    <3>1. \A a, c \in Int : a * c \in Int
      OBVIOUS
    <3> QED BY <1>2, <1>3, <2>1, <3>1, Zenon
  <2>3. Q[0] = Unit(g, h)
    <3>1. \A c \in Int : 1 * c = c
      OBVIOUS
    <3> QED BY <1>0, <1>2, <1>3, <1>9, <2>1, <3>1, Zenon
  <2>4. ASSUME NEW j \in 1 .. m PROVE Q[j] = (2 * b + u) * Q[j - 1]
    <3>1. j \in I /\ j - 1 \in I
      BY <1>0
    <3>2. PICK p, n \in Int : p = P[j - 1] /\ n = N[j - 1]
      BY <1>2, <1>3, <3>1, Zenon
    <3>3. Q[j - 1] = p * n /\ Q[j] = ((f + 1) * p) * ((g + 1) * n)
      BY <1>2, <1>3, <2>1, <3>1, <3>2, Zenon
    <3>4. ((f + 1) * p) * ((g + 1) * n) = ((f + 1) * (g + 1)) * (p * n)
      BY <1>0
    <3> QED BY <1>1, <3>3, <3>4, Zenon
  <2> QED BY <2>1, <2>2, <2>3, <2>4
<1>14. /\ \A j \in I : G[j] \in Int /\ G[j] = R[j] * y[j] - Q[j] * A
       /\ \A j \in I : D[j] \in Int /\ D[j] = N[j] * x[j] - R[j] * y[j]
  <2>1. \A j \in I : G[j] = R[j] * y[j] - Q[j] * A /\ D[j] = N[j] * x[j] - R[j] * y[j]
    OBVIOUS
  <2> HIDE DEF G, D, Q, I, A
  <2>2. ASSUME NEW j \in I PROVE G[j] \in Int /\ D[j] \in Int
    <3>1. PICK a, c, d, e, q, w \in Int :
            a = A /\ c = N[j] /\ d = x[j] /\ e = R[j] /\ q = Q[j] /\ w = y[j]
      BY <1>3, <1>4, <1>6, <1>7, <1>8, <1>13, Zenon
    <3>2. e * w - q * a \in Int /\ c * d - e * w \in Int
      OBVIOUS
    <3> QED BY <2>1, <3>1, <3>2, Zenon
  <2> QED BY <2>1, <2>2
<1>15. G[0] <= 0 /\ D[0] >= 0
  <2> HIDE DEF G, D, Q, I, A, h
  <2>1. PICK e, w \in Int : e = Unit(g, h) /\ w = y[0]
    BY <1>0, <1>8, <1>9, Zenon
  <2>2. /\ f * w <= e * A /\ G[0] = f * w - e * A /\ D[0] = e * A - f * w
    <3>1. R[0] = f /\ N[0] = e /\ x[0] = A /\ Q[0] = e /\ f * w <= e * A
      BY <1>3, <1>4, <1>7, <1>8, <1>13, <2>1, Zenon
    <3>2. G[0] = R[0] * y[0] - Q[0] * A /\ D[0] = N[0] * x[0] - R[0] * y[0]
      BY <1>0, <1>14, Zenon
    <3> QED BY <2>1, <3>1, <3>2, Zenon
  <2>3. f * w \in Int /\ e * A \in Int
    BY <1>0, <1>6
  <2> QED BY <2>2, <2>3
<1>16. ASSUME NEW j \in 1 .. m
       PROVE  /\ G[j] = 2 * b * Q[j - 1] * z[j] + u * G[j - 1]
              /\ D[j] = v * D[j - 1] + (u - v) * (Q[j - 1] * z[j] - G[j - 1])
  <2> HIDE DEF G, D, Q, I, A, z, o
  <2>1. j \in I /\ j - 1 \in I
    BY <1>0
  <2>2. PICK p, n, c, e, w, a \in Int :
          p = P[j - 1] /\ n = N[j - 1] /\ c = s[o + j] /\ e = x[j - 1] /\ w = y[j - 1] /\ a = A
    BY <1>2, <1>3, <1>5, <1>6, <1>7, <1>8, <2>1, Zenon
  <2>3. R[j - 1] = f * p /\ N[j] = (g + 1) * n /\ R[j] = (f + 1) * (f * p)
    BY <1>3, <1>4, <2>1, <2>2, Zenon
  <2>4. x[j] = 2 * (f * p) * c + (f - 1) * e /\ y[j] = 2 * n * c + (g - 1) * w
    BY <1>7, <1>8, <2>2, <2>3, Zenon
  <2>5. Q[j - 1] = p * n /\ Q[j] = (2 * b + u) * (p * n) /\ z[j] = f * c - a
    BY <1>11, <1>13, <2>1, <2>2, Zenon
  <2>6. G[j - 1] = (f * p) * w - (p * n) * a /\ D[j - 1] = n * e - (f * p) * w
    BY <1>14, <2>1, <2>2, <2>3, <2>5, Zenon
  <2>7. G[j] = ((f + 1) * (f * p)) * (2 * n * c + (g - 1) * w) - ((2 * b + u) * (p * n)) * a
    BY <1>14, <2>1, <2>2, <2>3, <2>4, <2>5, Zenon
  <2>8. D[j] = ((g + 1) * n) * (2 * (f * p) * c + (f - 1) * e)
               - ((f + 1) * (f * p)) * (2 * n * c + (g - 1) * w)
    BY <1>14, <2>1, <2>3, <2>4, Zenon
  <2>9. ((f + 1) * (f * p)) * (2 * n * c + (g - 1) * w) - ((2 * b + u) * (p * n)) * a
        = 2 * b * (p * n) * (f * c - a) + u * ((f * p) * w - (p * n) * a)
    BY <1>0
  <2>10. ((g + 1) * n) * (2 * (f * p) * c + (f - 1) * e)
         - ((f + 1) * (f * p)) * (2 * n * c + (g - 1) * w)
         = v * (n * e - (f * p) * w) + (u - v) * ((p * n) * (f * c - a) - ((f * p) * w - (p * n) * a))
    BY <1>0
  <2> HIDE DEF b, u, v
  <2>11. G[j] = 2 * b * Q[j - 1] * z[j] + u * G[j - 1]
    BY <2>5, <2>6, <2>7, <2>9, Zenon
  <2>12. D[j] = v * D[j - 1] + (u - v) * (Q[j - 1] * z[j] - G[j - 1])
    BY <2>5, <2>6, <2>8, <2>10, Zenon
  <2> QED BY <2>11, <2>12
<1>17. D[m] = Unit(g, g - 1) * EmaOfLast(s, f) - Unit(f, m) * EmaOfLast(s, g)
  <2>1. R[m] = Unit(f, m)
    BY <1>0, Zenon DEF R
  <2> HIDE DEF D, I, m
  <2> QED BY <1>0, <1>7, <1>8, <1>14, <2>1, ZenonT(60)
<1>18. Together(m, b, u, v, Q, U, V, z, T, G, D)
  <2> HIDE DEF G, D, Q, U, V, z, T, m, b, u, v, h
  <2>1. I = 0 .. m
    OBVIOUS
  <2> HIDE DEF I
  <2>2. Q[0] >= 0 /\ U[0] = Q[0] /\ V[0] = Q[0]
    BY <1>9, <1>10, <1>13, Zenon
  <2> QED BY <1>1, <1>10, <1>11, <1>12, <1>13, <1>14, <1>15, <1>16, <2>1, <2>2, Zenon DEF Together
<1> HIDE DEF G, D, Q, U, V, z, T, b, u, v, I
<1>19. PICK k \in Nat : k = m
  BY <1>0, Zenon
<1>20. Together(k, b, u, v, Q, U, V, z, T, G, D) /\ T[k] >= 0
  BY <1>12, <1>18, <1>19, Zenon
<1>21. D[k] >= 0
  BY <1>20, LeadKept
<1>22. D[m] \in Int /\ D[m] >= 0
  BY <1>0, <1>14, <1>19, <1>21, Zenon
<1> QED BY <1>17, <1>22, Zenon

\* So the exponential averages of a market that has risen do not cross downwards.
LEMMA EmaCrossoverRises ==
  ASSUME NEW s \in Seq(Int), Climbs(s), NEW n \in Nat \ {0}, NEW f \in 1 .. n
  PROVE  EmaCrossover(s, f, n) # -1
<1> DEFINE x == Unit(n, n - 1) * EmaOfLast(s, f) - Unit(f, f - 1) * EmaOfLast(s, n)
<1> SUFFICES ASSUME EmaCrossover(s, f, n) = -1 PROVE FALSE
  OBVIOUS
<1>1. Warm(s, n, Sign(x)) = -1
  BY Zenon DEF EmaCrossover
<1>2. ~(Len(s) < n) /\ Sign(x) = -1
  <2> HIDE DEF x
  <2>1. Warm(s, n, Sign(x)) # 0
    BY <1>1
  <2> QED BY <1>1, <2>1, WarmIs
<1>3. n \in 1 .. Len(s)
  BY <1>2
<1>4. x \in Int /\ x >= 0
  BY <1>3, FastAhead
<1> HIDE DEF x
<1> QED BY <1>2, <1>4, SignIs

-----------------------------------------------------------------------------
(* The side of the market a strategy takes                                 *)

\* No strategy is on the wrong side of a market that has only risen: what follows it gives no
\* bearish signal, what fades it no bullish one.
LEMMA RisingSides ==
  ASSUME SignalAssumption, NEW p, p.lookback \in Int, NEW b, NEW s \in Seq(Int), Rising(s)
  PROVE  /\ p.strategy \in FollowTrend => -1 \notin Signal(p, s, b)
         /\ p.strategy \in FadeTrend => 1 \notin Signal(p, s, b)
<1>1. PICK n \in Nat \ {0} : \E f \in 1 .. n : \A z : Computes(p, b, f, n, z)
  BY WindowsOfPlan
<1>2. PICK f \in 1 .. n : \A z : Computes(p, b, f, n, z)
  BY <1>1
<1>3. Computes(p, b, f, n, s)
  BY <1>2
<1>4. Climbs(s)
  BY RisingClimbs
<1>5. ASSUME p.strategy \in FollowTrend PROVE -1 \notin Signal(p, s, b)
  <2>1. /\ p.strategy \in {"momentum", "funding_oi_filter"} => Signal(p, s, b) = {SimpleMomentum(s, n)}
        /\ p.strategy = "breakout" => Signal(p, s, b) = {Breakout(s, n)}
        /\ p.strategy = "donchian_channel" => Signal(p, s, b) = {Donchian(s, n)}
        /\ p.strategy \in {"ma_crossover", "trend_following"} => Signal(p, s, b) = {MaCrossover(s, f, n)}
        /\ p.strategy = "ema_crossover" => Signal(p, s, b) = {EmaCrossover(s, f, n)}
    BY <1>3, Zenon DEF Computes
  <2>2. /\ SimpleMomentum(s, n) # -1 /\ Breakout(s, n) # -1 /\ Donchian(s, n) # -1
        /\ MaCrossover(s, f, n) # -1 /\ EmaCrossover(s, f, n) # -1
    BY <1>4, MomentumRises, BreakoutRises, RangesRise, CrossoverRises, EmaCrossoverRises
  <2>3. p.strategy \in {"momentum", "breakout", "donchian_channel", "ma_crossover", "ema_crossover",
                        "funding_oi_filter", "trend_following"}
    BY <1>5 DEF FollowTrend
  <2> QED BY <2>1, <2>2, <2>3
<1>6. ASSUME p.strategy \in FadeTrend PROVE 1 \notin Signal(p, s, b)
  <2>1. /\ p.strategy \in {"z_score", "bollinger_reversion", "mean_reversion"} => Signal(p, s, b) = {ZScore(s, n)}
        /\ p.strategy = "rsi_signal" => Signal(p, s, b) = {Rsi(s, n)}
        /\ p.strategy = "range_sr" => Signal(p, s, b) = {RangeSr(s, n)}
    BY <1>3, Zenon DEF Computes
  <2>2. ZScore(s, n) # 1 /\ RangeSr(s, n) # 1 /\ Rsi(s, n) # 1
    BY <1>4, ZScoreRises, RangesRise, RsiKeepsSide
  <2>3. p.strategy \in {"z_score", "bollinger_reversion", "rsi_signal", "range_sr", "mean_reversion"}
    BY <1>6 DEF FadeTrend
  <2> QED BY <2>1, <2>2, <2>3
<1> QED BY <1>5, <1>6

\* Nor of a market that has only fallen: upside down it has risen.
LEMMA FallingSides ==
  ASSUME SignalAssumption, NEW p, p.lookback \in Int, NEW b, NEW s \in Seq(Int), Falling(s)
  PROVE  /\ p.strategy \in FollowTrend => 1 \notin Signal(p, s, b)
         /\ p.strategy \in FadeTrend => -1 \notin Signal(p, s, b)
<1> DEFINE u == Upside(s, 0)
<1>1. u \in Seq(Int) /\ Rising(u)
  BY UpsideIs, FallingRises
<1> HIDE DEF u
<1>2. /\ p.strategy \in FollowTrend => -1 \notin Signal(p, u, b)
      /\ p.strategy \in FadeTrend => 1 \notin Signal(p, u, b)
  BY <1>1, RisingSides
<1>3. ASSUME p.strategy \in Alike PROVE Signal(p, u, b) = {-g : g \in Signal(p, s, b)}
  <2>1. 0 \in Int
    OBVIOUS
  <2> QED BY <1>3, <2>1, SignalFlips DEF u
<1>4. ASSUME p.strategy = "rsi_signal" PROVE -1 \notin Signal(p, s, b)
  <2>1. PICK n \in Nat \ {0} : \E f \in 1 .. n : \A z : Computes(p, b, f, n, z)
    BY WindowsOfPlan
  <2>2. PICK f \in 1 .. n : \A z : Computes(p, b, f, n, z)
    BY <2>1
  <2>3. Signal(p, s, b) = {Rsi(s, n)}
    BY <1>4, <2>2, Zenon DEF Computes
  <2> QED BY <2>3, RsiKeepsSide
<1>5. /\ p.strategy \in FollowTrend => p.strategy \in Alike
      /\ p.strategy \in FadeTrend => p.strategy \in Alike \/ p.strategy = "rsi_signal"
  BY DEF Alike, FollowTrend, FadeTrend
<1>6. p.strategy \notin FollowTrend \/ p.strategy # "rsi_signal"
  BY DEF FollowTrend
<1>7. \A g \in Int : g + 1 = 0 => -g = 1
  OBVIOUS
<1>8. ASSUME p.strategy \in Alike, 1 \in Signal(p, s, b) PROVE -1 \in Signal(p, u, b)
  BY <1>3, <1>8
<1>9. ASSUME p.strategy \in Alike, -1 \in Signal(p, s, b) PROVE 1 \in Signal(p, u, b)
  <2>1. -1 \in Int /\ (-1) + 1 = 0
    OBVIOUS
  <2> QED BY <1>3, <1>7, <1>9, <2>1
<1> QED BY <1>2, <1>4, <1>5, <1>8, <1>9, Zenon

\* What has risen, or fallen, had done so before the last price.
LEMMA DirectionKept ==
  ASSUME NEW S, NEW s \in Seq(S), NEW x \in S
  PROVE  /\ Rising(Append(s, x)) => Rising(s)
         /\ Falling(Append(s, x)) => Falling(s)
<1> DEFINE a == Append(s, x)
<1>1. /\ DOMAIN s = 1 .. Len(s) /\ DOMAIN a = 1 .. Len(s) + 1 /\ Len(s) \in Nat
      /\ \A i \in 1 .. Len(s) : a[i] = s[i]
  OBVIOUS
<1>2. \A i \in 1 .. Len(s) : i \in 1 .. Len(s) + 1 /\ (i > 1 => i - 1 \in 1 .. Len(s))
  BY <1>1
<1> HIDE DEF a
<1>3. ASSUME Rising(a) PROVE Rising(s)
  BY <1>1, <1>2, <1>3 DEF Rising
<1>4. ASSUME Falling(a) PROVE Falling(s)
  BY <1>1, <1>2, <1>4 DEF Falling
<1> QED BY <1>3, <1>4 DEF a

\* A series of prices is one of integers, and without prices there is none.
LEMMA PricesAreNumbers ==
  ASSUME NEW S \in SUBSET Int, NEW s \in Seq(S)
  PROVE  s \in Seq(Int) /\ (s # <<>> => S # {})
<1>1. s \in [1 .. Len(s) -> S] /\ Len(s) \in Nat
  OBVIOUS
<1>2. s \in [1 .. Len(s) -> Int]
  BY <1>1
<1>3. s \in Seq(Int)
  BY <1>1, <1>2
<1>4. ASSUME s # <<>> PROVE S # {}
  <2>1. Len(s) # 0
    BY <1>4
  <2>2. s[1] \in S
    BY <1>1, <2>1
  <2> QED BY <2>2
<1> QED BY <1>3, <1>4

\* The mirror of NoLeaning is an integer, so its mirrored prices are integers too.
LEMMA MirrorIs ==
  ASSUME SignalAssumption, TickPrices # {}
  PROVE  MirrorAt \in Int /\ \A s : Mirrored(s) = Upside(s, MirrorAt)
<1>1. Max(TickPrices) \in Nat /\ Min(TickPrices) \in Nat
  <2>1. TickPrices \in SUBSET Nat /\ IsFiniteSet(TickPrices)
    BY DEF SignalAssumption
  <2> QED BY <2>1, LargestOfSet, SmallestOfSet
<1> QED BY <1>1 DEF MirrorAt, Mirrored, Upside

-----------------------------------------------------------------------------
(* The signals of a run (Signals)                                          *)

SignalInv ==
  /\ plan \in Plan /\ bars \in Seq(TickBars) /\ prices \in Seq(TickPrices) /\ prices # <<>>
  /\ holding \in {"FLAT", "LONG", "SHORT"} /\ raised \in BOOLEAN
  /\ RaisesOnlyShort /\ TrendSideKept

\* A tick after which the prices begin as before keeps the position on the side of the market.
LEMMA TrendKept ==
  ASSUME SignalAssumption, TrendSideKept, plan \in Plan, plan' = plan,
         NEW g \in Signal(plan, prices', bars'), holding' \in {holding, ActsOn(holding, g)},
         prices' \in Seq(TickPrices), Rising(prices') => Rising(prices), Falling(prices') => Falling(prices)
  PROVE  TrendSideKept'
<1>1. prices' \in Seq(Int) /\ plan.lookback \in Int
  <2>1. TickPrices \in SUBSET Int
    BY DEF SignalAssumption
  <2>2. plan.lookback \in Int
    BY DEF SignalAssumption, Plan
  <2> QED BY <2>1, <2>2, PricesAreNumbers
<1>2. /\ Rising(prices') /\ plan.strategy \in FollowTrend => g # -1
      /\ Rising(prices') /\ plan.strategy \in FadeTrend => g # 1
      /\ Falling(prices') /\ plan.strategy \in FollowTrend => g # 1
      /\ Falling(prices') /\ plan.strategy \in FadeTrend => g # -1
  BY <1>1, RisingSides, FallingSides
<1>3. /\ holding # "SHORT" /\ g # -1 => holding' # "SHORT"
      /\ holding # "LONG" /\ g # 1 => holding' # "LONG"
  BY DEF ActsOn
<1> QED BY <1>2, <1>3, Zenon DEF TrendSideKept

\* The invariant at the start.
LEMMA SignalStarts == SignalInit => SignalInv
<1> SUFFICES ASSUME SignalInit PROVE SignalInv
  OBVIOUS
<1>1. plan \in Plan /\ bars = <<>> /\ holding = "FLAT" /\ raised = FALSE
  BY Zenon DEF SignalInit, Plan
<1>2. bars \in Seq(TickBars) /\ RaisesOnlyShort
  BY <1>1 DEF RaisesOnlyShort
<1>3. raised \in BOOLEAN
  BY <1>1, Zenon
<1>4. prices \in Seq(TickPrices) /\ prices # <<>>
  <2>1. PICK p \in TickPrices : prices = <<p>>
    BY Zenon DEF SignalInit
  <2> QED BY <2>1
<1>5. TrendSideKept
  BY <1>1 DEF TrendSideKept
<1> QED BY <1>1, <1>2, <1>3, <1>4, <1>5, Zenon DEF SignalInv

\* The invariant in every step.
LEMMA SignalStep == SignalInv /\ SignalAssumption /\ [SignalNext]_signalVars => SignalInv'
<1> SUFFICES ASSUME SignalInv, SignalAssumption, [SignalNext]_signalVars PROVE SignalInv'
  OBVIOUS
<1>1. \A g : holding \in {"FLAT", "LONG", "SHORT"} => ActsOn(holding, g) \in {"FLAT", "LONG", "SHORT"}
  BY DEF ActsOn
<1>2. ASSUME bars' \in Seq(TickBars), prices' \in Seq(TickPrices), prices' # <<>>, plan' = plan,
             Rising(prices') => Rising(prices), Falling(prices') => Falling(prices),
             \E g \in Signal(plan, prices', bars') :
               IF g = Raises THEN raised' = TRUE /\ UNCHANGED holding
               ELSE raised' = FALSE /\ holding' = ActsOn(holding, g)
      PROVE  SignalInv'
  <2>0. PICK g \in Signal(plan, prices', bars') :
          IF g = Raises THEN raised' = TRUE /\ UNCHANGED holding
          ELSE raised' = FALSE /\ holding' = ActsOn(holding, g)
    BY <1>2
  <2>1. /\ Raises \in Signal(plan, prices', bars') =>
             /\ plan.strategy = "stochastic_signal"
             /\ Len(bars') >= StochasticBars(plan) /\ Len(bars') < 2 * StochasticBars(plan) - 1
    BY <1>2, SignalsAre DEF SignalInv
  <2>2. RaisesOnlyShort'
    BY <1>2, <2>0, <2>1 DEF RaisesOnlyShort, StochasticBars
  <2>3. raised' \in BOOLEAN
    BY <1>2, <2>0, Zenon
  <2>4. holding' \in {"FLAT", "LONG", "SHORT"}
    BY <1>1, <1>2, <2>0 DEF SignalInv
  <2>5. plan' \in Plan
    BY <1>2, Zenon DEF SignalInv
  <2>6. TrendSideKept'
    <3>1. holding' \in {holding, ActsOn(holding, g)} /\ TrendSideKept /\ plan \in Plan
      BY <1>2, <2>0, Zenon DEF SignalInv
    <3> QED BY <1>2, <3>1, TrendKept
  <2> QED BY <1>2, <2>2, <2>3, <2>4, <2>5, <2>6, Zenon DEF SignalInv
<1>3. CASE \E p \in TickPrices : PriceTick(p)
  <2>1. PICK p \in TickPrices : PriceTick(p)
    BY <1>3
  <2>2. prices' = Append(prices, p) /\ prices \in Seq(TickPrices) /\ bars' \in Seq(TickBars) /\ plan' = plan
    BY <2>1, Zenon DEF PriceTick, SignalInv
  <2>3. /\ prices' \in Seq(TickPrices) /\ prices' # <<>>
        /\ Rising(prices') => Rising(prices)
        /\ Falling(prices') => Falling(prices)
    BY <2>2, DirectionKept
  <2>4. \E g \in Signal(plan, prices', bars') :
          IF g = Raises THEN raised' = TRUE /\ UNCHANGED holding
          ELSE raised' = FALSE /\ holding' = ActsOn(holding, g)
    BY <2>1, Zenon DEF PriceTick
  <2> QED BY <1>2, <2>2, <2>3, <2>4, Zenon
<1>4. CASE \E c \in TickBars : BarTick(c)
  <2>1. bars' \in Seq(TickBars) /\ plan' = plan /\ prices' = prices
    BY <1>4 DEF BarTick, SignalInv
  <2>2. prices' \in Seq(TickPrices) /\ prices' # <<>>
    BY <2>1 DEF SignalInv
  <2> QED BY <1>2, <1>4, <2>1, <2>2 DEF BarTick
<1>5. CASE SignalStop \/ UNCHANGED signalVars
  BY <1>5 DEF SignalStop, signalVars, SignalInv, RaisesOnlyShort, TrendSideKept
<1> QED BY <1>3, <1>4, <1>5 DEF SignalNext

\* What a signal may be, from the invariant.
LEMMA InvSound == SignalInv /\ SignalAssumption => SignalsSound
<1> SUFFICES ASSUME SignalInv, SignalAssumption PROVE SignalsSound
  OBVIOUS
<1>1. prices \in Seq(Int) /\ plan.lookback \in Int /\ TickPrices # {}
  <2>1. TickPrices \in SUBSET Int
    BY DEF SignalAssumption
  <2>2. plan.lookback \in Int
    BY DEF SignalInv, SignalAssumption, Plan
  <2> QED BY <2>1, <2>2, PricesAreNumbers DEF SignalInv
<1>2. NoLeaning
  <2>1. MirrorAt \in Int /\ Mirrored(prices) = Upside(prices, MirrorAt)
    BY <1>1, MirrorIs
  <2>2. plan.strategy \in Alike =>
          Signal(plan, Upside(prices, MirrorAt), bars) = {-g : g \in Signal(plan, prices, bars)}
    BY <1>1, <2>1, SignalFlips
  <2> QED BY <2>1, <2>2 DEF NoLeaning, Alike
<1> QED BY <1>2 DEF SignalInv, SignalsSound

\* RaisesOnlyShort: for any plan, prices and candles, a signal raises only for stochastic_signal
\* and only while there are fewer candles than its second window reaches back to.
THEOREM SignalsRaiseOnlyShort == SignalSpec => []RaisesOnlyShort
<1>1. SignalInv /\ [SignalNext]_signalVars => SignalInv'
  BY SignalStep, SignalAssumption
<1>2. SignalInv => RaisesOnlyShort
  BY DEF SignalInv
<1> QED BY <1>1, <1>2, SignalStarts, PTL DEF SignalSpec

\* SignalsSound: for any plan, any prices and candles, a signal raises only where it is known to;
\* in a market that has only risen, or only fallen, a strategy that follows the market never holds a
\* position against it and one that fades it never one with it; and seen upside down the market gets
\* the opposite signals, so no strategy leans to a side.
THEOREM SignalsProved == SignalSpec => []SignalsSound
<1>1. SignalInv /\ [SignalNext]_signalVars => SignalInv'
  BY SignalStep, SignalAssumption
<1>2. SignalInv => SignalsSound
  BY InvSound, SignalAssumption
<1> QED BY <1>1, <1>2, SignalStarts, PTL DEF SignalSpec

-----------------------------------------------------------------------------
(* A backtest (Backtest)                                                   *)

\* Past the bounds of its bars: the position and the money of a run.
BacktestTypes ==
  /\ bpc \in {"idle", "running", "answered"} /\ left \in Nat /\ tests \in 0 .. MaxTests
  /\ position = NoPosition \/
       position \in [side : {"long", "short"}, entry : Int \ {0}, size : Int, stop : Int, target : Int]
  /\ cash \in Int /\ last \in Int /\ final \in Int
  /\ realized \in Int /\ fees \in Int /\ written \in Int
  /\ curve \in Seq(Int) /\ Len(curve) > 0
  /\ left # 0 => \E n \in NoBars : left <= n

\* The curve begins with the initial cash, which a forced close does not write over.
CurveBegins ==
  /\ curve[1] = Cash0
  /\ position # NoPosition => bpc = "running" /\ Len(curve) > 1

\* What the position was bought for and the cash are what the trades so far have left, and
\* what the strategy has written into the size.
MoneyKept == cash + position.size = Cash0 + realized - fees + written

\* The last value of the curve, in the terms of the close that made it.
CurveEnds ==
  bpc # "idle" =>
    curve[Len(curve)] = IF position = NoPosition THEN cash
                        ELSE cash + position.size + Profit(position, last)

BacktestInv == BacktestTypes /\ CurveBegins /\ MoneyKept /\ CurveEnds

LEMMA BacktestNumbers ==
  ASSUME BacktestAssumption
  PROVE  /\ Cash0 \in Nat \ {0} /\ WarmUp \in Nat \ {0} /\ FeeOf \in Nat \ {0} /\ MaxTests \in Nat
         /\ NoBars \subseteq Nat
BY DEF BacktestAssumption

\* What a strategy can open, and what it can leave of it.
Position == [side : {"long", "short"}, entry : Int \ {0}, size : Int, stop : Int, target : Int]

LEMMA MoneyIsWhole ==
  ASSUME BacktestAssumption
  PROVE  /\ \A p \in Position, price \in Int : Profit(p, price) \in Int
         /\ \A size \in Int : Fee(size) \in Int
         /\ \A p \in Position : p # NoPosition
<1>1. ASSUME NEW n \in Int, NEW d \in Nat \ {0} PROVE n \div d \in Int
  OBVIOUS
<1>2. ASSUME NEW p \in Position, NEW price \in Int PROVE Profit(p, price) \in Int
  <2> DEFINE gain == p.size * (IF p.side = "long" THEN price - p.entry ELSE p.entry - price)
  <2>1. p.size \in Int /\ p.entry \in Int \ {0} /\ price - p.entry \in Int /\ p.entry - price \in Int
    BY DEF Position
  <2>2. gain \in Int
    BY <2>1
  <2>3. Profit(p, price) = IF p.entry > 0 THEN gain \div p.entry ELSE (-gain) \div (-p.entry)
    BY DEF Profit
  <2> HIDE DEF gain
  <2>4. p.entry > 0 => p.entry \in Nat \ {0}
    BY <2>1
  <2>5. ~(p.entry > 0) => -p.entry \in Nat \ {0}
    BY <2>1
  <2>6. -gain \in Int
    BY <2>2
  <2> QED BY <1>1, <2>2, <2>3, <2>4, <2>5, <2>6
<1>3. FeeOf \in Nat \ {0}
  BY DEF BacktestAssumption
<1>4. \A size \in Int : Fee(size) \in Int
  BY <1>1, <1>3 DEF Fee
<1>5. \A p \in Position : p # NoPosition
  BY DEF Position, NoPosition
<1> QED BY <1>2, <1>4, <1>5

\* The level that closes a position moves its money, less a fee, to the cash.
LEMMA LevelKeeps ==
  ASSUME BacktestInv, BacktestAssumption, NEW b \in TestBars
  PROVE  LET gain == IF Exit(b) # NoStop THEN Profit(position, Exit(b)) ELSE 0
             fee == IF Exit(b) # NoStop THEN Fee(position.size) ELSE 0
         IN /\ gain \in Int /\ fee \in Int /\ CashThen(b) \in Int
            /\ Kept(b) = NoPosition \/ Kept(b) \in Position
            /\ CashThen(b) + Kept(b).size = Cash0 + (realized + gain) - (fees + fee) + written
<1>1. /\ position = NoPosition \/ position \in Position
      /\ cash \in Int /\ realized \in Int /\ fees \in Int /\ written \in Int
  BY DEF BacktestInv, BacktestTypes, Position
<1>2. cash + position.size = Cash0 + realized - fees + written /\ Cash0 \in Int
  BY BacktestNumbers DEF BacktestInv, MoneyKept
<1>3. CASE Exit(b) # NoStop
  <2>1. position \in Position /\ Exit(b) = LevelHit(position, b)
    BY <1>1, <1>3 DEF Exit
  <2>2. position.stop \in Int /\ position.target \in Int /\ position.size \in Int
    BY <2>1 DEF Position
  <2>3. Exit(b) = position.stop \/ Exit(b) = position.target
    BY <1>3, <2>1, Zenon DEF LevelHit
  <2>4. Profit(position, Exit(b)) \in Int /\ Fee(position.size) \in Int
    BY <2>1, <2>2, <2>3, MoneyIsWhole
  <2>5. Kept(b) = NoPosition /\ Kept(b).size = 0
        /\ CashThen(b) = cash + position.size + Profit(position, Exit(b)) - Fee(position.size)
    BY <1>3 DEF Kept, CashThen, ClosedAt, NoPosition
  <2> QED BY <1>1, <1>2, <1>3, <2>2, <2>4, <2>5
<1>4. CASE Exit(b) = NoStop
  <2>1. Kept(b) = position /\ CashThen(b) = cash
    BY <1>4 DEF Kept, CashThen
  <2>2. position.size \in Int
    BY <1>1 DEF Position, NoPosition
  <2> QED BY <1>1, <1>2, <1>4, <2>1, <2>2
<1> QED BY <1>3, <1>4

\* A strategy cannot make a position, nor take it away, by writing to it.
LEMMA LeavesIs ==
  ASSUME BacktestAssumption, NEW k, k = NoPosition \/ k \in Position, NEW p \in Leaves(k)
  PROVE  (p = NoPosition /\ k = NoPosition) \/ p \in Position
<1>1. CASE k = NoPosition
  BY <1>1 DEF Leaves
<1>2. CASE k \in Position
  <2>1. k # NoPosition
    BY <1>2, MoneyIsWhole
  <2>2. /\ k.entry \in Int \ {0} /\ k.size \in Int /\ k.stop \in Int /\ k.target \in Int
        /\ Prices \subseteq Int \ {0} /\ Sizes \subseteq Int /\ Stops \subseteq Int
    BY <1>2 DEF Position, BacktestAssumption
  <2>3. p \in [side : {"long", "short"}, entry : {k.entry} \cup Prices, size : {k.size} \cup Sizes,
               stop : {k.stop} \cup Stops, target : {k.target} \cup Stops]
    BY <2>1 DEF Leaves
  <2> QED BY <2>2, <2>3 DEF Position
<1> QED BY <1>1, <1>2

\* A bar takes the position and the cash as the levels and the strategy's writing have left them
\* and opens a position, closes the one there is, or goes by.
BarMoves(p, price, c, r, f) ==
  \/ /\ p = NoPosition /\ position' \in Position /\ realized' = r
     /\ cash' = c - position'.size - Fee(position'.size)
     /\ fees' = f + Fee(position'.size)
  \/ /\ p \in Position /\ position' = NoPosition
     /\ realized' = r + Profit(p, price)
     /\ cash' = c + p.size + Profit(p, price) - Fee(p.size)
     /\ fees' = f + Fee(p.size)
  \/ position' = p /\ cash' = c /\ realized' = r /\ fees' = f

LEMMA BarIs ==
  ASSUME BacktestInv, BacktestAssumption, NEW b \in TestBars, NEW answer \in Answers,
         NEW p \in Leaves(Kept(b)), NEW close, Bar(b, answer, p, close)
  PROVE  /\ p = NoPosition \/ p \in Position
         /\ written' \in Int
         /\ \E c, r, f \in Int : /\ c + p.size = Cash0 + r - f + written'
                                 /\ BarMoves(p, b.close, c, r, f)
<1> DEFINE t == Ticked(answer)
           side == IF t.action = "OPEN_LONG" THEN "long" ELSE "short"
           new == OpenedAt(side, b.close, t, CashThen(b))
           gain == IF Exit(b) # NoStop THEN Profit(position, Exit(b)) ELSE 0
           fee == IF Exit(b) # NoStop THEN Fee(position.size) ELSE 0
           opens == t.action \in {"OPEN_LONG", "OPEN_SHORT"} /\ CanOpen(p, CashThen(b))
           closes == t.action = "CLOSE" /\ p # NoPosition
<1>1. /\ gain \in Int /\ fee \in Int /\ CashThen(b) \in Int
      /\ Kept(b) = NoPosition \/ Kept(b) \in Position
      /\ CashThen(b) + Kept(b).size = Cash0 + (realized + gain) - (fees + fee) + written
  BY LevelKeeps
<1>2. (p = NoPosition /\ Kept(b) = NoPosition) \/ p \in Position
  BY <1>1, LeavesIs
<1>3. /\ position' = IF opens THEN new.pos ELSE IF closes THEN NoPosition ELSE p
      /\ cash' = IF opens THEN new.cash
                 ELSE IF closes THEN ClosedAt(p, b.close, CashThen(b)) ELSE CashThen(b)
      /\ realized' = realized + gain + (IF closes THEN Profit(p, b.close) ELSE 0)
      /\ fees' = fees + fee + (IF closes THEN Fee(p.size) ELSE 0)
                            + (IF opens THEN Fee(new.pos.size) ELSE 0)
      /\ written' = written + (p.size - Kept(b).size)
  BY DEF Bar
<1>4. PICK c, r, f \in Int : c = CashThen(b) /\ r = realized + gain /\ f = fees + fee
  <2>1. realized \in Int /\ fees \in Int
    BY DEF BacktestInv, BacktestTypes
  <2> HIDE DEF gain, fee
  <2>2. realized + gain \in Int /\ fees + fee \in Int /\ CashThen(b) \in Int
    BY <1>1, <2>1
  <2> QED BY <2>2
<1>5. p.size \in Int /\ Kept(b).size \in Int /\ written \in Int /\ Cash0 \in Int
  <2>1. \A q \in Position : q.size \in Int
    BY DEF Position
  <2>2. NoPosition.size \in Int
    BY DEF NoPosition
  <2>3. p.size \in Int /\ Kept(b).size \in Int
    BY <1>1, <1>2, <2>1, <2>2
  <2>4. written \in Int
    BY DEF BacktestInv, BacktestTypes
  <2> QED BY <2>3, <2>4, BacktestNumbers
<1>6. written' \in Int /\ c + p.size = Cash0 + r - f + written'
  <2>1. c + Kept(b).size = Cash0 + r - f + written
    BY <1>1, <1>4
  <2> QED BY <1>3, <1>4, <1>5, <2>1
<1> HIDE DEF gain, fee
<1>7. CASE opens
  <2>1. p = NoPosition /\ ~closes
    BY <1>7 DEF CanOpen
  <2>2. new.pos \in Position /\ new.pos.size \in Int
    <3>1. CashThen(b) \in Int /\ b.close \in Int \ {0} /\ t.stop \in Int /\ NoStop \in Int
      BY <1>1 DEF BacktestAssumption, Ticked
    <3>2. CashThen(b) \div 2 \in Int
      BY <3>1
    <3> QED BY <3>1, <3>2 DEF OpenedAt, Position
  <2>3. new.cash = CashThen(b) - new.pos.size - Fee(new.pos.size)
    BY DEF OpenedAt
  <2>4. Fee(new.pos.size) \in Int
    BY <2>2, MoneyIsWhole
  <2> HIDE DEF new, t
  <2>5. position' = new.pos /\ cash' = new.cash /\ realized' = r + 0
        /\ fees' = f + 0 + Fee(new.pos.size)
    BY <1>3, <1>4, <1>7, <2>1
  <2>6. realized' = r /\ fees' = f + Fee(position'.size) /\ position' \in Position
        /\ cash' = c - position'.size - Fee(position'.size)
    BY <1>4, <2>2, <2>3, <2>4, <2>5
  <2>7. BarMoves(p, b.close, c, r, f)
    BY <2>1, <2>6 DEF BarMoves
  <2> QED BY <1>2, <1>4, <1>6, <2>7
<1>8. CASE closes
  <2>1. p \in Position /\ ~opens
    BY <1>2, <1>8 DEF CanOpen
  <2>2. p.size \in Int /\ b.close \in Int
    BY <2>1 DEF Position, BacktestAssumption
  <2>3. Profit(p, b.close) \in Int /\ Fee(p.size) \in Int
    BY <2>1, <2>2, MoneyIsWhole
  <2>4. position' = NoPosition /\ cash' = ClosedAt(p, b.close, CashThen(b))
        /\ realized' = r + Profit(p, b.close) /\ fees' = f + Fee(p.size) + 0
    BY <1>3, <1>4, <1>8, <2>1
  <2>5. cash' = c + p.size + Profit(p, b.close) - Fee(p.size) /\ fees' = f + Fee(p.size)
    BY <1>4, <2>3, <2>4 DEF ClosedAt
  <2>6. BarMoves(p, b.close, c, r, f)
    BY <2>1, <2>4, <2>5 DEF BarMoves
  <2> QED BY <1>2, <1>4, <1>6, <2>6
<1>9. CASE ~opens /\ ~closes
  <2>1. position' = p /\ cash' = c /\ realized' = r + 0 /\ fees' = f + 0 + 0
    BY <1>3, <1>4, <1>9
  <2>2. BarMoves(p, b.close, c, r, f)
    BY <1>4, <2>1 DEF BarMoves
  <2> QED BY <1>2, <1>4, <1>6, <2>2
<1> QED BY <1>7, <1>8, <1>9

\* A value put behind a curve, or in the place of its last one, leaves the others.
LEMMA CurveGrows ==
  ASSUME NEW s \in Seq(Int), Len(s) > 0, NEW x \in Int
  PROVE  /\ Append(s, x) \in Seq(Int) /\ Len(Append(s, x)) = Len(s) + 1
         /\ Append(s, x)[1] = s[1] /\ Append(s, x)[Len(s) + 1] = x
         /\ [s EXCEPT ![Len(s)] = x] \in Seq(Int) /\ Len([s EXCEPT ![Len(s)] = x]) = Len(s)
         /\ [s EXCEPT ![Len(s)] = x][Len(s)] = x
         /\ Len(s) > 1 => [s EXCEPT ![Len(s)] = x][1] = s[1]
OBVIOUS

LEMMA BarKeeps ==
  ASSUME BacktestInv, BacktestAssumption, NEW b \in TestBars, NEW answer \in Answers,
         NEW p \in Leaves(Kept(b)), NEW close \in {b.close} \cup Prices, Bar(b, answer, p, close)
  PROVE  BacktestInv'
<1> DEFINE value == MtM(position', cash', b.close)
<1>1. /\ bpc = "running" /\ left > WarmUp /\ left' = left - 1 /\ last' = b.close /\ final' = close
      /\ curve' = Append(curve, value) /\ UNCHANGED <<bpc, tests>>
  BY DEF Bar
<1>2. last' \in Int /\ b.close \in Int /\ final' \in Int /\ Cash0 \in Int
  <2>1. b.close \in Int
    BY DEF BacktestAssumption
  <2>2. Prices \subseteq Int
    BY DEF BacktestAssumption
  <2>3. close \in Int
    BY <2>1, <2>2
  <2> QED BY <1>1, <2>1, <2>3, BacktestNumbers
<1>3. /\ position' = NoPosition \/ position' \in Position
      /\ cash' \in Int /\ realized' \in Int /\ fees' \in Int /\ written' \in Int
      /\ MoneyKept'
  <2>1. written' \in Int /\ (p = NoPosition \/ p \in Position)
    BY BarIs
  <2>2. PICK c, r, f \in Int : c + p.size = Cash0 + r - f + written' /\ BarMoves(p, b.close, c, r, f)
    BY BarIs, Zenon
  <2>3. CASE /\ p = NoPosition /\ position' \in Position /\ realized' = r
             /\ cash' = c - position'.size - Fee(position'.size)
             /\ fees' = f + Fee(position'.size)
    <3>1. position'.size \in Int
      BY <2>3 DEF Position
    <3>2. Fee(position'.size) \in Int
      BY <3>1, MoneyIsWhole
    <3>3. p.size = 0
      BY <2>3 DEF NoPosition
    <3> QED BY <1>2, <2>1, <2>2, <2>3, <3>1, <3>2, <3>3 DEF MoneyKept
  <2>4. CASE /\ p \in Position /\ position' = NoPosition
             /\ realized' = r + Profit(p, b.close)
             /\ cash' = c + p.size + Profit(p, b.close) - Fee(p.size)
             /\ fees' = f + Fee(p.size)
    <3>1. Fee(p.size) \in Int /\ Profit(p, b.close) \in Int /\ p.size \in Int
      BY <1>2, <2>4, MoneyIsWhole DEF Position
    <3>2. position'.size = 0
      BY <2>4 DEF NoPosition
    <3>3. cash' + position'.size = Cash0 + realized' - fees' + written'
      BY <1>2, <2>1, <2>2, <2>4, <3>1, <3>2
    <3>4. cash' \in Int /\ realized' \in Int /\ fees' \in Int
      BY <2>2, <2>4, <3>1
    <3> QED BY <2>1, <2>4, <3>3, <3>4 DEF MoneyKept
  <2>5. CASE position' = p /\ cash' = c /\ realized' = r /\ fees' = f
    BY <2>1, <2>2, <2>5 DEF MoneyKept
  <2> QED BY <2>2, <2>3, <2>4, <2>5 DEF BarMoves
<1>4. value = IF position' = NoPosition THEN cash' ELSE cash' + position'.size + Profit(position', b.close)
  BY DEF MtM
<1>5. value \in Int
  <2>1. CASE position' = NoPosition
    BY <1>3, <1>4, <2>1
  <2>2. CASE position' \in Position
    <3>1. Profit(position', b.close) \in Int /\ position'.size \in Int /\ position' # NoPosition
      BY <1>2, <2>2, MoneyIsWhole DEF Position
    <3> QED BY <1>3, <1>4, <3>1
  <2> QED BY <1>3, <2>1, <2>2
<1> HIDE DEF value
<1>6. curve \in Seq(Int) /\ Len(curve) > 0 /\ curve[1] = Cash0
  BY DEF BacktestInv, BacktestTypes, CurveBegins
<1>7. /\ curve' \in Seq(Int) /\ Len(curve') = Len(curve) + 1 /\ curve'[1] = Cash0
      /\ curve'[Len(curve')] = value
  BY <1>1, <1>5, <1>6, CurveGrows
<1>8. BacktestTypes'
  <2>1. left' \in Nat /\ (left' # 0 => \E n \in NoBars : left' <= n)
    <3>1. left \in Nat /\ left # 0
      <4>1. left \in Nat
        BY Zenon DEF BacktestInv, BacktestTypes
      <4>2. left > WarmUp
        BY <1>1, Zenon
      <4> QED BY <4>1, <4>2, BacktestNumbers
    <3>2. PICK n \in NoBars : left <= n
      BY <3>1 DEF BacktestInv, BacktestTypes
    <3>3. left' = left - 1 /\ n \in Nat
      BY <1>1, BacktestNumbers, Zenon
    <3>4. left' \in Nat /\ left' <= n
      BY <3>1, <3>2, <3>3
    <3> QED BY <3>4
  <2>2. bpc' \in {"idle", "running", "answered"} /\ tests' \in 0 .. MaxTests
    BY <1>1 DEF BacktestInv, BacktestTypes
  <2> QED BY <1>1, <1>2, <1>3, <1>6, <1>7, <2>1, <2>2 DEF BacktestTypes, Position
<1>9. CurveBegins'
  BY <1>1, <1>6, <1>7 DEF CurveBegins
<1>10. CurveEnds'
  BY <1>1, <1>4, <1>7 DEF CurveEnds
<1> QED BY <1>3, <1>8, <1>9, <1>10 DEF BacktestInv

\* The close that ends a run takes the place of the last value of the curve.
LEMMA AnsweredKeeps ==
  ASSUME BacktestInv, BacktestAssumption, Answered
  PROVE  BacktestInv'
<1>1. bpc = "running" /\ bpc' = "answered" /\ left' = 0 /\ UNCHANGED tests
  BY DEF Answered
<1>2. CASE position = NoPosition
  <2>1. UNCHANGED moneyVars
    BY <1>2 DEF Answered, ForceClose
  <2> QED BY <1>1, <1>2, <2>1 DEF BacktestInv, BacktestTypes, CurveBegins, MoneyKept, CurveEnds, moneyVars,
        Profit, NoPosition
<1>3. CASE position # NoPosition
  <2>1. /\ cash' = ClosedAt(position, final, cash) /\ curve' = [curve EXCEPT ![Len(curve)] = cash']
        /\ realized' = realized + Profit(position, final) /\ fees' = fees + Fee(position.size)
        /\ position' = NoPosition /\ UNCHANGED <<last, final, written>>
    BY <1>3 DEF Answered, ForceClose
  <2>2. position \in Position /\ position.size \in Int /\ cash \in Int /\ final \in Int
        /\ realized \in Int /\ fees \in Int /\ written \in Int /\ Cash0 \in Int
    BY <1>3 DEF BacktestInv, BacktestTypes, Position, BacktestAssumption
  <2>3. Profit(position, final) \in Int /\ Fee(position.size) \in Int
    BY <2>2, MoneyIsWhole
  <2>4. cash' \in Int /\ realized' \in Int /\ fees' \in Int /\ position'.size = 0
    <3>1. cash' = cash + position.size + Profit(position, final) - Fee(position.size)
      BY <2>1 DEF ClosedAt
    <3>2. position'.size = 0
      BY <2>1 DEF NoPosition
    <3>3. realized' = realized + Profit(position, final) /\ fees' = fees + Fee(position.size)
      BY <2>1
    <3> QED BY <2>2, <2>3, <3>1, <3>2, <3>3
  <2>5. curve \in Seq(Int) /\ Len(curve) > 1 /\ curve[1] = Cash0
    BY <1>3 DEF BacktestInv, BacktestTypes, CurveBegins
  <2>6. curve' \in Seq(Int) /\ Len(curve') = Len(curve) /\ curve'[Len(curve')] = cash' /\ curve'[1] = Cash0
    BY <2>1, <2>4, <2>5, CurveGrows
  <2>7. BacktestTypes'
    BY <1>1, <2>1, <2>2, <2>4, <2>5, <2>6 DEF BacktestInv, BacktestTypes
  <2>8. MoneyKept'
    <3>1. cash + position.size = Cash0 + realized - fees + written
      BY DEF BacktestInv, MoneyKept
    <3>2. cash' = cash + position.size + Profit(position, final) - Fee(position.size)
      BY <2>1 DEF ClosedAt
    <3>3. realized' = realized + Profit(position, final) /\ fees' = fees + Fee(position.size)
      BY <2>1
    <3>4. cash' + position'.size = Cash0 + realized' - fees' + written'
      <4>1. written' = written /\ position'.size = 0
        BY <2>1, <2>4
      <4>2. cash \in Int /\ position.size \in Int /\ realized \in Int /\ fees \in Int
            /\ written \in Int /\ Cash0 \in Int
        BY <2>2
      <4> QED BY <2>3, <3>1, <3>2, <3>3, <4>1, <4>2
    <3> QED BY <3>4 DEF MoneyKept
  <2>9. CurveBegins' /\ CurveEnds'
    BY <2>1, <2>6 DEF CurveBegins, CurveEnds
  <2> QED BY <2>7, <2>8, <2>9 DEF BacktestInv
<1> QED BY <1>2, <1>3

LEMMA BacktestStarts == BacktestInit /\ BacktestAssumption => BacktestInv
<1> SUFFICES ASSUME BacktestInit, BacktestAssumption PROVE BacktestInv
  OBVIOUS
<1>1. /\ bpc = "idle" /\ left = 0 /\ position = NoPosition /\ cash = Cash0 /\ curve = <<Cash0>>
      /\ last = 0 /\ final = 0 /\ realized = 0 /\ fees = 0 /\ written = 0 /\ tests = 0
  BY DEF BacktestInit
<1>2. curve \in Seq(Int) /\ Len(curve) = 1 /\ curve[1] = Cash0
  BY <1>1, BacktestNumbers
<1>3. BacktestTypes
  BY <1>1, <1>2, BacktestNumbers DEF BacktestTypes
<1>4. CurveBegins /\ MoneyKept /\ CurveEnds
  BY <1>1, <1>2, BacktestNumbers DEF CurveBegins, MoneyKept, CurveEnds, NoPosition
<1> QED BY <1>3, <1>4 DEF BacktestInv

LEMMA BacktestStep == BacktestInv /\ BacktestAssumption /\ [BacktestNext]_backtestVars => BacktestInv'
<1> SUFFICES ASSUME BacktestInv, BacktestAssumption, [BacktestNext]_backtestVars PROVE BacktestInv'
  OBVIOUS
<1>1. CASE Refused
  <2>1. UNCHANGED <<bpc, left, moneyVars>> /\ tests < MaxTests /\ tests' = tests + 1
    BY <1>1 DEF Refused
  <2>2. tests' \in 0 .. MaxTests
    BY <2>1, BacktestNumbers DEF BacktestInv, BacktestTypes
  <2> QED BY <2>1, <2>2 DEF BacktestInv, BacktestTypes, CurveBegins, MoneyKept, CurveEnds, moneyVars,
        NoPosition, Profit
<1>2. CASE Submitted \/ Raised \/ Forgotten
  <2>1. /\ position' = NoPosition /\ cash' = Cash0 /\ curve' = <<Cash0>>
        /\ last' = 0 /\ final' = 0 /\ realized' = 0 /\ fees' = 0 /\ written' = 0
    BY <1>2 DEF Submitted, Raised, Forgotten
  <2>2. /\ cash' \in Int /\ last' \in Int /\ final' \in Int
        /\ realized' \in Int /\ fees' \in Int /\ written' \in Int
        /\ curve' \in Seq(Int) /\ Len(curve') = 1 /\ CurveBegins' /\ MoneyKept' /\ CurveEnds'
    BY <2>1, BacktestNumbers DEF CurveBegins, MoneyKept, CurveEnds, NoPosition
  <2>3. bpc' \in {"idle", "running"} /\ tests' \in 0 .. MaxTests
    BY <1>2, BacktestNumbers DEF Submitted, Raised, Forgotten, BacktestInv, BacktestTypes
  <2>4. left' \in Nat /\ (left' # 0 => \E n \in NoBars : left' <= n)
    <3>1. CASE Submitted
      BY <3>1, BacktestNumbers DEF Submitted
    <3>2. CASE Raised \/ Forgotten
      BY <3>2 DEF Raised, Forgotten, BacktestInv, BacktestTypes
    <3> QED BY <1>2, <3>1, <3>2
  <2> QED BY <2>1, <2>2, <2>3, <2>4 DEF BacktestInv, BacktestTypes
<1>3. CASE \E b \in TestBars, answer \in Answers :
             \E p \in Leaves(Kept(b)), close \in {b.close} \cup Prices : Bar(b, answer, p, close)
  <2>1. PICK b \in TestBars, answer \in Answers :
               \E p \in Leaves(Kept(b)), close \in {b.close} \cup Prices : Bar(b, answer, p, close)
    BY <1>3, Zenon
  <2>2. PICK p \in Leaves(Kept(b)), close \in {b.close} \cup Prices : Bar(b, answer, p, close)
    BY <2>1, Zenon
  <2> QED BY <2>2, BarKeeps, Zenon
<1>4. CASE Answered
  BY <1>4, AnsweredKeeps
<1>5. CASE UNCHANGED backtestVars
  BY <1>5 DEF backtestVars, BacktestInv, BacktestTypes, CurveBegins, MoneyKept, CurveEnds,
     NoPosition, Profit
<1> QED BY <1>1, <1>2, <1>3, <1>4, <1>5 DEF BacktestNext

\* The inductive invariant of a backtest: the money is accounted for bar by bar and the curve
\* follows it.
THEOREM BacktestInvariant == BacktestSpec => []BacktestInv
<1>1. BacktestInit => BacktestInv
  BY BacktestStarts, BacktestAssumption
<1>2. BacktestInv /\ [BacktestNext]_backtestVars => BacktestInv'
  BY BacktestStep, BacktestAssumption
<1> QED BY <1>1, <1>2, PTL DEF BacktestSpec

\* The peak of a curve is one of its values so far, and no other is above it.
LEMMA PeakIs ==
  ASSUME NEW s \in Seq(Int), NEW i \in 1 .. Len(s)
  PROVE  Peak(s)[i] \in Int /\ \A j \in 1 .. i : s[j] <= Peak(s)[i]
<1> DEFINE S == {s[j] : j \in 1 .. i}
<1>1. PICK m \in 1 .. i : \A j \in 1 .. i : s[j] <= s[m]
  <2>1. i \in Nat \ {0} /\ \A j \in 1 .. i : s[j] \in Int
    OBVIOUS
  <2> QED BY <2>1, LargestOfSeries
<1>2. s[m] \in S /\ \A y \in S : s[m] >= y
  BY <1>1
<1>3. Max(S) \in S /\ \A y \in S : Max(S) >= y
  BY <1>2, Zenon DEF Max
<1>4. Peak(s)[i] = Max(S)
  BY DEF Peak
<1>5. S \subseteq Int
  OBVIOUS
<1> QED BY <1>3, <1>4, <1>5

\* FiguresAddUp: whatever the strategy answers and the bars are, the curve of a run ends at the
\* money its trades and fees have left, and a loss of a part of the capital is in the drawdown.
THEOREM FiguresProved == BacktestSpec => []FiguresAddUp
<1>1. BacktestInv => MoneyAddsUp
  <2> SUFFICES ASSUME BacktestInv PROVE MoneyAddsUp
    OBVIOUS
  <2>1. cash + position.size = Cash0 + realized - fees + written
    BY DEF BacktestInv, MoneyKept
  <2>2. cash \in Int /\ realized \in Int /\ fees \in Int /\ written \in Int /\ last \in Int
        /\ Cash0 \in Int
    BY BacktestNumbers, BacktestAssumption DEF BacktestInv, BacktestTypes
  <2>3. CASE position = NoPosition
    <3>1. MtM(position, cash, last) = cash /\ position.size = 0
      BY <2>3 DEF MtM, NoPosition
    <3> QED BY <2>1, <2>2, <2>3, <3>1 DEF MoneyAddsUp, BacktestInv, CurveEnds
  <2>4. CASE position # NoPosition
    <3>1. MtM(position, cash, last) = cash + position.size + Profit(position, last)
      BY <2>4 DEF MtM
    <3>2. position \in Position
      BY <2>4 DEF BacktestInv, BacktestTypes, Position
    <3>3. position.size \in Int /\ Profit(position, last) \in Int
      BY <2>2, <3>2, MoneyIsWhole, BacktestAssumption DEF Position
    <3> QED BY <2>1, <2>2, <2>4, <3>1, <3>3 DEF MoneyAddsUp, BacktestInv, CurveEnds
  <2> QED BY <2>3, <2>4
<1>2. BacktestInv => LossIsInDrawdown
  <2> SUFFICES ASSUME BacktestInv, bpc = "answered", 0 <= cash, cash < Cash0
               PROVE  FallsBy(curve, Cash0 - cash, Cash0)
    BY DEF LossIsInDrawdown
  <2> DEFINE n == Len(curve)
             top == Peak(curve)[n]
  <2>1. cash \in Int /\ Cash0 \in Int
    BY BacktestNumbers, BacktestAssumption DEF BacktestInv, BacktestTypes
  <2>2. curve \in Seq(Int) /\ n \in 1 .. Len(curve) /\ 1 \in 1 .. n
    BY DEF BacktestInv, BacktestTypes
  <2>3. curve[n] = cash /\ curve[1] = Cash0
    BY DEF BacktestInv, CurveEnds, CurveBegins
  <2>4. top \in Int /\ Cash0 <= top
    BY <2>2, <2>3, PeakIs
  <2>5. (top - cash) * Cash0 >= (Cash0 - cash) * top
    <3> HIDE DEF top
    <3>1. 0 <= cash * (top - Cash0)
      BY <2>1, <2>4
    <3>2. (top - cash) * Cash0 - (Cash0 - cash) * top = cash * (top - Cash0)
      BY <2>1, <2>4
    <3>3. (top - cash) * Cash0 \in Int /\ (Cash0 - cash) * top \in Int
      BY <2>1, <2>4
    <3> QED BY <3>1, <3>2, <3>3
  <2>6. n \in DOMAIN curve
    BY <2>2
  <2> HIDE DEF n
  <2> QED BY <2>3, <2>5, <2>6 DEF FallsBy
<1> QED BY <1>1, <1>2, BacktestInvariant, PTL DEF FiguresAddUp

-----------------------------------------------------------------------------
(* The types of all parts (MCServices)                                     *)

LEMMA BacktestTyped == BacktestInv /\ BacktestAssumption => BacktestTypeOK
<1> SUFFICES ASSUME BacktestInv, BacktestAssumption PROVE BacktestTypeOK
  OBVIOUS
<1>1. left \in NoBars \cup 0 .. Max(NoBars)
  <2>1. left \in Nat /\ NoBars \in SUBSET Nat /\ IsFiniteSet(NoBars) /\ NoBars # {}
    BY BacktestNumbers DEF BacktestInv, BacktestTypes, BacktestAssumption
  <2>2. CASE left = 0
    BY <2>1, <2>2, LargestOfSet
  <2>3. CASE left # 0
    <3>1. PICK n \in NoBars : left <= n
      BY <2>3 DEF BacktestInv, BacktestTypes
    <3>2. Max(NoBars) \in Nat /\ n <= Max(NoBars)
      BY <2>1, <3>1, LargestOfSet
    <3> QED BY <2>1, <3>1, <3>2
  <2> QED BY <2>2, <2>3
<1>2. position.side \in {"none", "long", "short"} /\ position.entry # 0
  <2>1. CASE position = NoPosition
    BY <2>1 DEF NoPosition
  <2>2. CASE position \in Position
    BY <2>2 DEF Position
  <2> QED BY <2>1, <2>2 DEF BacktestInv, BacktestTypes, Position
<1> QED BY <1>1, <1>2 DEF BacktestInv, BacktestTypes, CurveBegins, BacktestTypeOK

LEMMA AnalysisTyped == AnalysisInv => AnalysisTypeOK
BY SuggestedByName DEF AnalysisInv, AnalysisTypeOK, SummarySound

LEMMA SignalTyped == SignalInv /\ SignalAssumption => SignalTypeOK
<1> SUFFICES ASSUME SignalInv, SignalAssumption PROVE SignalTypeOK
  OBVIOUS
<1>1. plan.strategy \in Strategies /\ plan.lookback \in Lookbacks
  BY DEF SignalInv, Plan
<1>2. Signal(plan, prices, bars) \subseteq Outcomes
  BY SignalsAre DEF SignalInv
<1> QED BY <1>1, <1>2, Zenon DEF SignalInv, SignalTypeOK

\* ServicesTypesOK: each part of a run keeps its types, a line of a log is at one place, and a
\* directional index is a percentage; the parts share no state, so a behaviour of all is one of each.
THEOREM ServicesTypesProved == Spec => []ServicesTypesOK
<1>1. Init => /\ DecisionInit /\ SignerInit /\ IndexerInit /\ LogInit /\ ProxyInit
              /\ AnalysisInit /\ SignalInit /\ SessionInit /\ BacktestInit
  BY DEF Init
<1>2. [Next]_vars => /\ [DecisionNext]_decisionVars /\ [SignerNext]_signerVars
                     /\ [IndexerNext]_indexerVars /\ [LogNext]_logVars /\ [ProxyNext]_proxyVars
                     /\ [AnalysisNext]_analysisVars /\ [SignalNext]_signalVars
                     /\ [SessionNext]_sessionVars /\ [BacktestNext]_backtestVars
  BY DEF Next, vars
<1>3. /\ DecisionInv => DecisionTypeOK
      /\ IndexerInv => IndexerTypeOK
      /\ LogInv => LogTypeOK
      /\ ProxyInv => ProxyTypeOK
      /\ SessionInv => SessionTypeOK
  BY DEF DecisionInv, IndexerInv, LogInv, ProxyInv, SessionInv
<1>4. /\ AnalysisInv => AnalysisTypeOK
      /\ SignalInv => SignalTypeOK
      /\ BacktestInv => BacktestTypeOK
  BY AnalysisTyped, SignalTyped, SignalAssumption, BacktestTyped, BacktestAssumption
<1>5. SignalInv /\ [SignalNext]_signalVars => SignalInv'
  BY SignalStep, SignalAssumption
<1>6. /\ DecisionTypeOK /\ SignerTypeOK /\ IndexerTypeOK /\ LogTypeOK /\ ProxyTypeOK
      /\ AnalysisTypeOK /\ SignalTypeOK /\ SessionTypeOK /\ BacktestTypeOK
      => ServicesTypesOK
  BY DEF ServicesTypesOK
<1> QED
  BY <1>1, <1>2, <1>3, <1>4, <1>5, <1>6, DecisionInvariant, SignerTypeCorrect, IndexerInvariant,
     LogInvariant, ProxyInvariant, AnalysisInvariant, SignalStarts, SessionInvariant,
     BacktestInvariant, PTL
     DEF Spec, DecisionSpec, SignerSpec, IndexerSpec, LogSpec, ProxySpec, AnalysisSpec, SessionSpec,
         BacktestSpec
=============================================================================

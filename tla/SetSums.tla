------------------------------ MODULE SetSums ------------------------------
(***************************************************************************)
(* Facts about finite sets that the proofs of the components share: the    *)
(* least element of a set of natural numbers, a minimal member of a family *)
(* of finite sets, and sums over a finite set.  Induction is done by       *)
(* looking at a least counterexample.                                      *)
(***************************************************************************)
EXTENDS Integers, FiniteSets, FiniteSetsExt, FiniteSetTheorems, WellFoundedInduction, TLAPS

\* The sum of the values of the function g over the set S.
Sum(g, S) == MapThenSumSet(LAMBDA s : g[s], S)

\* f maps every subset of S to the sum of g over it, one chosen element at a time.
AddsUp(f, g, S) ==
    \A T \in SUBSET S :
        f[T] = IF T = {} THEN 0
               ELSE g[CHOOSE x \in T : TRUE] + f[T \ {CHOOSE x \in T : TRUE}]

IsSumOf(f, g, S) == f \in [SUBSET S -> Int] /\ AddsUp(f, g, S)

-----------------------------------------------------------------------------
\* Every nonempty family of subsets of a finite set has a minimal member.
LEMMA MinimalMember ==
    ASSUME NEW S, IsFiniteSet(S), NEW F, F \subseteq SUBSET S, F # {}
    PROVE  \E U \in F : \A V \in F : V \subseteq U => V = U
<1> DEFINE Order == StrictSubsetOrdering(S)
<1>1. IsWellFoundedOn(Order, FiniteSubsetsOf(S))
  BY FS_StrictSubsetOrderingWellFounded
<1>2. F \subseteq FiniteSubsetsOf(S)
  BY FS_FiniteSubsetsOfFinite
<1>3. PICK U \in F : \A V \in F : ~(<<V, U>> \in Order)
  <2> HIDE DEF Order
  <2> QED
    BY <1>1, <1>2, WFMin
<1>4. ASSUME NEW V \in F, V \subseteq U, V # U PROVE FALSE
  <2>1. V \in SUBSET S /\ U \in SUBSET S
    OBVIOUS
  <2>2. <<V, U>> \in Order
    BY <2>1, <1>4 DEF StrictSubsetOrdering
  <2> QED
    BY <1>3, <2>2
<1> QED
  BY <1>4

\* Every nonempty set of natural numbers has a least element.
LEMMA LeastElement ==
    ASSUME NEW T, T \subseteq Nat, T # {}
    PROVE  \E x \in T : \A y \in T : x <= y
<1> DEFINE Low(x) == {k \in T : k <= x}
<1>0. \A k \in T : k \in Nat
  OBVIOUS
<1>1. PICK n : n \in T
  OBVIOUS
<1> DEFINE B == Low(n)
           Fam == {Low(x) : x \in B}
<1>2. ASSUME NEW x \in T, NEW y \in T, y <= x
      PROVE  Low(y) \subseteq Low(x)
  <2>1. ASSUME NEW k \in Low(y) PROVE k \in Low(x)
    <3>1. k \in T /\ k <= y
      OBVIOUS
    <3>2. k \in Nat /\ x \in Nat /\ y \in Nat
      BY <3>1, <1>0
    <3>3. k <= x
      BY <3>1, <3>2, <1>2
    <3> QED
      BY <3>1, <3>3
  <2> QED
    BY <2>1
<1>3. IsFiniteSet(B)
  <2>1. n \in Nat
    BY <1>0, <1>1
  <2>2. ASSUME NEW k \in B PROVE k \in 0 .. n
    <3>1. k \in T /\ k <= n
      OBVIOUS
    <3> QED
      BY <3>1, <2>1, <1>0
  <2>3. IsFiniteSet(0 .. n)
    BY <2>1, FS_Interval
  <2>4. B \in SUBSET (0 .. n)
    BY <2>2
  <2> QED
    BY <2>3, <2>4, FS_Subset
<1>4. \A x \in B : x \in T /\ x \in Nat /\ x <= n
  BY <1>0
<1>5. Fam \subseteq SUBSET B
  BY <1>1, <1>2, <1>4
<1>6. n \in B
  BY <1>0, <1>1
<1>7. Fam # {}
  BY <1>6
<1>8. PICK U \in Fam : \A V \in Fam : V \subseteq U => V = U
  <2> HIDE DEF Fam, B
  <2> QED
    BY <1>3, <1>5, <1>7, MinimalMember
<1>9. PICK x \in B : U = Low(x)
  OBVIOUS
<1>10. ASSUME NEW y \in T, y < x PROVE FALSE
  <2>1. x \in Nat /\ y \in Nat /\ n \in Nat /\ x \in T /\ x <= n
    BY <1>0, <1>1, <1>4
  <2>2. y <= n
    BY <2>1, <1>10
  <2>3. y \in B
    BY <2>2
  <2>4. Low(y) \in Fam /\ Low(y) \subseteq Low(x)
    BY <2>1, <2>3, <1>2, <1>10
  <2>5. Low(y) = Low(x)
    BY <2>4, <1>8, <1>9
  <2>6. x \in Low(x) /\ x \notin Low(y)
    BY <2>1, <1>10
  <2> QED
    BY <2>5, <2>6
<1> QED
  BY <1>0, <1>4, <1>10

\* Every nonempty set of integers with an upper bound has a greatest element.
LEMMA GreatestElement ==
    ASSUME NEW T, T \subseteq Int, T # {}, NEW n \in Int, \A y \in T : y <= n
    PROVE  \E x \in T : \A y \in T : y <= x
<1> DEFINE D == {n - y : y \in T}
<1>0. \A y \in T : y \in Int /\ y <= n
  OBVIOUS
<1>1. D \subseteq Nat /\ D # {}
  <2>1. \A y \in T : n - y \in Nat
    BY <1>0
  <2> QED
    BY <2>1
<1>2. PICK d \in D : \A k \in D : d <= k
  BY <1>1, LeastElement
<1>3. PICK x \in T : d = n - x
  OBVIOUS
<1>4. ASSUME NEW y \in T PROVE y <= x
  <2>1. n - y \in D
    OBVIOUS
  <2>2. n - x <= n - y
    BY <1>2, <1>3, <2>1
  <2> QED
    BY <1>0, <2>2
<1> QED
  BY <1>4

-----------------------------------------------------------------------------
(* Sums *)

\* Two ways of summing agree on the subsets both cover.
LEMMA SumsAgree ==
    ASSUME NEW S, IsFiniteSet(S), NEW R, NEW g, NEW f, NEW h,
           AddsUp(f, g, S), AddsUp(h, g, R)
    PROVE  \A U \in SUBSET (S \cap R) : f[U] = h[U]
<1> DEFINE Bad == {U \in SUBSET (S \cap R) : f[U] # h[U]}
<1> SUFFICES ASSUME Bad # {} PROVE FALSE
  OBVIOUS
<1>1. Bad \subseteq SUBSET S
  OBVIOUS
<1>2. PICK U \in Bad : \A V \in Bad : V \subseteq U => V = U
  <2> HIDE DEF Bad
  <2> QED
    BY <1>1, MinimalMember
<1> DEFINE x == CHOOSE y \in U : TRUE
<1>3. U \in SUBSET S /\ U \in SUBSET R
  OBVIOUS
<1>4. f[{}] = 0 /\ h[{}] = 0
  BY DEF AddsUp
<1>5. U # {}
  BY <1>4
<1>6. x \in U
  BY <1>5
<1>7. U \ {x} \in SUBSET (S \cap R) /\ U \ {x} # U
  BY <1>3, <1>6
<1>8. f[U \ {x}] = h[U \ {x}]
  BY <1>2, <1>7
<1>9. f[U] = g[x] + f[U \ {x}] /\ h[U] = g[x] + h[U \ {x}]
  BY <1>3, <1>5 DEF AddsUp
<1> QED
  BY <1>8, <1>9

\* A sum exists over every finite set.
LEMMA SumExists ==
    ASSUME NEW S, IsFiniteSet(S), NEW g \in [S -> Int]
    PROVE  \E f : IsSumOf(f, g, S)
<1> DEFINE Bad == {T \in SUBSET S : ~ \E f : IsSumOf(f, g, T)}
<1> SUFFICES ASSUME Bad # {} PROVE FALSE
  OBVIOUS
<1>1. PICK T \in Bad : \A V \in Bad : V \subseteq T => V = T
  <2> HIDE DEF Bad
  <2>1. Bad \subseteq SUBSET S
    BY DEF Bad
  <2> QED
    BY <2>1, MinimalMember
<1> DEFINE F(U) == CHOOSE f : IsSumOf(f, g, U)
           c(U) == CHOOSE x \in U : TRUE
           val(U) == F(U)[U]
           h == [U \in SUBSET T |-> IF U = {} THEN 0
                                     ELSE g[c(U)] + val(U \ {c(U)})]
<1>2. ASSUME NEW U \in SUBSET T, U # T PROVE IsSumOf(F(U), g, U)
  <2>1. U \in SUBSET S /\ U \notin Bad
    BY <1>1, <1>2
  <2> QED
    BY <2>1
<1>3. ASSUME NEW U \in SUBSET T, U # {}
      PROVE  c(U) \in U /\ U \ {c(U)} \in SUBSET T /\ U \ {c(U)} # T /\ g[c(U)] \in Int
  <2>1. c(U) \in U
    BY <1>3
  <2>2. c(U) \in S
    BY <2>1
  <2> QED
    BY <2>1, <2>2
<1>4. ASSUME NEW U \in SUBSET T, U # T PROVE val(U) \in Int
  <2>1. IsSumOf(F(U), g, U)
    BY <1>2, <1>4
  <2> QED
    BY <2>1 DEF IsSumOf, AddsUp
<1>5. h \in [SUBSET T -> Int]
  <2>1. ASSUME NEW U \in SUBSET T
        PROVE  (IF U = {} THEN 0 ELSE g[c(U)] + val(U \ {c(U)})) \in Int
    <3> HIDE DEF c, val
    <3> QED
      BY <1>3, <1>4
  <2> QED
    BY <2>1
<1>6. ASSUME NEW U \in SUBSET T, U # T PROVE h[U] = val(U)
  <2>1. IsSumOf(F(U), g, U)
    BY <1>2, <1>6
  <2>2. CASE U = {}
    BY <2>1, <2>2 DEF IsSumOf, AddsUp
  <2>3. CASE U # {}
    <3> DEFINE W == U \ {c(U)}
    <3>1. c(U) \in U /\ W \in SUBSET T /\ W # T /\ W \in SUBSET U
      BY <1>3, <2>3
    <3>2. IsSumOf(F(W), g, W)
      BY <1>2, <3>1
    <3>3. IsFiniteSet(U)
      BY FS_Subset
    <3>4. F(U)[W] = F(W)[W]
      <4> DEFINE fu == F(U)
                 fw == F(W)
      <4> HIDE DEF fu, fw, W, F
      <4>1. AddsUp(fu, g, U) /\ AddsUp(fw, g, W)
        BY <2>1, <3>2 DEF fu, fw, IsSumOf
      <4>2. \A V \in SUBSET (U \cap W) : fu[V] = fw[V]
        BY <4>1, <3>3, SumsAgree
      <4>3. W \in SUBSET (U \cap W)
        BY <3>1
      <4> QED
        BY <4>2, <4>3 DEF fu, fw
    <3>5. F(U)[U] = g[c(U)] + F(U)[W]
      BY <2>1, <2>3 DEF IsSumOf, AddsUp
    <3>6. h[U] = g[c(U)] + val(W)
      BY <2>3
    <3> QED
      BY <3>4, <3>5, <3>6
  <2> QED
    BY <2>2, <2>3
<1>7. ASSUME NEW U \in SUBSET T
      PROVE  h[U] = IF U = {} THEN 0 ELSE g[c(U)] + h[U \ {c(U)}]
  <2>1. CASE U = {}
    BY <2>1
  <2>2. CASE U # {}
    <3>1. h[U \ {c(U)}] = val(U \ {c(U)})
      BY <1>3, <1>6, <2>2
    <3>2. h[U] = g[c(U)] + val(U \ {c(U)})
      BY <2>2
    <3> QED
      BY <3>1, <3>2, <2>2
  <2> QED
    BY <2>1, <2>2
<1>8. IsSumOf(h, g, T)
  <2> HIDE DEF h
  <2> QED
    BY <1>5, <1>7 DEF IsSumOf, AddsUp
<1>9. T \in Bad
  OBVIOUS
<1> QED
  BY <1>8, <1>9

\* The library's sum is the one that adds up.
LEMMA SumIs ==
    ASSUME NEW S, IsFiniteSet(S), NEW g, NEW f, IsSumOf(f, g, S)
    PROVE  Sum(g, S) = f[S]
<1> DEFINE Is(h) == h = [T \in SUBSET S |->
                          IF T = {} THEN 0
                          ELSE LET x == CHOOSE x \in T : TRUE IN g[x] + h[T \ {x}]]
           iter == CHOOSE h : Is(h)
<1>1. Sum(g, S) = iter[S]
  BY DEF Sum, MapThenSumSet, MapThenFoldSet
<1>2. Is(f)
  BY DEF IsSumOf, AddsUp
<1>3. Is(iter)
  <2> HIDE DEF Is
  <2> QED
    BY <1>2
<1> HIDE DEF iter
<1>4. AddsUp(iter, g, S) /\ AddsUp(f, g, S)
  BY <1>3 DEF AddsUp, IsSumOf
<1>5. \A U \in SUBSET (S \cap S) : f[U] = iter[U]
  BY <1>4, SumsAgree
<1>6. S \in SUBSET (S \cap S)
  OBVIOUS
<1> QED
  BY <1>1, <1>5, <1>6

\* Any element may be taken out of a sum first.
LEMMA TakeOut ==
    ASSUME NEW S, IsFiniteSet(S), NEW g \in [S -> Int], NEW f, IsSumOf(f, g, S)
    PROVE  \A T \in SUBSET S : \A y \in T : f[T] = g[y] + f[T \ {y}]
<1> DEFINE Bad == {T \in SUBSET S : \E y \in T : f[T] # g[y] + f[T \ {y}]}
<1> SUFFICES ASSUME Bad # {} PROVE FALSE
  OBVIOUS
<1>1. PICK T \in Bad : \A V \in Bad : V \subseteq T => V = T
  <2> HIDE DEF Bad
  <2>1. Bad \subseteq SUBSET S
    BY DEF Bad
  <2> QED
    BY <2>1, MinimalMember
<1>2. T \in SUBSET S
  OBVIOUS
<1>3. PICK y \in T : f[T] # g[y] + f[T \ {y}]
  OBVIOUS
<1> DEFINE x == CHOOSE z \in T : TRUE
<1>4. x \in T /\ f[T] = g[x] + f[T \ {x}]
  BY <1>2, <1>3 DEF IsSumOf, AddsUp
<1> HIDE DEF x
<1>5. x # y
  BY <1>3, <1>4
<1>6. /\ T \ {x} \in SUBSET S /\ T \ {x} \subseteq T /\ T \ {x} # T
      /\ T \ {y} \in SUBSET S /\ T \ {y} \subseteq T /\ T \ {y} # T
      /\ y \in T \ {x} /\ x \in T \ {y}
  BY <1>2, <1>3, <1>4, <1>5
<1>7. f[T \ {x}] = g[y] + f[(T \ {x}) \ {y}]
  BY <1>1, <1>6
<1>8. f[T \ {y}] = g[x] + f[(T \ {y}) \ {x}]
  BY <1>1, <1>6
<1>9. (T \ {x}) \ {y} = (T \ {y}) \ {x} /\ (T \ {x}) \ {y} \in SUBSET S
  BY <1>2
<1>10. g[x] \in Int /\ g[y] \in Int /\ f[(T \ {x}) \ {y}] \in Int
  BY <1>2, <1>4, <1>9 DEF IsSumOf
<1> DEFINE u == f[(T \ {x}) \ {y}]
<1>11. f[T] = g[x] + (g[y] + u) /\ f[T \ {y}] = g[x] + u
  BY <1>4, <1>7, <1>8, <1>9
<1>12. u \in Int
  BY <1>10
<1> HIDE DEF u
<1>13. g[x] + (g[y] + u) = g[y] + (g[x] + u)
  BY <1>10, <1>12
<1> QED
  BY <1>3, <1>11, <1>13

\* A sum of integers is an integer.
LEMMA SumType ==
    ASSUME NEW S, IsFiniteSet(S), NEW g \in [S -> Int]
    PROVE  Sum(g, S) \in Int
<1>1. PICK f : IsSumOf(f, g, S)
  BY SumExists
<1>2. Sum(g, S) = f[S] /\ S \in SUBSET S
  BY <1>1, SumIs
<1> QED
  BY <1>1, <1>2 DEF IsSumOf

\* A sum of zeros is zero.
LEMMA SumZero ==
    ASSUME NEW S, IsFiniteSet(S), NEW g \in [S -> Int], \A s \in S : g[s] = 0
    PROVE  Sum(g, S) = 0
<1>1. PICK f : IsSumOf(f, g, S)
  BY SumExists
<1> DEFINE Bad == {T \in SUBSET S : f[T] # 0}
<1>2. ASSUME Bad # {} PROVE FALSE
  <2>1. PICK T \in Bad : \A V \in Bad : V \subseteq T => V = T
    <3> HIDE DEF Bad
    <3>1. Bad \subseteq SUBSET S
      BY DEF Bad
    <3> QED
      BY <3>1, <1>2, MinimalMember
  <2>2. T \in SUBSET S /\ f[T] # 0
    OBVIOUS
  <2>3. T # {}
    BY <1>1, <2>2 DEF IsSumOf, AddsUp
  <2>4. PICK y : y \in T
    BY <2>3
  <2>5. f[T] = g[y] + f[T \ {y}]
    BY <1>1, <2>2, <2>4, TakeOut
  <2>6. T \ {y} \in SUBSET S /\ T \ {y} # T /\ T \ {y} \notin Bad
    BY <2>1, <2>2, <2>4
  <2>7. f[T \ {y}] = 0 /\ g[y] = 0
    BY <2>2, <2>4, <2>6
  <2> QED
    BY <2>2, <2>5, <2>7
<1>3. S \in SUBSET S /\ S \notin Bad
  BY <1>2
<1> QED
  BY <1>1, <1>3, SumIs

\* When one term changes, the sum changes by the difference.
LEMMA SumChange ==
    ASSUME NEW S, IsFiniteSet(S), NEW g \in [S -> Int], NEW h \in [S -> Int], NEW x \in S,
           \A s \in S \ {x} : g[s] = h[s]
    PROVE  Sum(h, S) = Sum(g, S) - g[x] + h[x]
<1>1. PICK f : IsSumOf(f, g, S)
  BY SumExists
<1>2. PICK k : IsSumOf(k, h, S)
  BY SumExists
<1> DEFINE Bad == {T \in SUBSET (S \ {x}) : f[T] # k[T]}
<1>3. ASSUME Bad # {} PROVE FALSE
  <2>1. PICK T \in Bad : \A V \in Bad : V \subseteq T => V = T
    <3> HIDE DEF Bad
    <3>1. Bad \subseteq SUBSET S
      BY DEF Bad
    <3> QED
      BY <3>1, <1>3, MinimalMember
  <2>2. T \in SUBSET (S \ {x}) /\ T \in SUBSET S /\ f[T] # k[T]
    OBVIOUS
  <2>3. T # {}
    BY <1>1, <1>2, <2>2 DEF IsSumOf, AddsUp
  <2>4. PICK y : y \in T
    BY <2>3
  <2>5. f[T] = g[y] + f[T \ {y}] /\ k[T] = h[y] + k[T \ {y}]
    BY <1>1, <1>2, <2>2, <2>4, TakeOut
  <2>6. T \ {y} \in SUBSET (S \ {x}) /\ T \ {y} # T /\ T \ {y} \notin Bad
    BY <2>1, <2>2, <2>4
  <2>7. f[T \ {y}] = k[T \ {y}] /\ g[y] = h[y]
    BY <2>2, <2>4, <2>6
  <2> QED
    BY <2>2, <2>5, <2>7
<1>4. S \ {x} \in SUBSET (S \ {x}) /\ S \ {x} \in SUBSET S /\ S \in SUBSET S
  OBVIOUS
<1>5. f[S \ {x}] = k[S \ {x}]
  BY <1>3, <1>4
<1> HIDE DEF Bad
<1>6. f[S] = g[x] + f[S \ {x}] /\ k[S] = h[x] + k[S \ {x}]
  <2>1. ASSUME NEW T \in SUBSET S, NEW y \in T
        PROVE  f[T] = g[y] + f[T \ {y}] /\ k[T] = h[y] + k[T \ {y}]
    BY <1>1, <1>2, TakeOut
  <2> QED
    BY <1>4, <2>1, Zenon
<1>7. f[S \ {x}] \in Int /\ g[x] \in Int /\ h[x] \in Int
  <2>1. f \in [SUBSET S -> Int]
    BY <1>1 DEF IsSumOf
  <2> QED
    BY <1>4, <2>1, Zenon
<1>8. Sum(g, S) = f[S] /\ Sum(h, S) = k[S]
  BY <1>1, <1>2, SumIs
<1> QED
  BY <1>5, <1>6, <1>7, <1>8
=============================================================================

------------------------------ MODULE SumProofs -------------------------------
(***************************************************************************)
(* What the sum of a function over a finite set (SumFunctionOnSet, a fold) *)
(* is: independent of the order, one element at a time.  The models state  *)
(* quantities of orders and of messages in flight as such sums.            *)
(*                                                                         *)
(* The fold is a CHOOSE of a recursive function on the subsets of the set. *)
(* The lemmas show that this function exists and is unique; inductions are *)
(* by a minimal counterexample (WFMin).                                    *)
(***************************************************************************)
EXTENDS Sums, FiniteSetTheorems, TLAPS

LOCAL Pick(s) == CHOOSE x \in s : TRUE

LOCAL Step(f, it, s) == IF s = {} THEN 0 ELSE f[Pick(s)] + it[s \ {Pick(s)}]

LOCAL Unfolds(f, it, D) == it = [s \in D |-> Step(f, it, s)]

LOCAL Iter(f, S) == CHOOSE it : Unfolds(f, it, SUBSET S)

LOCAL AtMost(S, n) == {s \in SUBSET S : Cardinality(s) =< n}

\* The fold of the library, spelled out.
LEMMA SumIsIter ==
    ASSUME NEW f, NEW S
    PROVE  SumFunctionOnSet(f, S) = Iter(f, S)[S]
BY DEF SumFunctionOnSet, FoldFunctionOnSet, MapThenFoldSet, Iter, Unfolds, Step, Pick

\* A nonempty set of subsets of a finite set has a minimal element.
LEMMA MinimalSubset ==
    ASSUME NEW S, IsFiniteSet(S), NEW T \in SUBSET (SUBSET S), T # {}
    PROVE  \E U \in T : \A V \in T : V \subseteq U => V = U
<1>1. IsWellFoundedOn(StrictSubsetOrdering(S), SUBSET S)
  BY FS_StrictSubsetOrderingWellFounded, FS_FiniteSubsetsOfFinite
<1>2. PICK U \in T : \A V \in T : ~(<<V, U>> \in StrictSubsetOrdering(S))
  BY <1>1, WFMin
<1> QED BY <1>2 DEF StrictSubsetOrdering

\* A nonempty set of naturals has a least element.
LEMMA LeastNat ==
    ASSUME NEW T \in SUBSET Nat, T # {}
    PROVE  \E m \in T : \A n \in T : m =< n
<1>1. PICK m \in T : \A n \in T : ~(<<n, m>> \in OpToRel(<, Nat))
  BY NatLessThanWellFounded, WFMin, Zenon
<1>2. \A n \in T : ~(n < m)  BY <1>1 DEF OpToRel
<1> QED BY <1>2

\* A function that unfolds, at one set.
LEMMA UnfoldOnce ==
    ASSUME NEW f, NEW it, NEW D, Unfolds(f, it, D), NEW s \in D
    PROVE  it[s] = Step(f, it, s)
<1>1. PICK k : k = [t \in D |-> Step(f, it, t)]  BY Zenon
<1>2. k[s] = Step(f, it, s)  BY <1>1
<1>3. it = k  BY <1>1, Zenon DEF Unfolds
<1> QED BY <1>2, <1>3

\* The recursion has a solution on the subsets of at most n elements.
LEMMA StepsExist ==
    ASSUME NEW f, NEW S, IsFiniteSet(S)
    PROVE  \A n \in Nat : \E it : Unfolds(f, it, AtMost(S, n))
<1> DEFINE Bad == {n \in Nat : ~\E it : Unfolds(f, it, AtMost(S, n))}
<1> SUFFICES ASSUME Bad # {} PROVE FALSE  OBVIOUS
<1>1. PICK m \in Bad : \A n \in Bad : m =< n
  <2> HIDE DEF Bad
  <2>1. Bad \in SUBSET Nat  BY DEF Bad
  <2> QED BY <2>1, LeastNat
<1>c. \A s \in SUBSET S : IsFiniteSet(s) /\ Cardinality(s) \in Nat /\ (Cardinality(s) = 0 <=> s = {})
  BY FS_Subset, FS_CardinalityType, FS_EmptySet
<1>2. m # 0
  <2> DEFINE it0 == [s \in AtMost(S, 0) |-> 0]
  <2>1. \A s \in AtMost(S, 0) : s = {}  BY <1>c DEF AtMost
  <2>2. \A s \in AtMost(S, 0) : Step(f, it0, s) = 0  BY <2>1 DEF Step
  <2>3. Unfolds(f, it0, AtMost(S, 0))  BY <2>2, Zenon DEF Unfolds
  <2> QED BY <2>3
<1>3. m - 1 \in Nat /\ m - 1 \notin Bad  BY <1>1, <1>2
<1>4. PICK g : Unfolds(f, g, AtMost(S, m - 1))  BY <1>3
<1> DEFINE h == [s \in AtMost(S, m) |-> Step(f, g, s)]
<1>5. \A s \in AtMost(S, m) : Step(f, h, s) = Step(f, g, s)
  <2> TAKE s \in AtMost(S, m)
  <2>1. CASE s = {}  BY <2>1 DEF Step
  <2>2. CASE s # {}
    <3>1. PICK p : p = Pick(s)  OBVIOUS
    <3>2. p \in s  BY <3>1, <2>2 DEF Pick
    <3>3. s \in SUBSET S /\ s \ {p} \in SUBSET S /\ Cardinality(s) =< m /\ IsFiniteSet(s)
      BY <1>c DEF AtMost
    <3>4. Cardinality(s \ {p}) = Cardinality(s) - 1  BY <3>2, <3>3, FS_RemoveElement
    <3>5. s \ {p} \in AtMost(S, m - 1) /\ s \ {p} \in AtMost(S, m)
      BY <3>3, <3>4, <1>c DEF AtMost
    <3>6. h[s \ {p}] = Step(f, g, s \ {p})  BY <3>5
    <3>7. g[s \ {p}] = Step(f, g, s \ {p})  BY <3>5, <1>4, UnfoldOnce
    <3> HIDE DEF h
    <3> QED BY <3>1, <3>6, <3>7, <2>2 DEF Step
  <2> QED BY <2>1, <2>2
<1>6. Unfolds(f, h, AtMost(S, m))  BY <1>5, Zenon DEF Unfolds
<1> QED BY <1>1, <1>6

\* So the chosen function satisfies the recursion.
LEMMA IterUnfolds ==
    ASSUME NEW f, NEW S, IsFiniteSet(S)
    PROVE  Unfolds(f, Iter(f, S), SUBSET S)
<1>1. Cardinality(S) \in Nat /\ \A s \in SUBSET S : Cardinality(s) =< Cardinality(S)
  BY FS_CardinalityType, FS_Subset
<1>2. AtMost(S, Cardinality(S)) = SUBSET S  BY <1>1 DEF AtMost
<1>3. \A n \in Nat : \E it : Unfolds(f, it, AtMost(S, n))  BY StepsExist
<1>4. \E it : Unfolds(f, it, AtMost(S, Cardinality(S)))  BY <1>1, <1>3
<1>5. \E it : Unfolds(f, it, SUBSET S)  BY <1>2, <1>4
<1> QED BY <1>5, Zenon DEF Iter

\* ... and there is no other: the sum over a part does not depend on the whole.
LEMMA IterAgree ==
    ASSUME NEW f, NEW S, IsFiniteSet(S), NEW V \in SUBSET S
    PROVE  Iter(f, S)[V] = Iter(f, V)[V]
<1>1. IsFiniteSet(V)  BY FS_Subset
<1>2. PICK g : g = Iter(f, S)  OBVIOUS
<1>3. PICK h : h = Iter(f, V)  OBVIOUS
<1>a. Unfolds(f, g, SUBSET S) /\ Unfolds(f, h, SUBSET V)  BY <1>1, <1>2, <1>3, IterUnfolds
<1>4. \A s \in SUBSET S : g[s] = Step(f, g, s)  BY <1>a, UnfoldOnce
<1>5. \A s \in SUBSET V : h[s] = Step(f, h, s)  BY <1>a, UnfoldOnce
<1> DEFINE Bad == {s \in SUBSET V : g[s] # h[s]}
<1>6. CASE Bad = {}  BY <1>6, <1>2, <1>3
<1>7. CASE Bad # {}
  <2>1. PICK U \in Bad : \A W \in Bad : W \subseteq U => W = U
    <3> HIDE DEF Bad
    <3>1. Bad \in SUBSET (SUBSET V)  BY DEF Bad
    <3> QED BY <3>1, <1>1, <1>7, MinimalSubset
  <2>2. U # {}  BY <2>1, <1>4, <1>5 DEF Step
  <2>3. Pick(U) \in U  BY <2>2 DEF Pick
  <2>4. g[U \ {Pick(U)}] = h[U \ {Pick(U)}]  BY <2>1, <2>3
  <2>5. g[U] = f[Pick(U)] + g[U \ {Pick(U)}] /\ h[U] = f[Pick(U)] + h[U \ {Pick(U)}]
    BY <2>1, <2>2, <1>4, <1>5 DEF Step
  <2> QED BY <2>1, <2>4, <2>5
<1> QED BY <1>6, <1>7

\* The sum over the empty set.
LEMMA SumEmpty ==
    ASSUME NEW f
    PROVE  SumFunctionOnSet(f, {}) = 0
<1>1. IsFiniteSet({})  BY FS_EmptySet
<1>a. Unfolds(f, Iter(f, {}), SUBSET {}) /\ {} \in SUBSET {}  BY <1>1, IterUnfolds
<1>2. Iter(f, {})[{}] = Step(f, Iter(f, {}), {})  BY <1>a, UnfoldOnce, Zenon
<1> QED BY <1>2, SumIsIter DEF Step

\* One step of the fold: some element, and the sum of the others.
LEMMA SumPick ==
    ASSUME NEW f, NEW S, IsFiniteSet(S), S # {}
    PROVE  \E x \in S : SumFunctionOnSet(f, S) = f[x] + SumFunctionOnSet(f, S \ {x})
<1>a. Unfolds(f, Iter(f, S), SUBSET S) /\ S \in SUBSET S  BY IterUnfolds
<1>1. Iter(f, S)[S] = Step(f, Iter(f, S), S)  BY <1>a, UnfoldOnce, Zenon
<1>2. PICK x \in S : x = Pick(S)  BY DEF Pick
<1>3. Iter(f, S)[S \ {x}] = Iter(f, S \ {x})[S \ {x}]  BY IterAgree
<1>4. Iter(f, S)[S] = f[x] + Iter(f, S)[S \ {x}]  BY <1>1, <1>2 DEF Step
<1> QED BY <1>3, <1>4, SumIsIter

\* A sum of integers is an integer.
LEMMA SumInt ==
    ASSUME NEW f, NEW S, IsFiniteSet(S), \A x \in S : f[x] \in Int
    PROVE  SumFunctionOnSet(f, S) \in Int
<1> DEFINE Bad == {s \in SUBSET S : SumFunctionOnSet(f, s) \notin Int}
<1> SUFFICES ASSUME Bad # {} PROVE FALSE  OBVIOUS
<1>1. PICK U \in Bad : \A W \in Bad : W \subseteq U => W = U
  <2> HIDE DEF Bad
  <2>1. Bad \in SUBSET (SUBSET S)  BY DEF Bad
  <2> QED BY <2>1, MinimalSubset
<1>a. SumFunctionOnSet(f, {}) = 0  BY SumEmpty
<1>2. U # {}
  <2>1. SumFunctionOnSet(f, U) \notin Int  BY <1>1
  <2> HIDE DEF Bad
  <2>2. SumFunctionOnSet(f, {}) \in Int  BY <1>a
  <2> QED BY <2>1, <2>2, Zenon
<1>3. IsFiniteSet(U)  BY <1>1, FS_Subset
<1>4. PICK x \in U : SumFunctionOnSet(f, U) = f[x] + SumFunctionOnSet(f, U \ {x})
  BY <1>2, <1>3, SumPick
<1>5. U \ {x} \notin Bad  BY <1>1
<1> QED BY <1>1, <1>4, <1>5

\* Any element can be taken out first.
LEMMA SumRemove ==
    ASSUME NEW f, NEW S, IsFiniteSet(S), \A y \in S : f[y] \in Int, NEW x \in S
    PROVE  SumFunctionOnSet(f, S) = f[x] + SumFunctionOnSet(f, S \ {x})
<1> DEFINE Sum(s) == SumFunctionOnSet(f, s)
           Bad == {s \in SUBSET S : \E y \in s : Sum(s) # f[y] + Sum(s \ {y})}
<1>i. \A s \in SUBSET S : IsFiniteSet(s) /\ Sum(s) \in Int
  BY SumInt, FS_Subset
<1>p. \A s \in SUBSET S : s # {} => \E z \in s : Sum(s) = f[z] + Sum(s \ {z})
  BY <1>i, SumPick
<1> HIDE DEF Sum
<1> SUFFICES ASSUME Bad # {} PROVE FALSE  BY DEF Sum
<1>1. PICK U \in Bad : \A W \in Bad : W \subseteq U => W = U
  <2> HIDE DEF Bad
  <2>1. Bad \in SUBSET (SUBSET S)  BY DEF Bad
  <2> QED BY <2>1, MinimalSubset
<1>2. PICK y \in U : Sum(U) # f[y] + Sum(U \ {y})  BY <1>1
<1>3. PICK z \in U : Sum(U) = f[z] + Sum(U \ {z})  BY <1>1, <1>2, <1>p
<1>4. y # z  BY <1>2, <1>3
<1>q. \A w \in U : \A v \in U \ {w} : Sum(U \ {w}) = f[v] + Sum((U \ {w}) \ {v})
  <2> TAKE w \in U
  <2>1. U \ {w} \in SUBSET S /\ U \ {w} \notin Bad  BY <1>1
  <2> QED BY <2>1
<1>5. Sum(U \ {z}) = f[y] + Sum((U \ {z}) \ {y})  BY <1>q, <1>1, <1>4
<1>6. Sum(U \ {y}) = f[z] + Sum((U \ {y}) \ {z})  BY <1>q, <1>1, <1>4
<1>7. (U \ {z}) \ {y} = (U \ {y}) \ {z}  OBVIOUS
<1>8. Sum((U \ {y}) \ {z}) \in Int /\ f[y] \in Int /\ f[z] \in Int  BY <1>i, <1>1
<1> HIDE DEF Bad
<1>9. Sum(U) = f[z] + (f[y] + Sum((U \ {y}) \ {z}))  BY <1>3, <1>5, <1>7
<1> QED BY <1>2, <1>9, <1>6, <1>8

\* One element more.
LEMMA SumAdd ==
    ASSUME NEW f, NEW S, IsFiniteSet(S), NEW x, x \notin S, \A y \in S \cup {x} : f[y] \in Int
    PROVE  SumFunctionOnSet(f, S \cup {x}) = f[x] + SumFunctionOnSet(f, S)
<1>1. IsFiniteSet(S \cup {x})  BY FS_AddElement
<1>2. (S \cup {x}) \ {x} = S  OBVIOUS
<1> QED BY <1>1, <1>2, SumRemove
\* Functions that agree on the set have the same sum.
LEMMA SumSame ==
    ASSUME NEW f, NEW g, NEW S, IsFiniteSet(S), \A x \in S : f[x] = g[x]
    PROVE  SumFunctionOnSet(f, S) = SumFunctionOnSet(g, S)
<1> DEFINE Bad == {s \in SUBSET S : SumFunctionOnSet(f, s) # SumFunctionOnSet(g, s)}
<1> SUFFICES ASSUME Bad # {} PROVE FALSE  OBVIOUS
<1>1. PICK U \in Bad : \A W \in Bad : W \subseteq U => W = U
  <2> HIDE DEF Bad
  <2>1. Bad \in SUBSET (SUBSET S)  BY DEF Bad
  <2> QED BY <2>1, MinimalSubset
<1>2. PICK F : F = Iter(f, U)  OBVIOUS
<1>3. PICK G : G = Iter(g, U)  OBVIOUS
<1>4. IsFiniteSet(U)  BY <1>1, FS_Subset
<1>5. F[U] = Step(f, F, U) /\ G[U] = Step(g, G, U)
  <2>1. Unfolds(f, F, SUBSET U) /\ Unfolds(g, G, SUBSET U) /\ U \in SUBSET U
    BY <1>2, <1>3, <1>4, IterUnfolds
  <2> QED BY <2>1, UnfoldOnce, Zenon
<1>6. SumFunctionOnSet(f, U) = F[U] /\ SumFunctionOnSet(g, U) = G[U]  BY <1>2, <1>3, SumIsIter
<1>7. F[U] # G[U]  BY <1>1, <1>6
<1>8. U # {}  BY <1>5, <1>7 DEF Step
<1>9. PICK x \in U : x = Pick(U)  BY <1>8 DEF Pick
<1>10. F[U] = f[x] + F[U \ {x}] /\ G[U] = g[x] + G[U \ {x}]  BY <1>5, <1>8, <1>9 DEF Step
<1>11. F[U \ {x}] = SumFunctionOnSet(f, U \ {x}) /\ G[U \ {x}] = SumFunctionOnSet(g, U \ {x})
  BY <1>2, <1>3, <1>4, IterAgree, SumIsIter
<1>12. U \ {x} \notin Bad  BY <1>1
<1>13. SumFunctionOnSet(f, U \ {x}) = SumFunctionOnSet(g, U \ {x}) /\ f[x] = g[x]  BY <1>12, <1>1
<1> QED BY <1>7, <1>10, <1>11, <1>13

\* A sum of naturals is a natural, and no smaller than the sum over a part.
LEMMA SumNat ==
    ASSUME NEW f, NEW S, IsFiniteSet(S), \A x \in S : f[x] \in Nat
    PROVE  SumFunctionOnSet(f, S) \in Nat
<1> DEFINE Bad == {s \in SUBSET S : SumFunctionOnSet(f, s) \notin Nat}
<1> SUFFICES ASSUME Bad # {} PROVE FALSE  OBVIOUS
<1>1. PICK U \in Bad : \A W \in Bad : W \subseteq U => W = U
  <2> HIDE DEF Bad
  <2>1. Bad \in SUBSET (SUBSET S)  BY DEF Bad
  <2> QED BY <2>1, MinimalSubset
<1>a. SumFunctionOnSet(f, U) \notin Nat /\ IsFiniteSet(U)  BY <1>1, FS_Subset
<1>b. SumFunctionOnSet(f, {}) \in Nat
  <2>1. SumFunctionOnSet(f, {}) = 0  BY SumEmpty
  <2> QED BY <2>1
<1>2. U # {}  BY <1>a, <1>b, Zenon
<1>3. PICK x \in U : SumFunctionOnSet(f, U) = f[x] + SumFunctionOnSet(f, U \ {x})
  BY <1>2, <1>a, SumPick
<1>4. U \ {x} \notin Bad /\ f[x] \in Nat  BY <1>1
<1> QED BY <1>a, <1>3, <1>4

\* Each term of a sum of naturals is at most the sum.
LEMMA SumCovers ==
    ASSUME NEW f, NEW S, IsFiniteSet(S), \A y \in S : f[y] \in Nat, NEW x \in S
    PROVE  f[x] =< SumFunctionOnSet(f, S)
<1>1. IsFiniteSet(S \ {x})  BY FS_Subset
<1>2. SumFunctionOnSet(f, S \ {x}) \in Nat  BY <1>1, SumNat
<1>3. SumFunctionOnSet(f, S) = f[x] + SumFunctionOnSet(f, S \ {x})  BY SumRemove
<1> QED BY <1>2, <1>3

\* A sum of numbers of at most m is at most m times their count.
LEMMA SumBound ==
    ASSUME NEW f, NEW S, IsFiniteSet(S), NEW m \in Nat,
           \A x \in S : f[x] \in Nat /\ f[x] =< m
    PROVE  SumFunctionOnSet(f, S) =< Cardinality(S) * m
<1> DEFINE Bad == {s \in SUBSET S : ~(SumFunctionOnSet(f, s) =< Cardinality(s) * m)}
<1> SUFFICES ASSUME Bad # {} PROVE FALSE  OBVIOUS
<1>1. PICK U \in Bad : \A W \in Bad : W \subseteq U => W = U
  <2> HIDE DEF Bad
  <2>1. Bad \in SUBSET (SUBSET S)  BY DEF Bad
  <2> QED BY <2>1, MinimalSubset
<1>a. ~(SumFunctionOnSet(f, U) =< Cardinality(U) * m)  BY <1>1
<1>b. IsFiniteSet(U)  BY <1>1, FS_Subset
<1>c. SumFunctionOnSet(f, {}) =< Cardinality({}) * m
  <2>1. SumFunctionOnSet(f, {}) = 0 /\ Cardinality({}) = 0  BY SumEmpty, FS_EmptySet
  <2> QED BY <2>1
<1>2. U # {}  BY <1>a, <1>c, Zenon
<1>3. PICK x \in U : SumFunctionOnSet(f, U) = f[x] + SumFunctionOnSet(f, U \ {x})
  BY <1>2, <1>b, SumPick
<1>4. U \ {x} \notin Bad /\ U \ {x} \in SUBSET S /\ f[x] \in Nat /\ f[x] =< m  BY <1>1
<1>5. SumFunctionOnSet(f, U \ {x}) =< Cardinality(U \ {x}) * m  BY <1>4
<1>6. Cardinality(U \ {x}) = Cardinality(U) - 1 /\ Cardinality(U) \in Nat
  BY <1>b, FS_RemoveElement, FS_CardinalityType
<1>7. SumFunctionOnSet(f, U \ {x}) \in Nat  BY <1>4, SumNat, FS_Subset
<1>8. (Cardinality(U) - 1) * m + m = Cardinality(U) * m  BY <1>6
<1>9. (Cardinality(U) - 1) * m \in Int  BY <1>6
<1> QED BY <1>a, <1>3, <1>4, <1>5, <1>6, <1>7, <1>8, <1>9

\* A change of the index: h maps S one to one onto T, and g to f.
LOCAL Reindexed(f, T, h, g, S) ==
    /\ \A x \in S : h[x] \in T /\ g[x] = f[h[x]] /\ g[x] \in Int
    /\ \A y \in T : \E x \in S : y = h[x]
    /\ \A x, y \in S : h[x] = h[y] => x = y

\* A sum does not change with its index.
LEMMA SumReindex ==
    ASSUME NEW f, NEW g, NEW h, NEW S, NEW T, IsFiniteSet(S), Reindexed(f, T, h, g, S)
    PROVE  SumFunctionOnSet(f, T) = SumFunctionOnSet(g, S)
<1> USE DEF Reindexed
<1> DEFINE Img(s) == {h[x] : x \in s}
           Bad == {s \in SUBSET S : SumFunctionOnSet(f, Img(s)) # SumFunctionOnSet(g, s)}
<1>0. Img(S) = T  OBVIOUS
<1> SUFFICES ASSUME Bad # {} PROVE FALSE
  <2>1. S \notin Bad => SumFunctionOnSet(f, Img(S)) = SumFunctionOnSet(g, S)  OBVIOUS
  <2> HIDE DEF Img, Bad
  <2> QED BY <1>0, <2>1
<1>1. PICK U \in Bad : \A W \in Bad : W \subseteq U => W = U
  <2> HIDE DEF Bad
  <2>1. Bad \in SUBSET (SUBSET S)  BY DEF Bad
  <2> QED BY <2>1, MinimalSubset
<1>a. SumFunctionOnSet(f, Img(U)) # SumFunctionOnSet(g, U)  BY <1>1
<1>b. IsFiniteSet(U) /\ U \in SUBSET S  BY <1>1, FS_Subset
<1>c. SumFunctionOnSet(f, Img({})) = SumFunctionOnSet(g, {})
  <2>1. Img({}) = {}  OBVIOUS
  <2> HIDE DEF Img
  <2>2. SumFunctionOnSet(f, {}) = 0 /\ SumFunctionOnSet(g, {}) = 0  BY SumEmpty
  <2> QED BY <2>1, <2>2
<1>2. U # {}  BY <1>a, <1>c, Zenon
<1>3. PICK x \in U : SumFunctionOnSet(g, U) = g[x] + SumFunctionOnSet(g, U \ {x})
  BY <1>2, <1>b, SumPick
<1>4. SumFunctionOnSet(f, Img(U \ {x})) = SumFunctionOnSet(g, U \ {x})
  <2>1. U \ {x} \notin Bad /\ U \ {x} \in SUBSET S  BY <1>1
  <2> QED BY <2>1
<1>5. Img(U) \ {h[x]} = Img(U \ {x}) /\ h[x] \in Img(U)  BY <1>b
<1>6. IsFiniteSet(Img(U))
  <2>1. IsFiniteSet({h[y] : y \in U})
    <3> DEFINE k == [y \in U |-> h[y]]
    <3>1. k \in Surjection(U, Img(U))  BY DEF Surjection
    <3> HIDE DEF k, Img
    <3> QED BY <3>1, <1>b, FS_Surjection DEF Img
  <2> QED BY <2>1
<1>7. \A z \in Img(U) : f[z] \in Int  BY <1>b
<1> HIDE DEF Img, Bad
<1>8. SumFunctionOnSet(f, Img(U)) = f[h[x]] + SumFunctionOnSet(f, Img(U \ {x}))
  <2>1. \A z \in Img(U) : SumFunctionOnSet(f, Img(U)) = f[z] + SumFunctionOnSet(f, Img(U) \ {z})
    BY <1>6, <1>7, SumRemove
  <2> QED BY <1>5, <2>1
<1> QED BY <1>a, <1>3, <1>4, <1>8, <1>b
-----------------------------------------------------------------------------
\* The sum over one element.
LEMMA SumSingle ==
    ASSUME NEW f, NEW x, f[x] \in Int
    PROVE  SumFunctionOnSet(f, {x}) = f[x]
<1>1. IsFiniteSet({}) /\ {} \cup {x} = {x} /\ x \notin {}  BY FS_EmptySet
<1>2. SumFunctionOnSet(f, {} \cup {x}) = f[x] + SumFunctionOnSet(f, {})  BY <1>1, SumAdd
<1>3. SumFunctionOnSet(f, {}) = 0  BY SumEmpty
<1> QED BY <1>1, <1>2, <1>3

\* f and S are terms of a sequence of length n, f1 and S1 those of the sequence
\* with one element appended.
LEMMA SumAppend ==
    ASSUME NEW n \in Nat, NEW f, NEW f1, NEW S, NEW S1, Appended(f, S, f1, S1, n)
    PROVE  /\ SumFunctionOnSet(f1, S1) = SumFunctionOnSet(f, S) + (IF n + 1 \in S1 THEN f1[n + 1] ELSE 0)
           /\ SumFunctionOnSet(f, S) \in Int
<1> USE DEF Appended
<1>1. IsFiniteSet(S)
  <2>1. IsFiniteSet(1 .. n)  BY FS_Interval
  <2> QED BY <2>1, FS_Subset
<1>2. \A i \in S : i \in 1 .. n /\ f1[i] = f[i] /\ f[i] \in Int  OBVIOUS
<1>3. SumFunctionOnSet(f1, S) = SumFunctionOnSet(f, S) /\ SumFunctionOnSet(f, S) \in Int
  BY <1>1, <1>2, SumSame, SumInt, ZenonT(30)
<1>a. n + 1 \notin 1 .. n /\ \A i \in 1 .. n + 1 : i = n + 1 \/ i \in 1 .. n  OBVIOUS
<1>4. CASE n + 1 \in S1
  <2>1. S1 = S \cup {n + 1} /\ n + 1 \notin S  BY <1>4, <1>a
  <2>2. \A i \in S \cup {n + 1} : f1[i] \in Int  BY <1>2, <1>4
  <2>3. SumFunctionOnSet(f1, S \cup {n + 1}) = f1[n + 1] + SumFunctionOnSet(f1, S)
    BY <1>1, <2>1, <2>2, SumAdd, Zenon
  <2>4. f1[n + 1] \in Int  BY <1>4
  <2> QED BY <1>3, <1>4, <2>1, <2>3, <2>4
<1>5. CASE n + 1 \notin S1
  <2>1. S1 = S  BY <1>5, <1>a
  <2> QED BY <1>3, <1>5, <2>1
<1> QED BY <1>3, <1>4, <1>5

\* A set of numbers moved up by one.
LOCAL Up(i) == i + 1

LOCAL Shifted(f, T, g, S) ==
    /\ \A i \in S : i \in Int /\ Up(i) \in T /\ g[i] = f[Up(i)] /\ g[i] \in Int
    /\ \A j \in T : \E i \in S : j = Up(i)

\* Nor when its index is moved up by one.
LEMMA SumShift ==
    ASSUME NEW f, NEW g, NEW S, NEW T, IsFiniteSet(S), Shifted(f, T, g, S)
    PROVE  SumFunctionOnSet(f, T) = SumFunctionOnSet(g, S)
<1> USE DEF Shifted
<1>1. PICK h : h = [i \in S |-> Up(i)]  BY Zenon
<1>2. \A i \in S : h[i] \in T /\ g[i] = f[h[i]] /\ g[i] \in Int  BY <1>1
<1>3. \A j \in T : \E i \in S : j = h[i]  BY <1>1
<1>4. \A i, j \in S : h[i] = h[j] => i = j  BY <1>1 DEF Up
<1>5. Reindexed(f, T, h, g, S)  BY <1>2, <1>3, <1>4 DEF Reindexed
<1> QED BY <1>5, SumReindex

\* ... and those of the sequence without its first element.
LEMMA SumTail ==
    ASSUME NEW n \in Nat \ {0}, NEW f, NEW f1, NEW S, NEW S1, Tailed(f, S, f1, S1, n)
    PROVE  /\ SumFunctionOnSet(f, S) = SumFunctionOnSet(f1, S1) + (IF 1 \in S THEN f[1] ELSE 0)
           /\ SumFunctionOnSet(f1, S1) \in Int
<1> USE DEF Tailed
<1>1. IsFiniteSet(S1) /\ IsFiniteSet(S)
  <2>1. IsFiniteSet(1 .. n - 1) /\ IsFiniteSet(1 .. n)  BY FS_Interval
  <2> QED BY <2>1, FS_Subset
<1>2. \A i \in S1 : f1[i] = f[i + 1] /\ f1[i] \in Int
  <2> TAKE i \in S1
  <2>1. i \in 1 .. n - 1  OBVIOUS
  <2> QED BY <2>1
<1>3. \A i \in S1 : Up(i) \in S \ {1}
  <2> TAKE i \in S1
  <2>1. i \in 1 .. n - 1 /\ i + 1 # 1  OBVIOUS
  <2> QED BY <2>1 DEF Up
<1>4. \A j \in S \ {1} : \E i \in S1 : j = Up(i)
  <2> TAKE j \in S \ {1}
  <2>1. j - 1 \in 1 .. n - 1 /\ (j - 1) + 1 = j  OBVIOUS
  <2>2. j - 1 \in S1  BY <2>1
  <2> QED BY <2>1, <2>2 DEF Up
<1>5. SumFunctionOnSet(f, S \ {1}) = SumFunctionOnSet(f1, S1)
  <2>1. \A i \in S1 : f1[i] = f[Up(i)] /\ f1[i] \in Int  BY <1>2 DEF Up
  <2>2. \A i \in S1 : i \in Int  OBVIOUS
  <2>3. Shifted(f, S \ {1}, f1, S1)  BY <1>3, <1>4, <2>1, <2>2 DEF Shifted
  <2> QED BY <1>1, <2>3, SumShift
<1>6. SumFunctionOnSet(f1, S1) \in Int  BY <1>1, <1>2, SumInt
<1>7. CASE 1 \in S
  <2>1. \A x \in S : SumFunctionOnSet(f, S) = f[x] + SumFunctionOnSet(f, S \ {x})
    BY <1>1, SumRemove, ZenonT(30)
  <2>2. f[1] \in Int  BY <1>7
  <2>3. SumFunctionOnSet(f, S) = f[1] + SumFunctionOnSet(f, S \ {1})  BY <1>7, <2>1
  <2> QED BY <1>5, <1>6, <1>7, <2>2, <2>3
<1>8. CASE 1 \notin S
  <2>1. S \ {1} = S  BY <1>8
  <2>2. SumFunctionOnSet(f, S) = SumFunctionOnSet(f1, S1)  BY <1>5, <2>1
  <2> QED BY <1>6, <1>8, <2>2
<1> QED BY <1>6, <1>7, <1>8

-----------------------------------------------------------------------------
\* Two sums that differ in one element.
LEMMA SumDiffer ==
    ASSUME NEW f, NEW S, NEW f1, NEW S1, NEW x, Differs(f, S, f1, S1, x)
    PROVE  /\ SumFunctionOnSet(f1, S1) - (IF x \in S1 THEN f1[x] ELSE 0)
                 = SumFunctionOnSet(f, S) - (IF x \in S THEN f[x] ELSE 0)
           /\ SumFunctionOnSet(f, S) \in Int /\ SumFunctionOnSet(f1, S1) \in Int
  <1>1. /\ IsFiniteSet(S) /\ \A y \in S : f[y] \in Int
        /\ IsFiniteSet(S1) /\ \A y \in S1 : f1[y] \in Int
        /\ S1 \ {x} = S \ {x} /\ \A y \in S \ {x} : f1[y] = f[y]
    BY DEF Differs
  <1>2. PICK R : R = S \ {x}
    BY Zenon
  <1>3. IsFiniteSet(R) /\ \A y \in R : f1[y] = f[y] /\ f[y] \in Int
    BY <1>1, <1>2, FS_Subset
  <1>4. SumFunctionOnSet(f1, R) = SumFunctionOnSet(f, R) /\ SumFunctionOnSet(f, R) \in Int
    BY <1>3, SumSame, SumInt
  <1>5. SumFunctionOnSet(f, S) = SumFunctionOnSet(f, R) + (IF x \in S THEN f[x] ELSE 0)
    <2>1. CASE x \in S
      <3>1. f[x] \in Int
        BY <1>1, <2>1
      <3> QED
        BY <1>1, <1>2, <1>4, <2>1, <3>1, SumRemove
    <2>2. CASE x \notin S
      <3>1. R = S
        BY <1>2, <2>2
      <3> QED
        BY <1>4, <2>2, <3>1
    <2> QED
      BY <2>1, <2>2
  <1>6. SumFunctionOnSet(f1, S1) = SumFunctionOnSet(f1, R) + (IF x \in S1 THEN f1[x] ELSE 0)
    <2>1. CASE x \in S1
      <3>1. f1[x] \in Int /\ R = S1 \ {x}
        BY <1>1, <1>2, <2>1
      <3> QED
        BY <1>1, <1>4, <2>1, <3>1, SumRemove
    <2>2. CASE x \notin S1
      <3>1. R = S1
        BY <1>1, <1>2, <2>2
      <3> QED
        BY <1>4, <2>2, <3>1
    <2> QED
      BY <2>1, <2>2
  <1>7. (IF x \in S THEN f[x] ELSE 0) \in Int /\ (IF x \in S1 THEN f1[x] ELSE 0) \in Int
    BY <1>1
  <1> QED
    BY <1>4, <1>5, <1>6, <1>7

\* What the library's theorems say of finite sets.
THEOREM FiniteSetFactsHold == FiniteSetFacts
  <1>1. IsFiniteSet({}) /\ Cardinality({}) = 0
    BY FS_EmptySet
  <1>2. \A S : IsFiniteSet(S) => Cardinality(S) \in Nat
    BY FS_CardinalityType
  <1>3. \A S, T : IsFiniteSet(S) /\ T \subseteq S => IsFiniteSet(T) /\ Cardinality(T) =< Cardinality(S)
    BY FS_Subset
  <1>4. \A S, x : IsFiniteSet(S) => /\ IsFiniteSet(S \cup {x})
                                    /\ x \notin S => Cardinality(S \cup {x}) = Cardinality(S) + 1
    BY FS_AddElement
  <1>5. \A S, x : IsFiniteSet(S) => /\ IsFiniteSet(S \ {x})
                                    /\ x \in S => Cardinality(S \ {x}) = Cardinality(S) - 1
    BY FS_RemoveElement
  <1> QED
    BY <1>1, <1>2, <1>3, <1>4, <1>5 DEF FiniteSetFacts

\* The facts about sums hold, for every function and every finite set.
THEOREM SumFactsHold == SumFacts
  <1>1. SumOfNone
    BY SumEmpty DEF SumOfNone
  <1>2. SumOfOne
    BY SumSingle DEF SumOfOne
  <1>3. SumAppends
    BY SumAppend DEF SumAppends
  <1>4. SumTails
    BY SumTail DEF SumTails
  <1>5. SumDiffers
    BY SumDiffer DEF SumDiffers
  <1>6. SumOfNaturals
    <2> SUFFICES ASSUME NEW f, NEW S, Naturals(f, S)
                 PROVE  /\ SumFunctionOnSet(f, S) \in Nat
                        /\ \A x \in S : f[x] =< SumFunctionOnSet(f, S)
                        /\ \A m \in Nat : (\A x \in S : f[x] =< m) =>
                              SumFunctionOnSet(f, S) =< Cardinality(S) * m
      BY DEF SumOfNaturals
    <2>1. IsFiniteSet(S) /\ \A y \in S : f[y] \in Nat
      BY DEF Naturals
    <2>2. SumFunctionOnSet(f, S) \in Nat
      BY <2>1, SumNat
    <2>3. \A x \in S : f[x] =< SumFunctionOnSet(f, S)
      BY <2>1, SumCovers
    <2>4. \A m \in Nat : (\A x \in S : f[x] =< m) => SumFunctionOnSet(f, S) =< Cardinality(S) * m
      BY <2>1, SumBound
    <2> QED
      BY <2>2, <2>3, <2>4
  <1> QED
    BY <1>1, <1>2, <1>3, <1>4, <1>5, <1>6 DEF SumFacts

=============================================================================

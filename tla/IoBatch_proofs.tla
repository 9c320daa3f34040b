--------------------------- MODULE IoBatch_proofs ---------------------------
(***************************************************************************)
(* What the operations on batches preserve, and what a batch can cost.     *)
(***************************************************************************)
EXTENDS IoBatch, FiniteSetTheorems, TLAPS

(***************************************************************************)
(* Sums of the values of a function over a finite set, as the models use   *)
(* them (SumFunctionOnSet of the community modules, a recursive function   *)
(* on the subsets of that set).  The provers cannot apply an induction     *)
(* theorem, but they can pick a smallest counterexample from a set; every  *)
(* induction below is of this form.                                        *)
(***************************************************************************)

\* A non-empty set of natural numbers has a least element.
LEMMA LeastNatural ==
  ASSUME NEW T, T \subseteq Nat, T # {}
  PROVE  \E m \in T : \A k \in T : m <= k
<1>1. PICK m \in T : \A k \in T : ~(<<k, m>> \in OpToRel(<, Nat))
  BY NatLessThanWellFounded, WFMin, Zenon
<1>2. \A k \in T : ~(k < m)
  BY <1>1, Zenon DEF OpToRel
<1> QED
  BY <1>2

\* A non-empty set of subsets of a finite set has a minimal element.
LEMMA MinimalSubset ==
  ASSUME NEW S, IsFiniteSet(S), NEW T, T \subseteq SUBSET S, T # {}
  PROVE  \E m \in T : \A k \in T : k \subseteq m => k = m
<1>1. T \subseteq FiniteSubsetsOf(S)
  BY FS_FiniteSubsetsOfFinite
<1>2. PICK m \in T : \A k \in T : ~(<<k, m>> \in StrictSubsetOrdering(S))
  BY <1>1, FS_StrictSubsetOrderingWellFounded, WFMin
<1> QED
  BY <1>2, Zenon DEF StrictSubsetOrdering

(***************************************************************************)
(* The recursive function exists.                                          *)
(***************************************************************************)

first(s) == CHOOSE x \in s : TRUE

step(f, s, g) == IF s = {} THEN 0 ELSE f[first(s)] + g[s \ {first(s)}]

sums(f, S, g) == g = [s \in SUBSET S |-> step(f, s, g)]

\* The subsets with at most n elements.
small(S, n) == {s \in SUBSET S : Cardinality(s) <= n}

\* The function exists on the subsets with at most n elements.
LEMMA SmallExists ==
  ASSUME NEW f, NEW S, IsFiniteSet(S), NEW n \in Nat
  PROVE  \E g : g = [s \in small(S, n) |-> step(f, s, g)]
<1> DEFINE P(k) == \E g : g = [s \in small(S, k) |-> step(f, s, g)]
           bad  == {k \in Nat : ~P(k)}
<1> SUFFICES ASSUME bad # {} PROVE FALSE
  OBVIOUS
<1>1. PICK m \in bad : \A k \in bad : m <= k
  BY LeastNatural, Zenon
<1>2. \A s \in SUBSET S : /\ IsFiniteSet(s) /\ Cardinality(s) \in Nat
                          /\ Cardinality(s) = 0 <=> s = {}
                          /\ s # {} => /\ s \ {first(s)} \in SUBSET S
                                       /\ Cardinality(s \ {first(s)}) = Cardinality(s) - 1
  <2> TAKE s \in SUBSET S
  <2>1. IsFiniteSet(s) /\ Cardinality(s) \in Nat /\ (Cardinality(s) = 0 <=> s = {})
    BY FS_Subset, FS_CardinalityType, FS_EmptySet
  <2>2. s # {} => first(s) \in s
    BY DEF first
  <2> QED
    BY <2>1, <2>2, FS_RemoveElement, Zenon
<1>3. CASE m = 0
  <2> DEFINE g == [s \in small(S, 0) |-> 0]
  <2>1. ASSUME NEW s \in small(S, 0)
        PROVE  s = {}
    <3>1. s \in SUBSET S /\ Cardinality(s) <= 0
      BY DEF small
    <3>2. Cardinality(s) \in Nat /\ (Cardinality(s) = 0 <=> s = {})
      BY <1>2, <3>1, Zenon
    <3> HIDE DEF bad
    <3> QED
      BY <3>1, <3>2
  <2>2. \A s \in small(S, 0) : step(f, s, g) = 0
    BY <2>1 DEF step
  <2>3. P(0)
    <3>1. g = [s \in small(S, 0) |-> step(f, s, g)]
      BY <2>2
    <3> QED
      BY <3>1
  <2> QED
    BY <1>3, <2>3
<1>4. CASE m # 0
  <2>1. m \in Nat /\ m - 1 \in Nat /\ P(m - 1)
    BY <1>1, <1>4
  <2>2. PICK h : h = [s \in small(S, m - 1) |-> step(f, s, h)]
    BY <2>1
  <2> DEFINE g == [s \in small(S, m) |-> step(f, s, h)]
  <2>3. ASSUME NEW s \in small(S, m)
        PROVE  step(f, s, h) = step(f, s, g)
    <3> DEFINE r == s \ {first(s)}
    <3>1. CASE s = {}
      BY <3>1 DEF step
    <3>2. CASE s # {}
      <4>1. r \in small(S, m - 1) /\ r \in small(S, m)
        BY <1>2, <2>1, <3>2 DEF small
      <4>2. h[r] = step(f, r, h) /\ g[r] = step(f, r, h)
        BY <2>2, <4>1
      <4> QED
        BY <3>2, <4>2 DEF step
    <3> QED
      BY <3>1, <3>2
  <2>4. g = [s \in small(S, m) |-> step(f, s, g)]
    BY <2>3
  <2>5. P(m)
    BY <2>4, Zenon
  <2> QED
    BY <2>5
<1> QED
  BY <1>3, <1>4

\* The function exists on all subsets.
LEMMA SumsExist ==
  ASSUME NEW f, NEW S, IsFiniteSet(S)
  PROVE  \E g : sums(f, S, g)
<1>1. Cardinality(S) \in Nat
  BY FS_CardinalityType
<1>2. small(S, Cardinality(S)) = SUBSET S
  BY FS_Subset DEF small
<1>3. \E g : g = [s \in small(S, Cardinality(S)) |-> step(f, s, g)]
  BY <1>1, SmallExists
<1> QED
  BY <1>2, <1>3 DEF sums

\* SumFunctionOnSet is such a function.
LEMMA SumIsOne ==
  ASSUME NEW f, NEW S, IsFiniteSet(S)
  PROVE  \E g : sums(f, S, g) /\ SumFunctionOnSet(f, S) = g[S]
<1>1. \E g : g = [s \in SUBSET S |-> step(f, s, g)]
  BY SumsExist, Zenon DEF sums
<1>2. \E g : /\ g = [s \in SUBSET S |-> step(f, s, g)]
             /\ SumFunctionOnSet(f, S) = g[S]
  BY <1>1, Zenon DEF SumFunctionOnSet, FoldFunctionOnSet, MapThenFoldSet, step, first
<1> QED
  BY <1>2 DEF sums

\* All of them agree.
LEMMA SumsUnique ==
  ASSUME NEW f, NEW S, IsFiniteSet(S), NEW R, NEW g, NEW h, sums(f, S, g), sums(f, R, h),
         NEW s, s \subseteq S, s \subseteq R
  PROVE  g[s] = h[s]
<1> DEFINE bad == {u \in SUBSET S : u \subseteq R /\ g[u] # h[u]}
<1> SUFFICES ASSUME bad # {} PROVE FALSE
  OBVIOUS
<1>1. PICK u \in bad : \A k \in bad : k \subseteq u => k = u
  <2>1. bad \subseteq SUBSET S
    OBVIOUS
  <2> HIDE DEF bad
  <2> QED
    BY <2>1, MinimalSubset
<1>2. g[u] = step(f, u, g) /\ h[u] = step(f, u, h)
  <2>1. u \in SUBSET S /\ u \in SUBSET R
    OBVIOUS
  <2>2. \A x \in SUBSET S : g[x] = step(f, x, g)
    BY Zenon DEF sums
  <2>3. \A x \in SUBSET R : h[x] = step(f, x, h)
    BY Zenon DEF sums
  <2> QED
    BY <2>1, <2>2, <2>3
<1>3. u # {}
  BY <1>2 DEF step
<1>4. first(u) \in u
  BY <1>3 DEF first
<1>5. g[u \ {first(u)}] = h[u \ {first(u)}]
  BY <1>1, <1>4
<1> QED
  BY <1>2, <1>5 DEF step

\* The recursive equation.
LEMMA SumFirst ==
  ASSUME NEW f, NEW S, IsFiniteSet(S)
  PROVE  SumFunctionOnSet(f, S) =
           IF S = {} THEN 0
           ELSE f[first(S)] + SumFunctionOnSet(f, S \ {first(S)})
<1> DEFINE R == S \ {first(S)}
<1>1. IsFiniteSet(R)
  BY FS_RemoveElement
<1>2. PICK g : sums(f, S, g) /\ SumFunctionOnSet(f, S) = g[S]
  BY SumIsOne
<1>3. PICK h : sums(f, R, h) /\ SumFunctionOnSet(f, R) = h[R]
  BY <1>1, SumIsOne
<1>4. g[R] = h[R]
  BY <1>2, <1>3, SumsUnique
<1>5. g[S] = step(f, S, g)
  BY <1>2 DEF sums
<1> QED
  BY <1>2, <1>3, <1>4, <1>5 DEF step

(***************************************************************************)
(* What the proofs use.                                                    *)
(***************************************************************************)

\* The empty sum.
LEMMA SumEmpty ==
  ASSUME NEW f
  PROVE  SumFunctionOnSet(f, {}) = 0
BY SumFirst, FS_EmptySet, Zenon

\* A sum of integers is an integer.
LEMMA SumInt ==
  ASSUME NEW S, IsFiniteSet(S), NEW f, \A x \in S : f[x] \in Int
  PROVE  SumFunctionOnSet(f, S) \in Int
<1> DEFINE bad == {u \in SUBSET S : SumFunctionOnSet(f, u) \notin Int}
<1> SUFFICES ASSUME bad # {} PROVE FALSE
  OBVIOUS
<1>1. PICK u \in bad : \A k \in bad : k \subseteq u => k = u
  <2>1. bad \subseteq SUBSET S
    OBVIOUS
  <2> HIDE DEF bad
  <2> QED
    BY <2>1, MinimalSubset
<1>2. IsFiniteSet(u)
  BY FS_Subset
<1>3. u # {}
  BY SumEmpty
<1>4. first(u) \in u
  BY <1>3 DEF first
<1>5. SumFunctionOnSet(f, u) = f[first(u)] + SumFunctionOnSet(f, u \ {first(u)})
  BY <1>2, <1>3, SumFirst
<1>6. SumFunctionOnSet(f, u \ {first(u)}) \in Int
  BY <1>1, <1>4
<1> QED
  BY <1>4, <1>5, <1>6

\* Any element may be taken out of the sum.
LEMMA SumRemove ==
  ASSUME NEW S, IsFiniteSet(S), NEW f, \A x \in S : f[x] \in Int, NEW e \in S
  PROVE  SumFunctionOnSet(f, S) = f[e] + SumFunctionOnSet(f, S \ {e})
<1> DEFINE T(u) == SumFunctionOnSet(f, u)
           bad  == {u \in SUBSET S : \E x \in u : T(u) # f[x] + T(u \ {x})}
<1> SUFFICES ASSUME bad # {} PROVE FALSE
  BY Zenon
<1>1. PICK u \in bad : \A k \in bad : k \subseteq u => k = u
  <2>1. bad \subseteq SUBSET S
    OBVIOUS
  <2> HIDE DEF bad
  <2> QED
    BY <2>1, MinimalSubset
<1>2. PICK x \in u : T(u) # f[x] + T(u \ {x})
  OBVIOUS
<1>3. \A k \in SUBSET S : IsFiniteSet(k) /\ T(k) \in Int
  <2> TAKE k \in SUBSET S
  <2>1. IsFiniteSet(k)
    BY FS_Subset
  <2> QED
    BY <2>1, SumInt
<1> DEFINE y == first(u)
<1>4. y \in u
  BY <1>2 DEF first
<1>5. T(u) = f[y] + T(u \ {y})
  BY <1>2, <1>3, SumFirst
<1>6. x # y
  BY <1>2, <1>5, Zenon
<1>7. T(u \ {y}) = f[x] + T((u \ {y}) \ {x})
  <2>1. u \ {y} \in SUBSET S /\ u \ {y} \notin bad /\ x \in u \ {y}
    BY <1>1, <1>4, <1>6, Zenon
  <2> QED
    BY <2>1, Zenon
<1>8. T(u \ {x}) = f[y] + T((u \ {x}) \ {y})
  <2>1. u \ {x} \in SUBSET S /\ u \ {x} \notin bad /\ y \in u \ {x}
    BY <1>1, <1>4, <1>6
  <2> QED
    BY <2>1, Zenon
<1>9. (u \ {y}) \ {x} = (u \ {x}) \ {y} /\ (u \ {x}) \ {y} \in SUBSET S
  OBVIOUS
<1>10. f[x] \in Int /\ f[y] \in Int /\ T((u \ {x}) \ {y}) \in Int
  BY <1>3, <1>4, <1>9
<1>11. T(u) = f[y] + (f[x] + T((u \ {x}) \ {y}))
  BY <1>5, <1>7, <1>9, Zenon
<1>12. f[x] + T(u \ {x}) = f[x] + (f[y] + T((u \ {x}) \ {y}))
  BY <1>8
<1> HIDE DEF T
<1>13. T(u) = f[x] + T(u \ {x})
  BY <1>10, <1>11, <1>12
<1> QED
  BY <1>2, <1>13

\* The sum of two functions is the sum of their sums.  As in the inductions that
\* follow, a smallest set of which this is not true has an element, and of the
\* rest it is true.
LEMMA SumAdd ==
  ASSUME NEW S, IsFiniteSet(S), NEW f, NEW g, NEW h,
         \A x \in S : f[x] \in Int /\ g[x] \in Int /\ h[x] = f[x] + g[x]
  PROVE  SumFunctionOnSet(h, S) = SumFunctionOnSet(f, S) + SumFunctionOnSet(g, S)
<1> DEFINE F(u) == SumFunctionOnSet(f, u)
           G(u) == SumFunctionOnSet(g, u)
           H(u) == SumFunctionOnSet(h, u)
           bad  == {u \in SUBSET S : H(u) # F(u) + G(u)}
<1> SUFFICES ASSUME bad # {} PROVE FALSE
  OBVIOUS
<1>1. PICK u \in bad : \A k \in bad : k \subseteq u => k = u
  <2>1. bad \subseteq SUBSET S
    OBVIOUS
  <2> HIDE DEF bad
  <2> QED
    BY <2>1, MinimalSubset
<1>2. \A k \in SUBSET S : IsFiniteSet(k) /\ \A x \in k : h[x] \in Int
  BY FS_Subset
<1>3. \A k \in SUBSET S : F(k) \in Int /\ G(k) \in Int
  BY <1>2, SumInt, Zenon
<1>4. PICK x : x \in u
  <2>1. H({}) = 0 /\ F({}) = 0 /\ G({}) = 0
    BY SumEmpty
  <2>2. H({}) = F({}) + G({})
    BY <2>1
  <2> HIDE DEF F, G, H
  <2> QED
    BY <2>2, Zenon
<1> DEFINE r == u \ {x}
<1>5. H(u) = h[x] + H(r) /\ F(u) = f[x] + F(r) /\ G(u) = g[x] + G(r)
  <2>1. IsFiniteSet(u) /\ \A y \in u : h[y] \in Int /\ f[y] \in Int /\ g[y] \in Int
    BY <1>2
  <2>2. H(u) = h[x] + H(r)
    BY <1>4, <2>1, SumRemove, Zenon
  <2>3. F(u) = f[x] + F(r)
    BY <1>4, <2>1, SumRemove, Zenon
  <2>4. G(u) = g[x] + G(r)
    BY <1>4, <2>1, SumRemove, Zenon
  <2> QED
    BY <2>2, <2>3, <2>4, Zenon
<1>6. r \in SUBSET S /\ r \notin bad
  BY <1>1, <1>4
<1>7. H(r) = F(r) + G(r) /\ H(u) # F(u) + G(u)
  BY <1>6
<1>8. h[x] = f[x] + g[x] /\ f[x] \in Int /\ g[x] \in Int
  BY <1>4
<1>9. F(r) \in Int /\ G(r) \in Int
  BY <1>3, <1>6
<1> HIDE DEF F, G, H, r, bad
<1> QED
  BY <1>5, <1>7, <1>8, <1>9

\* A factor can be taken out of a sum.
LEMMA SumScale ==
  ASSUME NEW S, IsFiniteSet(S), NEW f, NEW h, NEW c \in Int,
         \A x \in S : f[x] \in Int /\ h[x] = c * f[x]
  PROVE  SumFunctionOnSet(h, S) = c * SumFunctionOnSet(f, S)
<1> DEFINE F(u) == SumFunctionOnSet(f, u)
           H(u) == SumFunctionOnSet(h, u)
           bad  == {u \in SUBSET S : H(u) # c * F(u)}
<1> SUFFICES ASSUME bad # {} PROVE FALSE
  OBVIOUS
<1>1. PICK u \in bad : \A k \in bad : k \subseteq u => k = u
  <2>1. bad \subseteq SUBSET S
    OBVIOUS
  <2> HIDE DEF bad
  <2> QED
    BY <2>1, MinimalSubset
<1>2. \A k \in SUBSET S : IsFiniteSet(k) /\ \A x \in k : h[x] \in Int
  BY FS_Subset
<1>3. \A k \in SUBSET S : F(k) \in Int
  BY <1>2, SumInt, Zenon
<1>4. PICK x : x \in u
  <2>1. H({}) = 0 /\ F({}) = 0 /\ c * 0 = 0
    BY SumEmpty
  <2> QED
    BY <2>1, Zenon
<1> DEFINE r == u \ {x}
<1>5. H(u) = h[x] + H(r) /\ F(u) = f[x] + F(r)
  BY <1>2, <1>4, SumRemove, Zenon
<1>6. r \in SUBSET S /\ r \notin bad
  BY <1>1, <1>4
<1>7. H(r) = c * F(r) /\ H(u) # c * F(u)
  BY <1>6
<1>8. h[x] = c * f[x] /\ f[x] \in Int
  BY <1>4
<1>9. F(r) \in Int
  BY <1>3, <1>6
<1> HIDE DEF F, H, r, bad
<1>10. c * (f[x] + F(r)) = c * f[x] + c * F(r)
  BY <1>8, <1>9
<1> QED
  BY <1>5, <1>7, <1>8, <1>9, <1>10

\* A sum depends on the values at the elements of the set only.
LEMMA SumSame ==
  ASSUME NEW S, IsFiniteSet(S), NEW f, NEW g, \A x \in S : f[x] \in Int /\ g[x] = f[x]
  PROVE  SumFunctionOnSet(g, S) = SumFunctionOnSet(f, S)
<1>1. \A x \in S : f[x] \in Int /\ g[x] = 1 * f[x]
  OBVIOUS
<1>2. SumFunctionOnSet(g, S) = 1 * SumFunctionOnSet(f, S)
  BY <1>1, SumScale
<1>3. SumFunctionOnSet(f, S) \in Int
  BY SumInt
<1> QED
  BY <1>2, <1>3

\* A sum of smaller values is smaller.
LEMMA SumMonotonic ==
  ASSUME NEW S, IsFiniteSet(S), NEW f, NEW g,
         \A x \in S : f[x] \in Int /\ g[x] \in Int /\ f[x] <= g[x]
  PROVE  SumFunctionOnSet(f, S) <= SumFunctionOnSet(g, S)
<1> DEFINE F(u) == SumFunctionOnSet(f, u)
           G(u) == SumFunctionOnSet(g, u)
           bad  == {u \in SUBSET S : ~(F(u) <= G(u))}
<1> SUFFICES ASSUME bad # {} PROVE FALSE
  OBVIOUS
<1>1. PICK u \in bad : \A k \in bad : k \subseteq u => k = u
  <2>1. bad \subseteq SUBSET S
    OBVIOUS
  <2> HIDE DEF bad
  <2> QED
    BY <2>1, MinimalSubset
<1>2. \A k \in SUBSET S : IsFiniteSet(k)
  BY FS_Subset
<1>3. \A k \in SUBSET S : F(k) \in Int /\ G(k) \in Int
  BY <1>2, SumInt
<1>4. PICK x : x \in u
  <2>1. F({}) = 0 /\ G({}) = 0
    BY SumEmpty
  <2> QED
    BY <2>1
<1> DEFINE r == u \ {x}
<1>5. F(u) = f[x] + F(r) /\ G(u) = g[x] + G(r)
  BY <1>2, <1>4, SumRemove
<1>6. r \in SUBSET S /\ r \notin bad
  BY <1>1, <1>4
<1>7. F(r) <= G(r) /\ ~(F(u) <= G(u))
  BY <1>6
<1>8. f[x] <= g[x] /\ f[x] \in Int /\ g[x] \in Int
  BY <1>4
<1>9. F(r) \in Int /\ G(r) \in Int
  BY <1>3, <1>6
<1> HIDE DEF F, G, r, bad
<1> QED
  BY <1>5, <1>7, <1>8, <1>9

\* A sum of equal values is a multiple of the number of elements.
LEMMA SumConstant ==
  ASSUME NEW S, IsFiniteSet(S), NEW f, NEW c \in Int, \A x \in S : f[x] = c
  PROVE  SumFunctionOnSet(f, S) = Cardinality(S) * c
<1> DEFINE F(u) == SumFunctionOnSet(f, u)
           bad  == {u \in SUBSET S : F(u) # Cardinality(u) * c}
<1> SUFFICES ASSUME bad # {} PROVE FALSE
  OBVIOUS
<1>1. PICK u \in bad : \A k \in bad : k \subseteq u => k = u
  <2>1. bad \subseteq SUBSET S
    OBVIOUS
  <2> HIDE DEF bad
  <2> QED
    BY <2>1, MinimalSubset
<1>2. \A k \in SUBSET S : IsFiniteSet(k) /\ Cardinality(k) \in Nat
  BY FS_Subset, FS_CardinalityType
<1>3. PICK x : x \in u
  <2>1. F({}) = 0 /\ Cardinality({}) = 0 /\ 0 * c = 0
    BY SumEmpty, FS_EmptySet
  <2> QED
    BY <2>1, Zenon
<1> DEFINE r == u \ {x}
<1>4. F(u) = f[x] + F(r)
  BY <1>2, <1>3, SumRemove
<1>5. r \in SUBSET S /\ r \notin bad
  BY <1>1, <1>3
<1>6. F(r) = Cardinality(r) * c /\ F(u) # Cardinality(u) * c /\ f[x] = c
  BY <1>3, <1>5
<1>7. Cardinality(u) = Cardinality(r) + 1 /\ Cardinality(r) \in Nat
  BY <1>2, <1>3, <1>5, FS_RemoveElement
<1> HIDE DEF F, r, bad
<1>8. (Cardinality(r) + 1) * c = c + Cardinality(r) * c
  BY <1>7
<1> QED
  BY <1>4, <1>6, <1>7, <1>8

\* A sum of n values between c and d is between n * c and n * d.
LEMMA SumBounds ==
  ASSUME NEW S, IsFiniteSet(S), NEW f, NEW c \in Int, NEW d \in Int,
         \A x \in S : f[x] \in Int /\ c <= f[x] /\ f[x] <= d
  PROVE  /\ Cardinality(S) * c <= SumFunctionOnSet(f, S)
         /\ SumFunctionOnSet(f, S) <= Cardinality(S) * d
<1> DEFINE low  == [x \in S |-> c]
           high == [x \in S |-> d]
<1>1. \A x \in S : low[x] = c /\ high[x] = d
  OBVIOUS
<1> HIDE DEF low, high
<1>2. SumFunctionOnSet(low, S) = Cardinality(S) * c
  BY <1>1, SumConstant
<1>3. SumFunctionOnSet(high, S) = Cardinality(S) * d
  BY <1>1, SumConstant
<1>4. SumFunctionOnSet(low, S) <= SumFunctionOnSet(f, S)
  BY <1>1, SumMonotonic
<1>5. SumFunctionOnSet(f, S) <= SumFunctionOnSet(high, S)
  BY <1>1, SumMonotonic
<1> QED
  BY <1>2, <1>3, <1>4, <1>5

\* A sum of natural numbers is a natural number.
LEMMA SumNat ==
  ASSUME NEW S, IsFiniteSet(S), NEW f, \A x \in S : f[x] \in Nat
  PROVE  SumFunctionOnSet(f, S) \in Nat
<1> DEFINE none == [x \in S |-> 0]
<1>1. \A x \in S : none[x] = 0 /\ f[x] \in Int /\ none[x] <= f[x]
  OBVIOUS
<1> HIDE DEF none
<1>2. SumFunctionOnSet(none, S) = Cardinality(S) * 0 /\ Cardinality(S) \in Nat
  BY <1>1, SumConstant, FS_CardinalityType
<1>3. SumFunctionOnSet(none, S) <= SumFunctionOnSet(f, S)
  BY <1>1, SumMonotonic
<1>4. SumFunctionOnSet(f, S) \in Int
  BY <1>1, SumInt
<1> QED
  BY <1>2, <1>3, <1>4

\* Changing one value changes the sum by the difference.
LEMMA SumUpdate ==
  ASSUME NEW S, IsFiniteSet(S), NEW f, NEW g, NEW e \in S,
         \A x \in S : f[x] \in Int /\ g[x] \in Int,
         \A x \in S : x # e => g[x] = f[x]
  PROVE  SumFunctionOnSet(g, S) = SumFunctionOnSet(f, S) - f[e] + g[e]
<1> DEFINE R == S \ {e}
<1>1. IsFiniteSet(R)
  BY FS_RemoveElement
<1>2. /\ SumFunctionOnSet(g, S) = g[e] + SumFunctionOnSet(g, R)
      /\ SumFunctionOnSet(f, S) = f[e] + SumFunctionOnSet(f, R)
  BY SumRemove
<1>3. SumFunctionOnSet(f, R) \in Int
  BY <1>1, SumInt
<1>4. SumFunctionOnSet(g, R) = 1 * SumFunctionOnSet(f, R)
  <2>1. \A x \in R : f[x] \in Int /\ g[x] = 1 * f[x]
    OBVIOUS
  <2> QED
    BY <1>1, <2>1, SumScale
<1> QED
  BY <1>2, <1>3, <1>4

\* The order of summation does not matter.
LEMMA SumPermute ==
  ASSUME NEW S, IsFiniteSet(S), NEW T, IsFiniteSet(T), NEW p \in Bijection(S, T),
         NEW f, NEW g, \A z \in T : f[z] \in Int, \A x \in S : g[x] = f[p[x]]
  PROVE  SumFunctionOnSet(g, S) = SumFunctionOnSet(f, T)
<1> SUFFICES ASSUME p \in [S -> T], \A x, y \in S : p[x] = p[y] => x = y,
                    \A z \in T : \E x \in S : p[x] = z
             PROVE  SumFunctionOnSet(g, S) = SumFunctionOnSet(f, T)
  BY DEF Bijection, Injection, Surjection, IsInjective
<1> DEFINE image(u) == {p[x] : x \in u}
           F(u) == SumFunctionOnSet(f, u)
           G(u) == SumFunctionOnSet(g, u)
           bad  == {u \in SUBSET S : G(u) # F(image(u))}
<1>0. image(S) = T
  OBVIOUS
<1> SUFFICES ASSUME bad # {} PROVE FALSE
  BY <1>0
<1>1. PICK u \in bad : \A k \in bad : k \subseteq u => k = u
  <2>1. bad \subseteq SUBSET S
    OBVIOUS
  <2> HIDE DEF bad
  <2> QED
    BY <2>1, MinimalSubset
<1>2. \A k \in SUBSET S : IsFiniteSet(k) /\ IsFiniteSet(image(k)) /\ image(k) \subseteq T
  <2>1. \A k \in SUBSET S : image(k) \in SUBSET T
    OBVIOUS
  <2> HIDE DEF image
  <2> QED
    BY <2>1, FS_Subset
<1>3. PICK x : x \in u
  <2>1. image({}) = {}
    OBVIOUS
  <2>2. G({}) = 0 /\ F({}) = 0
    BY SumEmpty
  <2> QED
    BY <2>1, <2>2
<1> DEFINE r == u \ {x}
<1>4. r \in SUBSET S /\ r \notin bad
  BY <1>1, <1>3
<1>5. image(r) = image(u) \ {p[x]} /\ p[x] \in image(u)
  BY <1>3
<1>6. G(u) = g[x] + G(r)
  <2>1. (\A y \in u : g[y] \in Int) /\ IsFiniteSet(u)
    BY <1>2, Zenon
  <2> HIDE DEF bad
  <2> QED
    BY <1>3, <2>1, SumRemove
<1>7. F(image(u)) = f[p[x]] + F(image(u) \ {p[x]})
  <2>1. \A z \in image(u) : f[z] \in Int
    OBVIOUS
  <2>2. IsFiniteSet(image(u))
    BY <1>2, Zenon
  <2> HIDE DEF image, bad
  <2> QED
    BY <1>5, <2>1, <2>2, SumRemove
<1>8. G(r) = F(image(r)) /\ G(u) # F(image(u))
  BY <1>4
<1>9. g[x] = f[p[x]]
  BY <1>3
<1> HIDE DEF image, bad, F, G, r
<1> QED
  BY <1>5, <1>6, <1>7, <1>8, <1>9

(***************************************************************************)
(* Batches.                                                                *)
(***************************************************************************)

\* Sequences are functions on their positions.
LEMMA SeqIsFunction ==
  ASSUME NEW S, NEW seq \in Seq(S)
  PROVE  Len(seq) \in Nat /\ seq \in [1..Len(seq) -> S]
OBVIOUS

\* A function on 1..n is a sequence.
LEMMA FunctionIsSeq ==
  ASSUME NEW S, NEW n \in Nat, NEW f \in [1..n -> S]
  PROVE  f \in Seq(S) /\ Len(f) = n
OBVIOUS

\* The least and the greatest of two integers.
LEMMA MinMaxOfTwo ==
  ASSUME NEW x \in Int, NEW y \in Int
  PROVE  /\ Min({x, y}) = IF x <= y THEN x ELSE y
         /\ Max({x, y}) = IF x <= y THEN y ELSE x
BY DEF Min, Max

\* seek_time: a seek costs nothing at the head's position, and SEEK_CAP at most.
LEMMA SeekTime ==
  ASSUME NEW o1 \in Nat, NEW o2 \in Nat
  PROVE  seek_time(o1, o2) \in 0..SEEK_CAP /\ seek_time(o1, o1) = 0
BY MinMaxOfTwo, IoBatchAssumption DEF seek_time, offset_diff

\* An injection of a finite set into itself leaves no element out.
LEMMA InjectionIsOnto ==
  ASSUME NEW S, IsFiniteSet(S), NEW p \in Injection(S, S)
  PROVE  p \in Bijection(S, S)
<1>1. p \in [S -> S] /\ \A x, y \in S : p[x] = p[y] => x = y
  BY DEF Injection, IsInjective
<1>2. \A t \in S : \E s \in S : p[s] = t
  <2> SUFFICES ASSUME NEW t \in S, \A s \in S : p[s] # t PROVE FALSE
    OBVIOUS
  <2>1. p \in [S -> S \ {t}]
    BY <1>1
  <2>2. IsFiniteSet(S \ {t}) /\ Cardinality(S \ {t}) = Cardinality(S) - 1
    BY FS_RemoveElement
  <2>3. Cardinality(S) \in Nat
    BY FS_CardinalityType
  <2>4. Cardinality(S \ {t}) < Cardinality(S)
    BY <2>2, <2>3
  <2>5. \E x, y \in S : x # y /\ p[x] = p[y]
    BY <2>1, <2>2, <2>4, FS_PigeonHole, Zenon
  <2> QED
    BY <1>1, <2>5, Zenon
<1> QED
  BY <1>1, <1>2, Zenon DEF Bijection, Injection, Surjection

Request == [offset : Nat, size : Nat]

sizes(reqs) == [i \in 1..Len(reqs) |-> reqs[i].size]

\* The bytes of a batch are the sizes of its requests.
LEMMA SizesSum ==
  ASSUME NEW reqs \in Seq(Request)
  PROVE  /\ SumFunction(sizes(reqs)) = SumFunctionOnSet(sizes(reqs), 1..Len(reqs))
         /\ IsFiniteSet(1..Len(reqs)) /\ Cardinality(1..Len(reqs)) = Len(reqs)
         /\ \A i \in 1..Len(reqs) : sizes(reqs)[i] \in Nat
<1>1. Len(reqs) \in Nat
  OBVIOUS
<1>2. \A i \in 1..Len(reqs) : reqs[i] \in Request
  OBVIOUS
<1>3. IsFiniteSet(1..Len(reqs)) /\ Cardinality(1..Len(reqs)) = Len(reqs)
  <2> DEFINE n == Len(reqs)
  <2>1. n \in Nat /\ 1 \in Int /\ n \in Int
    BY <1>1
  <2> HIDE DEF n
  <2>2. IsFiniteSet(1..n) /\ Cardinality(1..n) = IF 1 > n THEN 0 ELSE n - 1 + 1
    BY <2>1, FS_Interval
  <2>3. IsFiniteSet(1..n) /\ Cardinality(1..n) = n
    BY <2>1, <2>2
  <2> QED
    BY <2>3 DEF n
<1>4. DOMAIN sizes(reqs) = 1..Len(reqs)
  BY DEF sizes
<1>5. \A i \in 1..Len(reqs) : sizes(reqs)[i] \in Nat
  BY <1>2 DEF sizes, Request
<1> QED
  BY <1>3, <1>4, <1>5 DEF SumFunction

\* A sorted batch holds the same requests.
LEMMA SortIsPermutation ==
  ASSUME NEW reqs \in Seq(Request), NEW r \in iobatch_scan_sort(reqs)
  PROVE  \E p \in Bijection(1..Len(reqs), 1..Len(reqs)) :
           r = [i \in 1..Len(reqs) |-> reqs[p[i]]]
<1>1. PICK p \in Injection(1..Len(reqs), 1..Len(reqs)) :
        r = [i \in 1..Len(reqs) |-> reqs[p[i]]]
  BY Zenon DEF iobatch_scan_sort
<1>2. p \in Bijection(1..Len(reqs), 1..Len(reqs))
  BY SizesSum, InjectionIsOnto, Zenon
<1> QED
  BY <1>1, <1>2

\* iobatch_get_cost: whatever the order sort() leaves the requests in, a
\* batch costs one seek and its bytes at least, and a full seek before every
\* request and its bytes at most.
LEMMA ScanCost ==
  ASSUME NEW reqs \in Seq(Request), reqs # <<>>, NEW r \in iobatch_scan_sort(reqs)
  PROVE  /\ scan_cost(r) \in Nat
         /\ SEEK_CAP + SumFunction(sizes(reqs)) <= scan_cost(r)
         /\ scan_cost(r) <= Len(reqs) * SEEK_CAP + SumFunction(sizes(reqs))
<1> DEFINE n == Len(reqs)
           S == 1..n
           head(i) == IF i = 1 THEN r[1].offset ELSE r[i - 1].offset + r[i - 1].size
           seeks == [i \in S |-> seek_time(head(i), r[i].offset)]
           costs == [i \in S |-> disk_simulate_request(head(i), r[i])]
<1>1. n \in Nat /\ n >= 1 /\ SEEK_CAP \in Nat
  BY IoBatchAssumption
<1>2. PICK p \in Bijection(S, S) : r = [i \in S |-> reqs[p[i]]]
  BY SortIsPermutation
<1>3. p \in [S -> S]
  BY DEF Bijection, Injection, Surjection
<1>4. r \in Seq(Request) /\ Len(r) = n
  <2>1. \A i \in S : reqs[i] \in Request
    OBVIOUS
  <2>2. r \in [1..n -> Request]
    BY <1>2, <1>3, <2>1
  <2> HIDE DEF n
  <2> QED
    BY <1>1, <2>2, FunctionIsSeq
<1>5. \A i \in S : r[i].offset \in Nat /\ r[i].size \in Nat
  <2>1. \A i \in S : r[i] \in Request
    BY <1>4, SeqIsFunction
  <2> QED
    BY <2>1 DEF Request
<1>6. \A i \in S : head(i) \in Nat
  <2> SUFFICES ASSUME NEW i \in S PROVE head(i) \in Nat
    OBVIOUS
  <2>1. 1 \in S /\ (i # 1 => i - 1 \in S)
    BY <1>1
  <2> QED
    BY <1>5, <2>1
<1>7. \A i \in S : seeks[i] \in Int /\ 0 <= seeks[i] /\ seeks[i] <= SEEK_CAP
  <2> SUFFICES ASSUME NEW i \in S PROVE seek_time(head(i), r[i].offset) \in 0..SEEK_CAP
    BY <1>1
  <2>1. head(i) \in Nat /\ r[i].offset \in Nat
    BY <1>5, <1>6
  <2> QED
    BY <2>1, SeekTime, Zenon
<1>8. 1 \in S /\ seeks[1] = 0
  <2>1. 1 \in S
    BY <1>1
  <2>2. r[1].offset \in Nat
    BY <1>5, <2>1
  <2> QED
    BY <2>1, <2>2, SeekTime, Zenon
<1>9. \A i \in S : costs[i] = sizes(r)[i] + seeks[i]
  BY <1>4 DEF disk_simulate_request, sizes
<1>10. scan_cost(r) = SEEK_CAP + SumFunctionOnSet(costs, S)
  BY <1>4 DEF scan_cost, SumFunction
<1>11. IsFiniteSet(S) /\ Cardinality(S) = n
  BY SizesSum
<1>12. \A i \in S : /\ sizes(r)[i] \in Int /\ sizes(r)[i] \in Nat
                    /\ sizes(reqs)[i] \in Int
                    /\ sizes(r)[i] = sizes(reqs)[p[i]]
  <2>1. \A i \in S : sizes(r)[i] \in Nat /\ sizes(reqs)[i] \in Nat
    BY <1>4, SizesSum
  <2>2. \A i \in S : sizes(r)[i] = sizes(reqs)[p[i]]
    BY <1>2, <1>3, <1>4 DEF sizes
  <2> QED
    BY <2>1, <2>2
<1>13. SumFunction(sizes(reqs)) = SumFunctionOnSet(sizes(reqs), S)
  BY SizesSum
<1> HIDE DEF seeks, costs, S, n
<1>14. IsFiniteSet(S \ {1}) /\ Cardinality(S \ {1}) = n - 1
  BY <1>8, <1>11, FS_RemoveElement
<1>15. SumFunctionOnSet(costs, S) = SumFunctionOnSet(sizes(r), S) + SumFunctionOnSet(seeks, S)
  BY <1>7, <1>9, <1>11, <1>12, SumAdd
<1>16. SumFunctionOnSet(sizes(r), S) = SumFunctionOnSet(sizes(reqs), S)
  <2>1. \A i \in S : sizes(r)[i] = sizes(reqs)[p[i]]
    BY <1>12
  <2>2. \A i \in S : sizes(reqs)[i] \in Int
    BY <1>12
  <2> QED
    BY <1>11, <2>1, <2>2, SumPermute
<1>17. SumFunctionOnSet(sizes(r), S) \in Nat
  BY <1>11, <1>12, SumNat
<1>18. /\ SumFunctionOnSet(seeks, S) = seeks[1] + SumFunctionOnSet(seeks, S \ {1})
       /\ SumFunctionOnSet(seeks, S \ {1}) \in Int
  BY <1>7, <1>8, <1>11, <1>14, SumRemove, SumInt, Zenon
<1>19. /\ (n - 1) * 0 <= SumFunctionOnSet(seeks, S \ {1})
       /\ SumFunctionOnSet(seeks, S \ {1}) <= (n - 1) * SEEK_CAP
  <2>1. SEEK_CAP \in Int /\ 0 \in Int
    BY <1>1
  <2> QED
    BY <1>7, <1>14, <2>1, SumBounds, Zenon
<1> QED
  BY <1>1, <1>8, <1>10, <1>13, <1>15, <1>16, <1>17, <1>18, <1>19 DEF n

(***************************************************************************)
(* What holds of a batch at all times: a cost is cached for an empty batch *)
(* only, and bytes is the sum of the sizes.                                *)
(***************************************************************************)

batch_sound(b) ==
  /\ b \in BatchType
  /\ b.cost = -1 \/ (b.cost = 0 /\ b.reqs = <<>>)
  /\ b.bytes = SumFunction(sizes(b.reqs))

\* No requests have no size.
LEMMA NoSizes ==
  SumFunction(sizes(<<>>)) = 0
<1>1. DOMAIN sizes(<<>>) = {}
  BY DEF sizes
<1> QED
  BY <1>1, SumEmpty DEF SumFunction

\* iobatch_new and iobatch_clear leave an empty batch.
LEMMA NewSound ==
  batch_sound(iobatch_new) /\ ~iobatch_full(iobatch_new)
BY NoSizes, IoBatchAssumption DEF batch_sound, iobatch_new, iobatch_full, BatchType

\* An empty batch whose cost was asked for.
empty_cached == [reqs |-> <<>>, cost |-> 0, bytes |-> 0]

\* An empty batch with its cost cached is sound.
LEMMA EmptySound ==
  batch_sound(empty_cached) /\ ~iobatch_full(empty_cached)
BY NoSizes, IoBatchAssumption DEF batch_sound, empty_cached, iobatch_full, BatchType

\* A request that is merged with grows by its size.
LEMMA RequestGrows ==
  ASSUME NEW q \in Request, NEW sz \in Nat
  PROVE  [q EXCEPT !.size = @ + sz] \in Request
BY DEF Request

\* add_or_merge: the sizes sum up to one request more, also when the request
\* is merged with the one before it.
LEMMA AddOrMerge ==
  ASSUME NEW reqs \in Seq(Request), NEW off \in Nat, NEW sz \in Nat
  PROVE  /\ add_or_merge(reqs, off, sz) \in Seq(Request)
         /\ add_or_merge(reqs, off, sz) # <<>>
         /\ SumFunction(sizes(add_or_merge(reqs, off, sz))) = SumFunction(sizes(reqs)) + sz
<1> DEFINE n == Len(reqs)
           new == add_or_merge(reqs, off, sz)
<1>1. n \in Nat /\ \A i \in 1..n : reqs[i] \in Request /\ reqs[i].size \in Nat
  <2>1. n \in Nat /\ \A i \in 1..n : reqs[i] \in Request
    BY SeqIsFunction
  <2> QED
    BY <2>1 DEF Request
<1>2. SumFunctionOnSet(sizes(reqs), 1..n) = SumFunction(sizes(reqs)) /\ IsFiniteSet(1..n)
  BY SizesSum
<1>3. SumFunction(sizes(reqs)) \in Int
  <2>1. \A i \in 1..n : sizes(reqs)[i] \in Int
    BY SizesSum
  <2> QED
    BY <1>2, <2>1, SumInt
<1>4. CASE n > 0 /\ off = reqs[n].offset + reqs[n].size
  <2>1. new = [reqs EXCEPT ![n].size = @ + sz]
    BY <1>4 DEF add_or_merge
  <2>2. n \in 1..n
    BY <1>1, <1>4
  <2>3. new \in [1..n -> Request]
    <3> DEFINE last == [reqs[n] EXCEPT !.size = @ + sz]
    <3>1. last \in Request
      BY <1>1, <2>2, RequestGrows
    <3>2. reqs \in [1..n -> Request]
      BY SeqIsFunction
    <3>3. new = [reqs EXCEPT ![n] = last]
      BY <2>1
    <3> HIDE DEF last, new, n
    <3> QED
      BY <3>1, <3>2, <3>3, Zenon
  <2>4. new \in Seq(Request) /\ Len(new) = n
    <3> HIDE DEF n, new
    <3> QED
      BY <1>1, <2>3, FunctionIsSeq
  <2>5. \A i \in 1..n : i # n => new[i] = reqs[i]
    BY <2>1
  <2>6. new[n].size = reqs[n].size + sz
    BY <1>1, <2>1, <2>2 DEF Request
  <2> HIDE DEF new
  <2>7. \A i \in 1..n : i # n => sizes(new)[i] = sizes(reqs)[i]
    BY <2>4, <2>5 DEF sizes
  <2>8. sizes(new)[n] = sizes(reqs)[n] + sz
    BY <2>2, <2>4, <2>6 DEF sizes
  <2>9. \A i \in 1..n : sizes(reqs)[i] \in Int /\ sizes(new)[i] \in Int
    BY <2>4, SizesSum
  <2>10. SumFunction(sizes(new)) = SumFunctionOnSet(sizes(new), 1..n)
    BY <2>4, SizesSum
  <2> HIDE DEF n
  <2>11. SumFunctionOnSet(sizes(new), 1..n) =
           SumFunctionOnSet(sizes(reqs), 1..n) - sizes(reqs)[n] + sizes(new)[n]
    <3> DEFINE S == 1..n
    <3>1. /\ n \in S /\ IsFiniteSet(S) /\ \A i \in S : i # n => sizes(new)[i] = sizes(reqs)[i]
          /\ \A i \in S : sizes(reqs)[i] \in Int /\ sizes(new)[i] \in Int
      BY <1>2, <2>2, <2>7, <2>9
    <3> HIDE DEF S
    <3>2. SumFunctionOnSet(sizes(new), S) =
            SumFunctionOnSet(sizes(reqs), S) - sizes(reqs)[n] + sizes(new)[n]
      BY <3>1, SumUpdate
    <3> QED
      BY <3>2 DEF S
  <2>12. sizes(reqs)[n] \in Int
    BY <2>2, <2>9
  <2>13. SumFunction(sizes(new)) = SumFunction(sizes(reqs)) + sz
    BY <1>2, <1>3, <2>8, <2>10, <2>11, <2>12
  <2>14. new # <<>>
    BY <1>1, <1>4, <2>4
  <2> QED
    BY <2>4, <2>13, <2>14 DEF new
<1>5. CASE ~(n > 0 /\ off = reqs[n].offset + reqs[n].size)
  <2> DEFINE e == n + 1
  <2>1. new = Append(reqs, [offset |-> off, size |-> sz])
    BY <1>5 DEF add_or_merge
  <2>2. new \in Seq(Request) /\ Len(new) = e
    BY <2>1 DEF Request
  <2>3. \A i \in 1..n : new[i] = reqs[i]
    BY <2>1
  <2>4. new[e].size = sz
    BY <2>1
  <2>5. e \in 1..e /\ (1..e) \ {e} = 1..n /\ 1..n \subseteq 1..e /\ e \in Nat
    BY <1>1
  <2> HIDE DEF new
  <2>6. \A i \in 1..n : sizes(new)[i] = sizes(reqs)[i]
    BY <2>2, <2>3, <2>5 DEF sizes
  <2>7. sizes(new)[e] = sz
    BY <2>2, <2>4, <2>5 DEF sizes
  <2>8. /\ IsFiniteSet(1..e) /\ \A i \in 1..e : sizes(new)[i] \in Int
        /\ SumFunction(sizes(new)) = SumFunctionOnSet(sizes(new), 1..e)
    BY <2>2, SizesSum
  <2> HIDE DEF e, n
  <2>9. SumFunctionOnSet(sizes(new), 1..e) = sz + SumFunctionOnSet(sizes(new), 1..n)
    <3>1. SumFunctionOnSet(sizes(new), 1..e) = sz + SumFunctionOnSet(sizes(new), (1..e) \ {e})
      BY <2>5, <2>7, <2>8, SumRemove, Zenon
    <3> QED
      BY <2>5, <3>1, Zenon
  <2>10. SumFunctionOnSet(sizes(new), 1..n) = SumFunctionOnSet(sizes(reqs), 1..n)
    <3>1. \A i \in 1..n : sizes(reqs)[i] \in Int /\ sizes(new)[i] = sizes(reqs)[i]
      BY <2>5, <2>6, <2>8
    <3> QED
      BY <1>2, <3>1, SumSame, Zenon
  <2>11. new # <<>>
    BY <2>2, <2>5
  <2>12. SumFunction(sizes(new)) = SumFunction(sizes(reqs)) + sz
    BY <1>2, <1>3, <2>8, <2>9, <2>10
  <2> QED
    BY <2>2, <2>11, <2>12 DEF new
<1> QED
  BY <1>4, <1>5

\* iobatch_add_request keeps a batch that is not full sound, takes the
\* request, and forgets the cached cost.
LEMMA AddSound ==
  ASSUME NEW b, batch_sound(b), ~iobatch_full(b), NEW off \in Nat, NEW sz \in Nat
  PROVE  /\ batch_sound(iobatch_add_request(b, off, sz))
         /\ iobatch_add_request(b, off, sz).reqs # <<>>
<1> DEFINE reqs == add_or_merge(b.reqs, off, sz)
<1>1. /\ b \in [reqs : Seq(Request), cost : Int, bytes : Nat]
      /\ b.bytes = SumFunction(sizes(b.reqs))
  BY DEF batch_sound, BatchType, Request
<1>2. /\ reqs \in Seq(Request) /\ reqs # <<>>
      /\ SumFunction(sizes(reqs)) = SumFunction(sizes(b.reqs)) + sz
  BY <1>1, AddOrMerge, Zenon
<1>3. iobatch_add_request(b, off, sz) =
        [b EXCEPT !.reqs = reqs, !.cost = -1, !.bytes = @ + sz]
  BY DEF iobatch_add_request
<1> HIDE DEF reqs
<1>4. iobatch_add_request(b, off, sz) = [reqs |-> reqs, cost |-> -1, bytes |-> b.bytes + sz]
  BY <1>1, <1>3, Zenon
<1>5. b.bytes + sz \in Nat
  BY <1>1
<1> QED
  BY <1>1, <1>2, <1>4, <1>5 DEF batch_sound, BatchType, Request

\* iobatch_get_cost of a sound batch: the costs that it may return.
LEMMA CostOfSound ==
  ASSUME NEW b, batch_sound(b)
  PROVE  /\ iobatch_get_cost(b) \subseteq Nat
         /\ iobatch_get_cost([b EXCEPT !.cost = -1]) = iobatch_get_cost(b)
         /\ b.reqs = <<>> => iobatch_get_cost(b) = {0}
         /\ b.reqs # <<>> => \A c \in iobatch_get_cost(b) :
              /\ SEEK_CAP + b.bytes <= c
              /\ c <= Len(b.reqs) * SEEK_CAP + b.bytes
<1>1. /\ b \in [reqs : Seq(Request), cost : Int, bytes : Nat]
      /\ b.bytes = SumFunction(sizes(b.reqs))
      /\ b.cost = -1 \/ (b.cost = 0 /\ b.reqs = <<>>)
  BY DEF batch_sound, BatchType, Request
<1>2. iobatch_get_cost([b EXCEPT !.cost = -1]) = iobatch_get_cost(b)
  BY <1>1, Zenon DEF iobatch_get_cost
<1>3. CASE b.reqs = <<>>
  BY <1>1, <1>2, <1>3 DEF iobatch_get_cost
<1>4. CASE b.reqs # <<>>
  <2>1. iobatch_get_cost(b) = {scan_cost(r) : r \in iobatch_scan_sort(b.reqs)}
    BY <1>1, <1>4 DEF iobatch_get_cost
  <2>2. \A r \in iobatch_scan_sort(b.reqs) :
          /\ scan_cost(r) \in Nat
          /\ SEEK_CAP + b.bytes <= scan_cost(r)
          /\ scan_cost(r) <= Len(b.reqs) * SEEK_CAP + b.bytes
    BY <1>1, <1>4, ScanCost
  <2> QED
    BY <1>2, <1>4, <2>1, <2>2
<1> QED
  BY <1>3, <1>4

\* A finite set has an element whose value is the greatest.
LEMMA GreatestValue ==
  ASSUME NEW S, IsFiniteSet(S), S # {}, NEW f, \A x \in S : f[x] \in Int
  PROVE  \E x \in S : \A y \in S : f[y] <= f[x]
<1> DEFINE great(u) == \E x \in u : \A y \in u : f[y] <= f[x]
           bad      == {u \in SUBSET S : u # {} /\ ~great(u)}
<1> SUFFICES ASSUME bad # {} PROVE FALSE
  OBVIOUS
<1>1. bad \subseteq SUBSET S
  OBVIOUS
<1>2. \A u : u \in bad <=> u \in SUBSET S /\ u # {} /\ ~great(u)
  OBVIOUS
<1> HIDE DEF bad
<1>3. PICK u \in bad : \A k \in bad : k \subseteq u => k = u
  BY <1>1, MinimalSubset
<1>4. PICK z \in u : TRUE
  BY <1>2, Zenon
<1> DEFINE r == u \ {z}
<1>5. \A x \in u : x \in S /\ f[x] \in Int
  BY <1>1
<1>6. CASE r = {}
  <2>1. \A y \in u : y = z
    BY <1>6
  <2>2. great(u)
    BY <1>5, <2>1
  <2> QED
    BY <1>2, <2>2, Zenon
<1>7. CASE r # {}
  <2>1. r \in SUBSET S /\ r \subseteq u /\ r # u
    BY <1>1
  <2>2. great(r)
    <3> HIDE DEF great, r
    <3> QED
      BY <1>2, <1>3, <1>7, <2>1, Zenon
  <2>3. PICK x \in r : \A y \in r : f[y] <= f[x]
    BY <2>2
  <2>4. CASE f[z] <= f[x]
    BY <1>2, <2>3, <2>4
  <2>5. CASE ~(f[z] <= f[x])
    <3>1. \A y \in u : f[y] <= f[z]
      BY <1>5, <2>3, <2>5
    <3> QED
      BY <1>2, <3>1
  <2> QED
    BY <2>4, <2>5
<1> QED
  BY <1>6, <1>7

\* A finite set can be sorted by its values.
LEMMA SortExists ==
  ASSUME NEW S, IsFiniteSet(S), NEW f, \A x \in S : f[x] \in Int
  PROVE  \E p \in Bijection(1..Cardinality(S), S) :
           \A i, j \in 1..Cardinality(S) : i < j => f[p[i]] <= f[p[j]]
<1> DEFINE sorted(p, n) == \A i, j \in 1..n : i < j => f[p[i]] <= f[p[j]]
           good(u) == \E p \in Bijection(1..Cardinality(u), u) : sorted(p, Cardinality(u))
           bad     == {u \in SUBSET S : ~good(u)}
<1> SUFFICES ASSUME bad # {} PROVE FALSE
  OBVIOUS
<1>1. PICK u \in SUBSET S : ~good(u) /\ \A k \in SUBSET S : k \subseteq u => k = u \/ good(k)
  <2>1. bad \subseteq SUBSET S /\ \A u : u \in bad <=> u \in SUBSET S /\ ~good(u)
    OBVIOUS
  <2> HIDE DEF bad, good
  <2>2. PICK u \in bad : \A k \in bad : k \subseteq u => k = u
    BY <2>1, MinimalSubset
  <2> QED
    BY <2>1, <2>2, Zenon
<1> HIDE DEF bad, good
<1>2. IsFiniteSet(u) /\ Cardinality(u) \in Nat /\ (Cardinality(u) = 0 <=> u = {})
  BY FS_Subset, FS_CardinalityType, FS_EmptySet
<1>3. CASE u = {}
  <2> DEFINE p == [i \in 1..0 |-> 0]
  <2>1. 1..Cardinality(u) = {}
    BY <1>2, <1>3
  <2>2. p \in Bijection(1..Cardinality(u), u)
    BY <1>3, <2>1 DEF Bijection, Injection, Surjection, IsInjective
  <2>3. sorted(p, Cardinality(u))
    BY <2>1
  <2> QED
    BY <1>1, <2>2, <2>3 DEF good
<1>4. CASE u # {}
  <2>1. \A x \in u : f[x] \in Int
    BY <1>1
  <2>2. PICK x \in u : \A y \in u : f[y] <= f[x]
    BY <1>2, <1>4, <2>1, GreatestValue
  <2> DEFINE r == u \ {x}
             n == Cardinality(u)
             m == Cardinality(r)
  <2>3. n \in Nat /\ m \in Nat /\ n = m + 1
    <3>1. IsFiniteSet(r) /\ m = n - 1
      BY <1>2, FS_RemoveElement, Zenon
    <3>2. m \in Nat
      BY <3>1, FS_CardinalityType
    <3> QED
      BY <1>2, <3>1, <3>2
  <2>4. r \in SUBSET S /\ r # u /\ r \subseteq u
    BY <1>1
  <2>5. good(r)
    BY <1>1, <2>4, Zenon
  <2>6. PICK q \in Bijection(1..m, r) : sorted(q, m)
    BY <2>5, Zenon DEF good
  <2> DEFINE p == [i \in 1..n |-> IF i = n THEN x ELSE q[i]]
  <2>7. /\ q \in [1..m -> r] /\ \A i, j \in 1..m : q[i] = q[j] => i = j
        /\ \A y \in r : \E i \in 1..m : q[i] = y
    BY Zenon DEF Bijection, Injection, Surjection, IsInjective
  <2> HIDE DEF m, n
  <2>8. n \in 1..n /\ \A i \in 1..n : i # n => i \in 1..m
    BY <2>3
  <2>9. p[n] = x /\ \A i \in 1..m : i \in 1..n /\ p[i] = q[i] /\ q[i] \in u /\ q[i] # x
    BY <2>3, <2>7, <2>8
  <2>10. p \in [1..n -> u]
    BY <2>8, <2>9, Zenon
  <2>11. \A i, j \in 1..n : p[i] = p[j] => i = j
    <3> HIDE DEF p
    <3> QED
      BY <2>7, <2>8, <2>9
  <2>12. \A y \in u : \E i \in 1..n : p[i] = y
    <3> HIDE DEF p
    <3> QED
      BY <2>7, <2>8, <2>9
  <2>13. p \in Bijection(1..n, u)
    BY <2>10, <2>11, <2>12 DEF Bijection, Injection, Surjection, IsInjective
  <2>14. sorted(p, n)
    <3> SUFFICES ASSUME NEW i \in 1..n, NEW j \in 1..n, i < j PROVE f[p[i]] <= f[p[j]]
      OBVIOUS
    <3>1. i \in 1..m
      BY <2>3, <2>8
    <3>2. CASE j = n
      BY <2>2, <2>9, <3>1, <3>2, Zenon
    <3>3. CASE j # n
      BY <2>6, <2>8, <2>9, <3>1, <3>3
    <3> QED
      BY <3>2, <3>3
  <2> QED
    BY <1>1, <2>13, <2>14, Zenon DEF n, good
<1> QED
  BY <1>3, <1>4

\* iobatch_get_cost always has a cost to return: every batch can be sorted.
LEMMA CostExists ==
  ASSUME NEW b, batch_sound(b)
  PROVE  iobatch_get_cost(b) # {}
<1> DEFINE reqs == b.reqs
           n    == Len(reqs)
           f    == [i \in 1..n |-> reqs[i].offset]
<1>1. reqs \in Seq(Request)
  BY DEF batch_sound, BatchType, Request
<1>2. IsFiniteSet(1..n) /\ Cardinality(1..n) = n
  BY <1>1, SizesSum
<1>3. \A i \in 1..n : f[i] \in Int
  <2>1. \A i \in 1..n : reqs[i] \in Request
    BY <1>1, SeqIsFunction
  <2> QED
    BY <2>1 DEF Request
<1> HIDE DEF f, n
<1>4. PICK p \in Bijection(1..n, 1..n) : \A i, j \in 1..n : i < j => f[p[i]] <= f[p[j]]
  <2>1. \E p \in Bijection(1..Cardinality(1..n), 1..n) :
          \A i, j \in 1..Cardinality(1..n) : i < j => f[p[i]] <= f[p[j]]
    BY <1>2, <1>3, SortExists, Zenon
  <2> QED
    BY <1>2, <2>1
<1>5. \A i \in 1..n : p[i] \in 1..n /\ f[p[i]] = reqs[p[i]].offset
  <2>1. p \in [1..n -> 1..n]
    BY DEF Bijection, Injection
  <2> QED
    BY <2>1 DEF f
<1>6. \A i, j \in 1..n : i < j => reqs[p[i]].offset <= reqs[p[j]].offset
  BY <1>4, <1>5
<1>7. [i \in 1..n |-> reqs[p[i]]] \in iobatch_scan_sort(reqs)
  <2>1. p \in Injection(1..n, 1..n)
    BY Zenon DEF Bijection
  <2> QED
    BY <1>6, <2>1 DEF iobatch_scan_sort, n
<1> QED
  BY <1>7, Zenon DEF iobatch_get_cost

\* A sound batch is what BatchesSound asks for, but for not being full.
LEMMA SoundMeans ==
  ASSUME NEW b, batch_sound(b)
  PROVE  cache_coherent(b) /\ cost_bounded(b)
<1>1. /\ b \in [reqs : Seq(Request), cost : Int, bytes : Nat]
      /\ b.bytes = SumFunction(sizes(b.reqs))
      /\ b.cost = -1 \/ (b.cost = 0 /\ b.reqs = <<>>)
  BY DEF batch_sound, BatchType, Request
<1>2. cache_coherent(b)
  BY <1>1, CostOfSound DEF cache_coherent
<1>3. cost_bounded(b)
  <2>1. b.bytes = SumFunction([i \in 1..Len(b.reqs) |-> b.reqs[i].size])
    BY <1>1 DEF sizes
  <2>2. Len(b.reqs) > 0 => b.reqs # <<>>
    BY <1>1
  <2> QED
    BY <2>1, <2>2, CostOfSound, Zenon DEF cost_bounded
<1> QED
  BY <1>2, <1>3

\* iobatch_clear after iobatch_get_cost has cached a cost.
LEMMA ClearSound ==
  ASSUME NEW b, batch_sound(b), NEW c \in iobatch_get_cost(b)
  PROVE  /\ batch_sound(iobatch_clear([b EXCEPT !.cost = c]))
         /\ ~iobatch_full(iobatch_clear([b EXCEPT !.cost = c]))
<1>1. /\ b \in [reqs : Seq(Request), cost : Int, bytes : Nat]
      /\ b.bytes = SumFunction(sizes(b.reqs))
  BY DEF batch_sound, BatchType, Request
<1>2. CASE b.reqs = <<>>
  <2>1. iobatch_get_cost(b) = {0}
    BY <1>2, CostOfSound, Zenon
  <2>2. iobatch_clear([b EXCEPT !.cost = c]) = empty_cached
    BY <1>1, <1>2, <2>1, NoSizes DEF iobatch_clear, empty_cached
  <2> QED
    BY <2>2, EmptySound
<1>3. CASE b.reqs # <<>>
  <2>1. iobatch_clear([b EXCEPT !.cost = c]) = iobatch_new
    BY <1>1, <1>3 DEF iobatch_clear
  <2> QED
    BY <2>1, NewSound
<1> QED
  BY <1>2, <1>3

=============================================================================

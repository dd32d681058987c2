------------------------- MODULE ReportPages_proofs -------------------------
(***************************************************************************)
(* The reports tell one story, for any number of sessions, classes, rooms, *)
(* teachers and departments.  The pages count and add up the same table by *)
(* different keys, so the proofs first need what a finite sum is: that it  *)
(* exists, that the order does not matter, and that it is the sum of its   *)
(* parts.                                                                  *)
(***************************************************************************)
EXTENDS Backoffice, FiniteSetTheorems, SequenceTheorems, WellFoundedInduction, TLAPS

-----------------------------------------------------------------------------
(***************************************************************************)
(* Finite sums.                                                            *)
(***************************************************************************)
SumOn(f, S) == SumFunctionOnSet(f, S)

LEMMA LeastNatural ==
  ASSUME NEW S \in SUBSET Nat, S # {}
  PROVE  \E x \in S : \A y \in S : x <= y
<1> DEFINE R == OpToRel(<, Nat)
<1>1. IsWellFoundedOn(R, Nat)
  BY NatLessThanWellFounded
<1>2. \A x, y \in Nat : x < y => <<x, y>> \in R
  BY DEF OpToRel
<1> HIDE DEF R
<1>3. PICK x \in S : \A y \in S : ~(<<y, x>> \in R)
  BY <1>1, WFMin
<1>4. ASSUME NEW y \in S PROVE x <= y
  <2>1. x \in Nat /\ y \in Nat
    OBVIOUS
  <2>2. ~(y < x)
    BY <1>2, <1>3, <2>1
  <2> QED BY <2>1, <2>2
<1> QED BY <1>4

\* A way of adding up f over the subsets of S, one element at a time.
Pick(T) == CHOOSE x \in T : TRUE
Adds(g, f, S) == g = [T \in SUBSET S |-> IF T = {} THEN 0 ELSE f[Pick(T)] + g[T \ {Pick(T)}]]

LEMMA SumIs ==
  ASSUME NEW f, NEW S
  PROVE  SumOn(f, S) = (CHOOSE g : Adds(g, f, S))[S]
  BY DEF SumOn, SumFunctionOnSet, FoldFunctionOnSet, MapThenFoldSet, Adds, Pick

LEMMA PickIn == ASSUME NEW T, T # {} PROVE Pick(T) \in T
  BY DEF Pick

\* Such a way exists, by the size of the subsets it covers.
Upto(S, n) == {T \in SUBSET S : Cardinality(T) <= n}
AddsUpto(g, f, S, n) ==
  \A T \in Upto(S, n) : g[T] = IF T = {} THEN 0 ELSE f[Pick(T)] + g[T \ {Pick(T)}]

LEMMA SmallerPart ==
  ASSUME NEW S, IsFiniteSet(S), NEW T \in SUBSET S, NEW x \in T
  PROVE  /\ IsFiniteSet(T) /\ Cardinality(T) \in Nat /\ T \ {x} \in SUBSET S
         /\ Cardinality(T \ {x}) \in Nat /\ Cardinality(T \ {x}) = Cardinality(T) - 1
<1>1. IsFiniteSet(T) /\ Cardinality(T) \in Nat
  BY FS_Subset, FS_CardinalityType
<1>2. IsFiniteSet(T \ {x}) /\ Cardinality(T \ {x}) = Cardinality(T) - 1
  BY <1>1, FS_RemoveElement
<1>3. Cardinality(T \ {x}) \in Nat
  BY <1>2, FS_CardinalityType
<1> QED BY <1>1, <1>2, <1>3

LEMMA AddsExists ==
  ASSUME NEW S, IsFiniteSet(S), NEW f, \A x \in S : f[x] \in Int
  PROVE  \E g : Adds(g, f, S) /\ g \in [SUBSET S -> Int]
<1> DEFINE P(n) == \E g \in [SUBSET S -> Int] : AddsUpto(g, f, S, n)
           Bad == {n \in Nat : ~P(n)}
<1>0. \A T \in SUBSET S : IsFiniteSet(T) /\ Cardinality(T) \in Nat
  BY FS_Subset, FS_CardinalityType
<1>1. P(0)
  <2> DEFINE g == [T \in SUBSET S |-> 0]
  <2>1. g \in [SUBSET S -> Int]
    OBVIOUS
  <2>2. ASSUME NEW T \in Upto(S, 0) PROVE T = {}
    <3>1. Cardinality(T) = 0 /\ IsFiniteSet(T)
      BY <1>0 DEF Upto
    <3> QED BY <3>1, FS_EmptySet
  <2>3. \A T \in Upto(S, 0) : g[T] = 0
    BY DEF Upto
  <2> HIDE DEF g
  <2>4. AddsUpto(g, f, S, 0)
    BY <2>2, <2>3 DEF AddsUpto
  <2> QED BY <2>1, <2>4
<1>2. ASSUME NEW n \in Nat, P(n) PROVE P(n + 1)
  <2>1. PICK g \in [SUBSET S -> Int] : AddsUpto(g, f, S, n)
    BY <1>2
  <2> DEFINE h == [T \in SUBSET S |->
                     IF Cardinality(T) <= n THEN g[T]
                     ELSE f[Pick(T)] + g[T \ {Pick(T)}]]
  <2>2. ASSUME NEW T \in SUBSET S, T # {}
        PROVE  /\ Pick(T) \in T /\ f[Pick(T)] \in Int /\ T \ {Pick(T)} \in SUBSET S
               /\ Cardinality(T \ {Pick(T)}) = Cardinality(T) - 1 /\ g[T \ {Pick(T)}] \in Int
    BY <2>2, PickIn, SmallerPart
  <2>3. ASSUME NEW T \in SUBSET S, ~(Cardinality(T) <= n) PROVE T # {}
    <3>1. Cardinality({}) = 0
      BY FS_EmptySet
    <3>2. SUFFICES ASSUME T = {} PROVE FALSE
      OBVIOUS
    <3>3. Cardinality(T) = 0
      BY <3>1, <3>2
    <3> QED BY <2>3, <3>3
  <2>4. h \in [SUBSET S -> Int]
    BY <2>2, <2>3, <1>0
  <2>5. ASSUME NEW T \in Upto(S, n + 1)
        PROVE  h[T] = IF T = {} THEN 0 ELSE f[Pick(T)] + h[T \ {Pick(T)}]
    <3>1. T \in SUBSET S /\ Cardinality(T) \in Nat /\ Cardinality(T) <= n + 1
      BY <1>0 DEF Upto
    <3>2. CASE T = {}
      <4>1. Cardinality(T) = 0
        BY <3>2, FS_EmptySet
      <4>2. h[T] = g[T] /\ T \in Upto(S, n)
        BY <3>1, <4>1 DEF Upto
      <4>3. g[T] = 0
        BY <2>1, <3>2, <4>2 DEF AddsUpto
      <4> QED BY <4>2, <4>3, <3>2
    <3>3. CASE T # {}
      <4>1. T \ {Pick(T)} \in Upto(S, n) /\ T \ {Pick(T)} \in SUBSET S
        BY <2>2, <3>1, <3>3 DEF Upto
      <4>2. h[T \ {Pick(T)}] = g[T \ {Pick(T)}]
        BY <4>1 DEF Upto
      <4>3. CASE Cardinality(T) <= n
        <5>1. h[T] = g[T] /\ T \in Upto(S, n)
          BY <3>1, <4>3 DEF Upto
        <5>2. g[T] = f[Pick(T)] + g[T \ {Pick(T)}]
          BY <2>1, <5>1, <3>3 DEF AddsUpto
        <5> HIDE DEF h
        <5> QED BY <5>1, <5>2, <4>2, <3>3
      <4>4. CASE ~(Cardinality(T) <= n)
        <5>1. h[T] = f[Pick(T)] + g[T \ {Pick(T)}]
          BY <3>1, <4>4
        <5> HIDE DEF h
        <5> QED BY <5>1, <4>2, <3>3
      <4> QED BY <4>3, <4>4
    <3> QED BY <3>2, <3>3
  <2> HIDE DEF h
  <2>6. AddsUpto(h, f, S, n + 1)
    BY <2>5 DEF AddsUpto
  <2> QED BY <2>4, <2>6
<1> HIDE DEF P
<1>3. Bad = {}
  <2>1. SUFFICES ASSUME Bad # {} PROVE FALSE
    OBVIOUS
  <2>2. PICK n \in Bad : \A m \in Bad : n <= m
    BY <2>1, LeastNatural
  <2>3. n \in Nat /\ ~P(n) /\ n # 0
    BY <1>1, <2>2
  <2>4. n - 1 \in Nat /\ n - 1 \notin Bad
    BY <2>2, <2>3
  <2>5. P(n - 1)
    BY <2>4
  <2>6. P((n - 1) + 1)
    BY <1>2, <2>4, <2>5
  <2>7. (n - 1) + 1 = n
    BY <2>3
  <2> QED BY <2>3, <2>6, <2>7
<1>4. Cardinality(S) \in Nat
  BY FS_CardinalityType
<1>5. P(Cardinality(S))
  BY <1>3, <1>4
<1>6. PICK g \in [SUBSET S -> Int] : AddsUpto(g, f, S, Cardinality(S))
  BY <1>5 DEF P
<1>7. \A T \in SUBSET S : T \in Upto(S, Cardinality(S))
  BY FS_Subset DEF Upto
<1>8. Adds(g, f, S)
  BY <1>6, <1>7 DEF Adds, AddsUpto
<1> QED BY <1>6, <1>8

\* A family of parts of a finite set that is not empty has one that leaves the family
\* whichever element it loses.
LEMMA LeastPart ==
  ASSUME NEW S, IsFiniteSet(S), NEW Bad \in SUBSET (SUBSET S), Bad # {}
  PROVE  \E T \in Bad : \A x \in T : T \ {x} \notin Bad
<1> DEFINE Sizes == {Cardinality(T) : T \in Bad}
<1>1. \A T \in SUBSET S : IsFiniteSet(T) /\ Cardinality(T) \in Nat
  BY FS_Subset, FS_CardinalityType
<1>2. Sizes \in SUBSET Nat /\ Sizes # {}
  BY <1>1
<1>3. PICK n \in Sizes : \A m \in Sizes : n <= m
  BY <1>2, LeastNatural
<1>4. PICK T \in Bad : Cardinality(T) = n
  BY <1>3
<1>5. ASSUME NEW x \in T, T \ {x} \in Bad PROVE FALSE
  <2>1. n <= Cardinality(T \ {x})
    BY <1>3, <1>5
  <2>2. Cardinality(T \ {x}) = Cardinality(T) - 1 /\ Cardinality(T) \in Nat
    BY SmallerPart
  <2> QED BY <2>1, <2>2, <1>4
<1> QED BY <1>5

\* Finite-set induction, stated on a set of parts.
LEMMA SetInduction ==
  ASSUME NEW S, IsFiniteSet(S), NEW Good, {} \in Good,
         \A T \in SUBSET S : T \in Good => \A x \in S \ T : T \union {x} \in Good
  PROVE  S \in Good
<1> DEFINE Bad == {T \in SUBSET S : T \notin Good}
<1>1. SUFFICES ASSUME Bad # {} PROVE FALSE
  OBVIOUS
<1>2. PICK T \in Bad : \A x \in T : T \ {x} \notin Bad
  BY <1>1, LeastPart
<1>3. T \in SUBSET S /\ T \notin Good /\ T # {}
  BY <1>2
<1>4. PICK x \in T : TRUE
  BY <1>3
<1>5. T \ {x} \in Good /\ T \ {x} \in SUBSET S
  BY <1>2, <1>3
<1>6. (T \ {x}) \union {x} = T /\ x \in S \ (T \ {x})
  BY <1>3, <1>4
<1>7. T \in Good
  BY <1>5, <1>6
<1> QED BY <1>3, <1>7

LEMMA AddsAt ==
  ASSUME NEW S, NEW f, NEW g, Adds(g, f, S), NEW T \in SUBSET S
  PROVE  g[T] = IF T = {} THEN 0 ELSE f[Pick(T)] + g[T \ {Pick(T)}]
  BY Zenon DEF Adds

\* Two ways of adding up agree wherever the numbers do.
LEMMA AddsAgree ==
  ASSUME NEW S, IsFiniteSet(S), NEW R \in SUBSET S, NEW f, NEW e, NEW g, NEW h,
         Adds(g, f, S), Adds(h, e, R), \A x \in R : f[x] = e[x]
  PROVE  \A T \in SUBSET R : g[T] = h[T]
<1> DEFINE Bad == {T \in SUBSET R : g[T] # h[T]}
<1>1. SUFFICES ASSUME Bad # {} PROVE FALSE
  OBVIOUS
<1>2. IsFiniteSet(R)
  BY FS_Subset
<1>3. PICK T \in Bad : \A x \in T : T \ {x} \notin Bad
  BY <1>1, <1>2, LeastPart
<1>4. T \in SUBSET R /\ T \in SUBSET S /\ g[T] # h[T]
  BY <1>3
<1>5. /\ g[T] = IF T = {} THEN 0 ELSE f[Pick(T)] + g[T \ {Pick(T)}]
      /\ h[T] = IF T = {} THEN 0 ELSE e[Pick(T)] + h[T \ {Pick(T)}]
  <2>1. g[T] = IF T = {} THEN 0 ELSE f[Pick(T)] + g[T \ {Pick(T)}]
    BY ONLY <1>4, Adds(g, f, S), Zenon DEF Adds
  <2>2. h[T] = IF T = {} THEN 0 ELSE e[Pick(T)] + h[T \ {Pick(T)}]
    BY ONLY <1>4, Adds(h, e, R), Zenon DEF Adds
  <2> QED BY <2>1, <2>2
<1>6. T # {}
  BY <1>4, <1>5
<1>7. Pick(T) \in T
  BY <1>6, PickIn
<1>8. g[T \ {Pick(T)}] = h[T \ {Pick(T)}] /\ f[Pick(T)] = e[Pick(T)]
  BY <1>3, <1>4, <1>7
<1> QED BY <1>4, <1>5, <1>6, <1>8

\* The order does not matter.
Numbers(f, S) == \A x \in S : f[x] \in Int
AnyOrder(g, f, S) == \A T \in SUBSET S : \A x \in T : g[T] = f[x] + g[T \ {x}]

LEMMA AddsAny ==
  ASSUME NEW S, IsFiniteSet(S), NEW f, Numbers(f, S), NEW g, g \in [SUBSET S -> Int], Adds(g, f, S)
  PROVE  AnyOrder(g, f, S)
<1> DEFINE Bad == {T \in SUBSET S : \E x \in T : g[T] # f[x] + g[T \ {x}]}
<1>1. SUFFICES ASSUME Bad # {} PROVE FALSE
  BY DEF AnyOrder
<1>2. PICK T \in Bad : \A x \in T : T \ {x} \notin Bad
  BY <1>1, LeastPart
<1>3. PICK x \in T : T \in SUBSET S /\ g[T] # f[x] + g[T \ {x}]
  BY <1>2
<1> DEFINE y == Pick(T)
<1>4. g[T] = f[y] + g[T \ {y}] /\ y \in T
  BY <1>3, AddsAt, PickIn
<1> HIDE DEF y
<1>5. x # y
  BY <1>3, <1>4
<1>6. T \ {y} \in SUBSET S /\ T \ {x} \in SUBSET S /\ x \in T \ {y} /\ y \in T \ {x}
  BY <1>3, <1>4, <1>5
<1>7. g[T \ {y}] = f[x] + g[(T \ {y}) \ {x}]
  BY <1>2, <1>4, <1>6
<1>8. g[T \ {x}] = f[y] + g[(T \ {x}) \ {y}]
  BY <1>2, <1>3, <1>6
<1>9. (T \ {y}) \ {x} = (T \ {x}) \ {y}
  OBVIOUS
<1>10. f[x] \in Int /\ f[y] \in Int /\ g[(T \ {x}) \ {y}] \in Int
  BY <1>3, <1>4 DEF Numbers
<1> DEFINE u == g[(T \ {x}) \ {y}]
<1>11. g[T] = f[y] + (f[x] + u) /\ g[T \ {x}] = f[y] + u /\ u \in Int
  BY <1>4, <1>7, <1>8, <1>9, <1>10
<1> HIDE DEF u
<1>12. g[T] = f[x] + g[T \ {x}]
  BY ONLY <1>10, <1>11
<1> QED BY <1>3, <1>12


\* What a total is: any way of adding up gives it.
LEMMA SumOf ==
  ASSUME NEW S, IsFiniteSet(S), NEW R \in SUBSET S, NEW f, NEW g, Numbers(f, S), Adds(g, f, S)
  PROVE  SumOn(f, R) = g[R]
<1>1. IsFiniteSet(R)
  BY FS_Subset
<1> DEFINE h == CHOOSE h : Adds(h, f, R)
<1>2. \E a : Adds(a, f, R)
  BY <1>1, AddsExists DEF Numbers
<1>3. Adds(h, f, R)
  BY <1>2
<1>4. SumOn(f, R) = h[R]
  BY SumIs
<1> HIDE DEF h
<1>5. g[R] = h[R]
  BY <1>3, AddsAgree
<1> QED BY <1>4, <1>5

LEMMA SumSame ==
  ASSUME NEW S, IsFiniteSet(S), NEW f, NEW e, Numbers(f, S), \A x \in S : f[x] = e[x]
  PROVE  SumOn(f, S) = SumOn(e, S)
<1>1. Numbers(e, S)
  BY DEF Numbers
<1>2. PICK g : Adds(g, f, S)
  BY AddsExists DEF Numbers
<1>3. PICK h : Adds(h, e, S)
  BY <1>1, AddsExists DEF Numbers
<1>4. SumOn(f, S) = g[S] /\ SumOn(e, S) = h[S]
  BY <1>1, <1>2, <1>3, SumOf
<1>5. g[S] = h[S]
  BY <1>2, <1>3, AddsAgree
<1> QED BY <1>4, <1>5

LEMMA SumInt ==
  ASSUME NEW S, IsFiniteSet(S), NEW f, Numbers(f, S)
  PROVE  SumOn(f, S) \in Int
<1>1. PICK g : Adds(g, f, S) /\ g \in [SUBSET S -> Int]
  BY AddsExists DEF Numbers
<1>2. SumOn(f, S) = g[S]
  BY <1>1, SumOf
<1> QED BY <1>1, <1>2

LEMMA SumEmpty == ASSUME NEW f PROVE SumOn(f, {}) = 0
<1>1. IsFiniteSet({}) /\ Numbers(f, {})
  BY FS_EmptySet DEF Numbers
<1>2. PICK g : Adds(g, f, {})
  BY <1>1, AddsExists DEF Numbers
<1>3. SumOn(f, {}) = g[{}]
  BY <1>1, <1>2, SumOf
<1>4. g[{}] = 0
  BY <1>2 DEF Adds
<1> QED BY <1>3, <1>4

LEMMA SumWith ==
  ASSUME NEW S, IsFiniteSet(S), NEW f, Numbers(f, S), NEW x \in S
  PROVE  /\ SumOn(f, S) = f[x] + SumOn(f, S \ {x})
         /\ SumOn(f, S) \in Int /\ SumOn(f, S \ {x}) \in Int /\ f[x] \in Int
<1>1. PICK g : Adds(g, f, S) /\ g \in [SUBSET S -> Int]
  BY AddsExists DEF Numbers
<1>2. S \in SUBSET S /\ S \ {x} \in SUBSET S
  OBVIOUS
<1>3. SumOn(f, S) = g[S] /\ SumOn(f, S \ {x}) = g[S \ {x}]
  BY <1>1, <1>2, SumOf
<1>4. g[S] = f[x] + g[S \ {x}]
  <2>2. IsFiniteSet(S) /\ Adds(g, f, S) /\ g \in [SUBSET S -> Int]
    BY <1>1
  <2>3. AnyOrder(g, f, S)
    BY ONLY <2>2, Numbers(f, S), AddsAny
  <2> QED BY <1>2, <2>3 DEF AnyOrder
<1> QED BY <1>1, <1>2, <1>3, <1>4 DEF Numbers

LEMMA SumMore ==
  ASSUME NEW S, IsFiniteSet(S), NEW f, NEW x, x \notin S, Numbers(f, S \union {x})
  PROVE  /\ SumOn(f, S \union {x}) = f[x] + SumOn(f, S)
         /\ SumOn(f, S \union {x}) \in Int /\ SumOn(f, S) \in Int /\ f[x] \in Int
<1>1. IsFiniteSet(S \union {x}) /\ x \in S \union {x} /\ (S \union {x}) \ {x} = S
  BY FS_AddElement
<1> QED BY <1>1, SumWith

\* Sums over two sets without a common element, of sums, and of parts.
LEMMA SumUnion ==
  ASSUME NEW S, IsFiniteSet(S), NEW R, IsFiniteSet(R), S \cap R = {}, NEW f, Numbers(f, S \union R)
  PROVE  SumOn(f, S \union R) = SumOn(f, S) + SumOn(f, R)
<1> DEFINE Good == {T \in SUBSET R : SumOn(f, S \union T) = SumOn(f, S) + SumOn(f, T)}
<1>1. SumOn(f, S) \in Int
  BY SumInt DEF Numbers
<1>2. {} \in Good
  <2>1. S \union {} = S
    OBVIOUS
  <2> QED BY <1>1, <2>1, SumEmpty
<1>3. ASSUME NEW T \in SUBSET R, T \in Good, NEW x \in R \ T PROVE T \union {x} \in Good
  <2>1. IsFiniteSet(T) /\ IsFiniteSet(S \union T)
    BY FS_Subset, FS_Union
  <2>2. x \notin T /\ x \notin S \union T /\ Numbers(f, T \union {x}) /\ Numbers(f, (S \union T) \union {x})
    BY <1>3 DEF Numbers
  <2>3. /\ SumOn(f, T \union {x}) = f[x] + SumOn(f, T)
        /\ SumOn(f, T) \in Int /\ f[x] \in Int
    BY <2>1, <2>2, SumMore
  <2>4. SumOn(f, (S \union T) \union {x}) = f[x] + SumOn(f, S \union T)
    BY <2>1, <2>2, SumMore
  <2>5. (S \union T) \union {x} = S \union (T \union {x})
    OBVIOUS
  <2>6. SumOn(f, S \union T) = SumOn(f, S) + SumOn(f, T)
    BY <1>3
  <2>7. SumOn(f, S \union (T \union {x})) = SumOn(f, S) + SumOn(f, T \union {x})
    <3>1. SumOn(f, S \union (T \union {x})) = f[x] + SumOn(f, S \union T)
      BY <2>4, <2>5
    <3> QED BY ONLY <1>1, <2>3, <2>6, <3>1
  <2> QED BY <2>7
<1> HIDE DEF Good
<1>4. R \in Good
  BY <1>2, <1>3, SetInduction
<1> QED BY <1>4 DEF Good

LEMMA SumPlus ==
  ASSUME NEW S, IsFiniteSet(S), NEW f, NEW a, NEW b, Numbers(a, S), Numbers(b, S),
         \A x \in S : f[x] = a[x] + b[x]
  PROVE  SumOn(f, S) = SumOn(a, S) + SumOn(b, S)
<1> DEFINE Good == {T \in SUBSET S : SumOn(f, T) = SumOn(a, T) + SumOn(b, T)}
<1>1. {} \in Good
  BY SumEmpty
<1>2. ASSUME NEW T \in SUBSET S, T \in Good, NEW x \in S \ T PROVE T \union {x} \in Good
  <2>1. IsFiniteSet(T) /\ x \notin T /\ T \union {x} \in SUBSET S
    BY FS_Subset
  <2>2. Numbers(f, T \union {x}) /\ Numbers(a, T \union {x}) /\ Numbers(b, T \union {x})
    BY DEF Numbers
  <2>3. /\ SumOn(f, T \union {x}) = f[x] + SumOn(f, T)
        /\ SumOn(a, T \union {x}) = a[x] + SumOn(a, T) /\ a[x] \in Int /\ SumOn(a, T) \in Int
        /\ SumOn(b, T \union {x}) = b[x] + SumOn(b, T) /\ b[x] \in Int /\ SumOn(b, T) \in Int
    BY <2>1, <2>2, SumMore
  <2>4. SumOn(f, T) = SumOn(a, T) + SumOn(b, T) /\ f[x] = a[x] + b[x]
    BY <1>2
  <2>5. SumOn(f, T \union {x}) = SumOn(a, T \union {x}) + SumOn(b, T \union {x})
    BY <2>3, <2>4
  <2> QED BY <2>1, <2>5
<1> HIDE DEF Good
<1>3. S \in Good
  BY <1>1, <1>2, SetInduction
<1> QED BY <1>3 DEF Good

\* A total is the total of its groups' totals, for any grouping of the set.
LEMMA SumParts ==
  ASSUME NEW S, IsFiniteSet(S), NEW f, Numbers(f, S), NEW K, IsFiniteSet(K),
         NEW part, \A k \in K : part[k] \in SUBSET S,
         \A s \in S : \E k \in K : s \in part[k],
         \A j, k \in K : j # k => part[j] \cap part[k] = {},
         NEW t, \A k \in K : t[k] = SumOn(f, part[k])
  PROVE  SumOn(f, S) = SumOn(t, K)
<1> DEFINE In(L) == {s \in S : \E k \in L : s \in part[k]}
           Good == {L \in SUBSET K : SumOn(f, In(L)) = SumOn(t, L)}
<1>0. \A R \in SUBSET S : IsFiniteSet(R) /\ Numbers(f, R)
  BY FS_Subset DEF Numbers
<1>1. {} \in Good
  <2>1. In({}) = {}
    OBVIOUS
  <2> QED BY <2>1, SumEmpty
<1>2. ASSUME NEW L \in SUBSET K, L \in Good, NEW k \in K \ L PROVE L \union {k} \in Good
  <2>1. In(L \union {k}) = In(L) \union part[k] /\ In(L) \cap part[k] = {}
    OBVIOUS
  <2>2. In(L) \in SUBSET S /\ part[k] \in SUBSET S /\ In(L) \union part[k] \in SUBSET S
    OBVIOUS
  <2>3. SumOn(f, In(L \union {k})) = SumOn(f, In(L)) + SumOn(f, part[k])
    <3> HIDE DEF In
    <3>1. IsFiniteSet(In(L)) /\ IsFiniteSet(part[k]) /\ Numbers(f, In(L) \union part[k])
      BY <1>0, <2>2
    <3>2. SumOn(f, In(L) \union part[k]) = SumOn(f, In(L)) + SumOn(f, part[k])
      BY ONLY <2>1, <3>1, SumUnion
    <3> QED BY <2>1, <3>2
  <2>4. Numbers(t, L \union {k}) /\ IsFiniteSet(L)
    <3>1. ASSUME NEW j \in K PROVE t[j] \in Int
      <4>1. part[j] \in SUBSET S /\ t[j] = SumOn(f, part[j])
        OBVIOUS
      <4>2. IsFiniteSet(part[j]) /\ Numbers(f, part[j])
        BY <1>0, <4>1
      <4> QED BY ONLY <4>1, <4>2, SumInt
    <3> QED BY <3>1, FS_Subset DEF Numbers
  <2>5. SumOn(t, L \union {k}) = t[k] + SumOn(t, L) /\ t[k] \in Int /\ SumOn(t, L) \in Int
    BY <2>4, SumMore
  <2>6. SumOn(f, In(L)) = SumOn(t, L) /\ t[k] = SumOn(f, part[k])
    BY <1>2
  <2> HIDE DEF In
  <2>7. SumOn(f, In(L \union {k})) = SumOn(t, L \union {k})
    BY <2>3, <2>5, <2>6
  <2> QED BY <2>7
<1>3. In(K) = S
  OBVIOUS
<1> HIDE DEF Good, In
<1>4. K \in Good
  BY <1>1, <1>2, SetInduction
<1> QED BY <1>3, <1>4 DEF Good

\* Counting is adding up ones.
LEMMA SumCount ==
  ASSUME NEW S, IsFiniteSet(S), NEW f, \A x \in S : f[x] = 1
  PROVE  SumOn(f, S) = Cardinality(S)
<1> DEFINE Good == {T \in SUBSET S : SumOn(f, T) = Cardinality(T)}
<1>1. {} \in Good
  BY SumEmpty, FS_EmptySet
<1>2. ASSUME NEW T \in SUBSET S, T \in Good, NEW x \in S \ T PROVE T \union {x} \in Good
  <2>1. IsFiniteSet(T) /\ x \notin T /\ T \union {x} \in SUBSET S /\ Numbers(f, T \union {x}) /\ f[x] = 1
    BY FS_Subset DEF Numbers
  <2>2. SumOn(f, T \union {x}) = f[x] + SumOn(f, T)
    BY <2>1, SumMore
  <2>3. Cardinality(T \union {x}) = Cardinality(T) + 1 /\ Cardinality(T) \in Nat
    BY <2>1, FS_AddElement, FS_CardinalityType
  <2>4. SumOn(f, T) = Cardinality(T)
    BY <1>2
  <2> QED BY <2>1, <2>2, <2>3, <2>4
<1> HIDE DEF Good
<1>3. S \in Good
  BY <1>1, <1>2, SetInduction
<1> QED BY <1>3 DEF Good

\* Counting by groups.
LEMMA CountParts ==
  ASSUME NEW S, IsFiniteSet(S), NEW K, IsFiniteSet(K),
         NEW part, \A k \in K : part[k] \in SUBSET S,
         \A s \in S : \E k \in K : s \in part[k],
         \A j, k \in K : j # k => part[j] \cap part[k] = {},
         NEW t, \A k \in K : t[k] = Cardinality(part[k])
  PROVE  Cardinality(S) = SumOn(t, K)
<1> DEFINE one == [s \in S |-> 1]
<1>1. \A s \in S : one[s] = 1
  OBVIOUS
<1> HIDE DEF one
<1>2. Numbers(one, S)
  BY <1>1 DEF Numbers
<1>3. ASSUME NEW k \in K PROVE t[k] = SumOn(one, part[k])
  <2>1. part[k] \in SUBSET S /\ t[k] = Cardinality(part[k])
    OBVIOUS
  <2>2. IsFiniteSet(part[k]) /\ \A s \in part[k] : one[s] = 1
    BY <1>1, <2>1, FS_Subset
  <2> QED BY ONLY <2>1, <2>2, SumCount
<1>4. SumOn(one, S) = SumOn(t, K)
  BY <1>2, <1>3, SumParts
<1> QED BY <1>1, <1>4, SumCount

\* Sums of nothing but zeros, of natural numbers, of part of a set, and of the same
\* numbers under other names.
LEMMA SumZero ==
  ASSUME NEW S, IsFiniteSet(S), NEW f, \A x \in S : f[x] = 0
  PROVE  SumOn(f, S) = 0
<1> DEFINE Good == {T \in SUBSET S : SumOn(f, T) = 0}
<1>1. {} \in Good
  BY SumEmpty
<1>2. ASSUME NEW T \in SUBSET S, T \in Good, NEW x \in S \ T PROVE T \union {x} \in Good
  <2>1. IsFiniteSet(T) /\ x \notin T /\ Numbers(f, T \union {x}) /\ f[x] = 0 /\ SumOn(f, T) = 0
    BY <1>2, FS_Subset DEF Numbers
  <2>2. SumOn(f, T \union {x}) = f[x] + SumOn(f, T)
    BY <2>1, SumMore
  <2> QED BY <2>1, <2>2
<1> HIDE DEF Good
<1>3. S \in Good
  BY <1>1, <1>2, SetInduction
<1> QED BY <1>3 DEF Good

LEMMA SumNat ==
  ASSUME NEW S, IsFiniteSet(S), NEW f, \A x \in S : f[x] \in Nat
  PROVE  SumOn(f, S) \in Nat /\ \A x \in S : f[x] <= SumOn(f, S)
<1> DEFINE Good == {T \in SUBSET S : SumOn(f, T) \in Nat}
<1>0. \A T \in SUBSET S : IsFiniteSet(T) /\ Numbers(f, T)
  BY FS_Subset DEF Numbers
<1>1. {} \in Good
  BY SumEmpty
<1>2. ASSUME NEW T \in SUBSET S, T \in Good, NEW x \in S \ T PROVE T \union {x} \in Good
  <2>1. x \notin T /\ T \union {x} \in SUBSET S /\ f[x] \in Nat /\ SumOn(f, T) \in Nat
    BY <1>2
  <2>2. SumOn(f, T \union {x}) = f[x] + SumOn(f, T)
    BY <1>0, <2>1, SumMore
  <2> QED BY <2>1, <2>2
<1>3. ASSUME NEW R \in SUBSET S PROVE R \in Good
  <2> HIDE DEF Good
  <2>1. \A T \in SUBSET R : T \in Good => \A x \in R \ T : T \union {x} \in Good
    BY <1>2
  <2> QED BY <1>0, <1>1, <2>1, SetInduction
<1>4. ASSUME NEW x \in S PROVE f[x] <= SumOn(f, S)
  <2>1. SumOn(f, S) = f[x] + SumOn(f, S \ {x})
    BY <1>0, SumWith
  <2>2. S \ {x} \in SUBSET S
    OBVIOUS
  <2>3. SumOn(f, S \ {x}) \in Nat
    BY <1>3, <2>2
  <2> QED BY <2>1, <2>3
<1>5. SumOn(f, S) \in Nat
  BY <1>3
<1> QED BY <1>4, <1>5

LEMMA SumWhere ==
  ASSUME NEW S, IsFiniteSet(S), NEW R \in SUBSET S, NEW f, Numbers(f, R), NEW e,
         \A x \in S : e[x] = IF x \in R THEN f[x] ELSE 0
  PROVE  SumOn(e, S) = SumOn(f, R)
<1>1. IsFiniteSet(R) /\ IsFiniteSet(S \ R)
  BY FS_Subset, FS_Difference
<1>2. R \cap (S \ R) = {} /\ R \union (S \ R) = S
  OBVIOUS
<1>3. Numbers(e, R \union (S \ R)) /\ \A x \in R : f[x] = e[x]
  BY DEF Numbers
<1>4. SumOn(e, S) = SumOn(e, R) + SumOn(e, S \ R)
  BY <1>1, <1>2, <1>3, SumUnion
<1>5. SumOn(e, S \ R) = 0
  BY <1>1, SumZero
<1>6. SumOn(f, R) = SumOn(e, R)
  BY <1>1, <1>3, SumSame
<1>7. SumOn(f, R) \in Int
  BY <1>1, SumInt
<1> QED BY <1>4, <1>5, <1>6, <1>7

LEMMA SumRenamed ==
  ASSUME NEW S, IsFiniteSet(S), NEW m, \A x, y \in S : m[x] = m[y] => x = y,
         NEW f, NEW e, Numbers(f, S), \A x \in S : f[x] = e[m[x]]
  PROVE  SumOn(f, S) = SumOn(e, {m[x] : x \in S})
<1> DEFINE Img(T) == {m[x] : x \in T}
           Good == {T \in SUBSET S : IsFiniteSet(Img(T)) /\ SumOn(f, T) = SumOn(e, Img(T))}
<1>1. {} \in Good
  <2>1. Img({}) = {}
    OBVIOUS
  <2> QED BY <2>1, SumEmpty, FS_EmptySet
<1>2. ASSUME NEW T \in SUBSET S, T \in Good, NEW x \in S \ T PROVE T \union {x} \in Good
  <2>1. Img(T \union {x}) = Img(T) \union {m[x]} /\ m[x] \notin Img(T)
    OBVIOUS
  <2>2. Numbers(f, T \union {x}) /\ Numbers(e, Img(T) \union {m[x]})
    BY DEF Numbers
  <2>3. IsFiniteSet(T) /\ x \notin T /\ T \union {x} \in SUBSET S
    BY FS_Subset
  <2>4. IsFiniteSet(Img(T)) /\ SumOn(f, T) = SumOn(e, Img(T)) /\ f[x] = e[m[x]]
    BY <1>2
  <2> HIDE DEF Img
  <2>5. SumOn(f, T \union {x}) = f[x] + SumOn(f, T)
    BY <2>2, <2>3, SumMore
  <2>6. SumOn(e, Img(T) \union {m[x]}) = e[m[x]] + SumOn(e, Img(T))
    BY <2>1, <2>2, <2>4, SumMore
  <2>7. IsFiniteSet(Img(T) \union {m[x]})
    BY <2>4, FS_AddElement
  <2> QED BY <2>1, <2>3, <2>4, <2>5, <2>6, <2>7
<1>3. S \in Good
  <2> HIDE DEF Good
  <2> QED BY <1>1, <1>2, SetInduction
<1> QED BY <1>3

\* A total is the sum over the function's domain.
LEMMA TotalOn ==
  ASSUME NEW S, NEW f, DOMAIN f = S PROVE Total(f) = SumOn(f, S)
  BY DEF Total, SumFunction, SumOn

\* A finite set of numbers has a greatest and a least.
LEMMA FinMax ==
  ASSUME NEW S, IsFiniteSet(S), S \in SUBSET Int, S # {}
  PROVE  Max(S) \in S /\ \A y \in S : Max(S) >= y
<1> DEFINE Good == {T \in SUBSET S : T = {} \/ \E x \in T : \A y \in T : x >= y}
<1>1. {} \in Good
  OBVIOUS
<1>2. ASSUME NEW T \in SUBSET S, T \in Good, NEW x \in S \ T PROVE T \union {x} \in Good
  <2>1. CASE T = {}
    <3>1. T \union {x} = {x} /\ x \in Int
      BY <2>1
    <3>2. \A y \in {x} : x >= y
      BY <3>1
    <3>3. \E z \in T \union {x} : \A y \in T \union {x} : z >= y
      BY <3>1, <3>2
    <3> QED BY <3>3
  <2>2. CASE T # {}
    <3>1. PICK z \in T : \A y \in T : z >= y
      BY <1>2, <2>2
    <3>2. z \in Int /\ x \in Int /\ \A y \in T : y \in Int
      OBVIOUS
    <3>3. \E w \in T \union {x} : \A y \in T \union {x} : w >= y
      <4>1. CASE z >= x
        BY <3>1, <4>1
      <4>2. CASE ~(z >= x)
        <5>1. \A y \in T \union {x} : x >= y
          BY <3>1, <3>2, <4>2
        <5> QED BY <5>1
      <4> QED BY <4>1, <4>2
    <3> QED BY <3>3
  <2> QED BY <2>1, <2>2
<1>3. S \in Good
  <2> HIDE DEF Good
  <2> QED BY <1>1, <1>2, SetInduction
<1>4. \E x \in S : \A y \in S : x >= y
  BY <1>3
<1> QED BY <1>4, Zenon DEF Max

LEMMA MaxOfTwo ==
  ASSUME NEW a \in Int, NEW b \in Int
  PROVE  /\ Max({a, b}) = IF a >= b THEN a ELSE b
         /\ Min({a, b}) = IF a <= b THEN a ELSE b
<1>1. PICK x \in {a, b} : \A y \in {a, b} : x >= y
  <2>1. CASE a >= b
    BY <2>1
  <2>2. CASE ~(a >= b)
    BY <2>2
  <2> QED BY <2>1, <2>2
<1>2. Max({a, b}) \in {a, b} /\ \A y \in {a, b} : Max({a, b}) >= y
  BY <1>1, Zenon DEF Max
<1>3. PICK z \in {a, b} : \A y \in {a, b} : z =< y
  <2>1. CASE a =< b
    BY <2>1
  <2>2. CASE ~(a =< b)
    BY <2>2
  <2> QED BY <2>1, <2>2
<1>4. Min({a, b}) \in {a, b} /\ \A y \in {a, b} : Min({a, b}) =< y
  BY <1>3, Zenon DEF Min
<1> QED BY <1>2, <1>4

-----------------------------------------------------------------------------
(***************************************************************************)
(* The table the reports read.                                             *)
(***************************************************************************)
Statuses == {"scheduled", "active", "completed", "absent", "cancelled"}
RowShape == [status : Statuses, teacher : DOMAIN DeptOf, room : RRooms, sched : Nat, until : Nat,
             from : Int, to : Int, early : BOOLEAN, checks : Nat]

\* Rows are rows, and a class still to be held has no times; a slot ends after it begins.
RowsTyped ==
  /\ Dated \in SUBSET RSessions /\ rtable \in [Dated -> RowShape]
  /\ \A s \in Dated : rtable[s].status = "scheduled" => rtable[s].from = NoTime /\ rtable[s].to = NoTime
SlotsTyped == slot \in [RSchedules -> Slots] /\ \A c \in RSchedules : slot[c].from < slot[c].to
TableInv == RowsTyped /\ SlotsTyped

LEMMA PagesSteps == BackInit => ReportingInit
  BY DEF BackInit

LEMMA PagesTurns == [BackNext]_backVars => [ReportingNext]_reportingVars
  BY DEF backVars, BackNext, RosterTurn, PushTurn, JobTurn, WeeklyTurn, CampusTurn, ImportTurn,
         PagesTurn, PeopleTurn, PagesRest

LEMMA TableBegins == ReportingInit => TableInv
<1> SUFFICES ASSUME ReportingInit PROVE TableInv
  OBVIOUS
<1>1. SlotsTyped
  BY ReportingConstants DEF ReportingInit, SlotsTyped
<1>2. RowsTyped
  <2>1. rtable = <<>>
    BY DEF ReportingInit
  <2>2. Dated = {}
    BY <2>1 DEF Dated
  <2>3. rtable \in [{} -> RowShape]
    BY <2>1
  <2> QED BY <2>2, <2>3 DEF RowsTyped
<1> QED BY <1>1, <1>2 DEF TableInv

\* A row set to another row of the right shape.
LEMMA RowUpdated ==
  ASSUME RowsTyped, NEW s \in Dated, NEW row \in RowShape, Update(s, row), 
         row.status = "scheduled" => row.from = NoTime /\ row.to = NoTime
  PROVE  RowsTyped'
<1>1. rtable' = [rtable EXCEPT ![s] = row]
  BY DEF Update
<1>2. Dated' = Dated
  BY <1>1 DEF Dated
<1>3. rtable' \in [Dated -> RowShape]
  BY <1>1 DEF RowsTyped
<1>4. ASSUME NEW x \in Dated, rtable'[x].status = "scheduled"
      PROVE  rtable'[x].from = NoTime /\ rtable'[x].to = NoTime
  <2>1. CASE x = s
    <3>1. rtable'[x] = row
      BY <1>1, <2>1 DEF RowsTyped
    <3> QED BY <1>4, <3>1
  <2>2. CASE x # s
    <3>1. rtable'[x] = rtable[x]
      BY <1>1, <2>2 DEF RowsTyped
    <3> QED BY <1>4, <3>1 DEF RowsTyped
  <2> QED BY <2>1, <2>2
<1> QED BY <1>2, <1>3, <1>4 DEF RowsTyped

LEMMA RowOf ==
  ASSUME RowsTyped, NEW s \in Dated
  PROVE  /\ rtable[s] \in RowShape /\ s \in RSessions
         /\ rtable[s].status \in Statuses /\ rtable[s].teacher \in DOMAIN DeptOf
         /\ rtable[s].room \in RRooms /\ rtable[s].sched \in Nat /\ rtable[s].until \in Nat
         /\ rtable[s].from \in Int /\ rtable[s].to \in Int /\ rtable[s].checks \in Nat
         /\ rtable[s].status = "scheduled" => rtable[s].from = NoTime /\ rtable[s].to = NoTime
<1>1. rtable[s] \in RowShape /\ s \in RSessions
  BY DEF RowsTyped
<1>2. rtable[s].status = "scheduled" => rtable[s].from = NoTime /\ rtable[s].to = NoTime
  BY DEF RowsTyped
<1> QED BY <1>1, <1>2 DEF RowShape

\* One field of a row changed.
LEMMA StatusChanged ==
  ASSUME NEW row \in RowShape, NEW v \in Statuses
  PROVE  [row EXCEPT !.status = v] \in RowShape /\ [row EXCEPT !.status = v].status = v
  BY DEF RowShape

LEMMA CheckedIn ==
  ASSUME NEW row \in RowShape, NEW t \in Int
  PROVE  LET new == [row EXCEPT !.status = "active", !.from = t]
         IN  new \in RowShape /\ new.status = "active"
<1> DEFINE new == [row EXCEPT !.status = "active", !.from = t]
<1>1. "active" \in Statuses
  BY DEF Statuses
<1>2. new \in RowShape
  BY <1>1, Zenon DEF RowShape
<1>3. new.status = "active"
  BY DEF RowShape
<1> QED BY <1>2, <1>3

LEMMA CheckedOut ==
  ASSUME NEW row \in RowShape, NEW t \in Int, NEW e \in BOOLEAN
  PROVE  LET new == [row EXCEPT !.status = "completed", !.to = t, !.early = e]
         IN  new \in RowShape /\ new.status = "completed"
<1> DEFINE new == [row EXCEPT !.status = "completed", !.to = t, !.early = e]
<1>1. "completed" \in Statuses
  BY DEF Statuses
<1>2. new \in RowShape
  BY <1>1, Zenon DEF RowShape
<1>3. new.status = "completed"
  BY DEF RowShape
<1> QED BY <1>2, <1>3

LEMMA Replanned ==
  ASSUME NEW row \in RowShape, NEW at \in Slots
  PROVE  LET new == [row EXCEPT !.teacher = at.teacher, !.room = at.room,
                                !.sched = at.from, !.until = at.to]
         IN  new \in RowShape /\ new.status = row.status /\ new.from = row.from /\ new.to = row.to
<1> DEFINE new == [row EXCEPT !.teacher = at.teacher, !.room = at.room,
                              !.sched = at.from, !.until = at.to]
<1>1. at.teacher \in DOMAIN DeptOf /\ at.room \in RRooms /\ at.from \in Nat /\ at.to \in Nat
  BY DEF Slots
<1>2. new \in RowShape
  BY <1>1, Zenon DEF RowShape
<1>3. new.status = row.status /\ new.from = row.from /\ new.to = row.to
  BY DEF RowShape
<1> QED BY <1>2, <1>3

LEMMA RowTaken ==
  ASSUME RowsTyped, NEW s \in Dated, NEW d \in Offsets[s]
  PROVE  /\ class_checkin(s, Sched(s) + d) => RowsTyped'
         /\ class_checkout(s, SchedTo(s) + d) => RowsTyped'
<1>1. rtable[s] \in RowShape /\ Sched(s) + d \in Int /\ SchedTo(s) + d \in Int
  BY RowOf, ReportingConstants DEF Sched, SchedTo
<1>2. ASSUME class_checkin(s, Sched(s) + d) PROVE RowsTyped'
  <2> DEFINE row == [rtable[s] EXCEPT !.status = "active", !.from = Sched(s) + d]
  <2>1. row \in RowShape /\ row.status = "active"
    BY <1>1, CheckedIn
  <2>2. Update(s, row)
    BY <1>2 DEF class_checkin
  <2> HIDE DEF row
  <2> QED BY <2>1, <2>2, RowUpdated
<1>3. ASSUME class_checkout(s, SchedTo(s) + d) PROVE RowsTyped'
  <2> DEFINE e == (SchedTo(s) + d < SchedTo(s))
             row == [rtable[s] EXCEPT !.status = "completed", !.to = SchedTo(s) + d, !.early = e]
  <2>0. e \in BOOLEAN
    OBVIOUS
  <2>1. Update(s, row)
    BY <1>3, Zenon DEF class_checkout
  <2> HIDE DEF e
  <2>2. row \in RowShape /\ row.status = "completed"
    BY <1>1, <2>0, CheckedOut
  <2> HIDE DEF row
  <2> QED BY <2>1, <2>2, RowUpdated
<1> QED BY <1>2, <1>3

LEMMA RowSettled ==
  ASSUME RowsTyped, NEW s \in Dated, NEW r \in RRooms
  PROVE  class_absent(s) \/ class_cancel(s) \/ class_verify(s) \/ class_move(s, r) => RowsTyped'
<1>1. rtable[s] \in RowShape /\ "absent" \in Statuses /\ "cancelled" \in Statuses
  BY RowOf DEF Statuses
<1>2. ASSUME class_absent(s) PROVE RowsTyped'
  <2>1. Update(s, [rtable[s] EXCEPT !.status = "absent"])
    BY <1>2 DEF class_absent
  <2>2. [rtable[s] EXCEPT !.status = "absent"] \in RowShape
        /\ [rtable[s] EXCEPT !.status = "absent"].status = "absent"
    BY <1>1, StatusChanged
  <2> QED BY <2>1, <2>2, RowUpdated
<1>3. ASSUME class_cancel(s) PROVE RowsTyped'
  <2>1. Update(s, [rtable[s] EXCEPT !.status = "cancelled"])
    BY <1>3 DEF class_cancel
  <2>2. [rtable[s] EXCEPT !.status = "cancelled"] \in RowShape
        /\ [rtable[s] EXCEPT !.status = "cancelled"].status = "cancelled"
    BY <1>1, StatusChanged
  <2> QED BY <2>1, <2>2, RowUpdated
<1>4. ASSUME class_verify(s) PROVE RowsTyped'
  <2> DEFINE row == [rtable[s] EXCEPT !.checks = @ + 1]
  <2>1. Update(s, row) /\ rtable[s].status = "active"
    BY <1>4 DEF class_verify
  <2>2. row \in RowShape
    BY <1>1 DEF RowShape
  <2>3. row.status = rtable[s].status
    BY <1>1 DEF RowShape
  <2> HIDE DEF row
  <2> QED BY <2>1, <2>2, <2>3, RowUpdated
<1>5. ASSUME class_move(s, r) PROVE RowsTyped'
  <2> DEFINE row == [rtable[s] EXCEPT !.room = r]
  <2>1. Update(s, row) /\ rtable[s].status = "scheduled"
    BY <1>5 DEF class_move
  <2>2. row \in RowShape
    BY <1>1 DEF RowShape
  <2>3. row.status = rtable[s].status /\ row.from = rtable[s].from /\ row.to = rtable[s].to
    BY <1>1 DEF RowShape
  <2> HIDE DEF row
  <2> QED BY <2>1, <2>2, <2>3, RowUpdated, RowOf
<1> QED BY <1>2, <1>3, <1>4, <1>5

LEMMA RowsMade == ASSUME TableInv, sessions_made PROVE RowsTyped'
<1> DEFINE at(s) == slot[ScheduleOf[s]]
           new(s) == [status |-> "scheduled", teacher |-> at(s).teacher, room |-> at(s).room,
                      sched |-> at(s).from, until |-> at(s).to, from |-> NoTime, to |-> NoTime,
                      early |-> FALSE, checks |-> 0]
<1>1. rtable' = [s \in RSessions |-> new(s)]
  BY DEF sessions_made
<1>2. ASSUME NEW s \in RSessions
      PROVE  new(s) \in RowShape /\ new(s).from = NoTime /\ new(s).to = NoTime
  <2>1. ScheduleOf[s] \in RSchedules
    BY ReportingConstants
  <2>2. at(s) \in Slots
    BY <2>1 DEF TableInv, SlotsTyped
  <2> HIDE DEF at
  <2>3. at(s).teacher \in DOMAIN DeptOf /\ at(s).room \in RRooms /\ at(s).from \in Nat /\ at(s).to \in Nat
    BY <2>2 DEF Slots
  <2>4. NoTime \in Int /\ "scheduled" \in Statuses
    BY DEF NoTime, Statuses
  <2> QED BY <2>3, <2>4 DEF RowShape
<1> HIDE DEF new
<1>3. Dated' = RSessions
  BY <1>1 DEF Dated
<1>4. rtable' \in [RSessions -> RowShape]
  BY <1>1, <1>2
<1>5. \A s \in RSessions : rtable'[s].from = NoTime /\ rtable'[s].to = NoTime
  BY <1>1, <1>2
<1> QED BY <1>3, <1>4, <1>5 DEF RowsTyped

LEMMA SchedulesChanged ==
  ASSUME TableInv, NEW c \in RSchedules, NEW today
  PROVE  schedule_update(c, today) \/ schedule_drop(c, today) => TableInv'
<1>0. \A s \in Dated : rtable[s] \in RowShape
  BY RowOf DEF TableInv
<1>1. ASSUME schedule_update(c, today) PROVE TableInv'
  <2> DEFINE at == SlotEdit[c]
             future(s) == ScheduleOf[s] = c /\ rtable[s].status = "scheduled" /\ DateOf[s] >= today
             new(s) == [rtable[s] EXCEPT !.teacher = at.teacher, !.room = at.room,
                                         !.sched = at.from, !.until = at.to]
  <2>1. rtable' = [s \in Dated |-> IF future(s) THEN new(s) ELSE rtable[s]]
    BY <1>1 DEF schedule_update
  <2>2. slot' = [slot EXCEPT ![c] = at]
    BY <1>1 DEF schedule_update
  <2>3. at \in Slots /\ at.from < at.to
    BY ReportingConstants
  <2>4. SlotsTyped'
    BY <2>2, <2>3 DEF TableInv, SlotsTyped
  <2> HIDE DEF at
  <2>5. \A s \in Dated : /\ new(s) \in RowShape /\ new(s).status = rtable[s].status
                         /\ new(s).from = rtable[s].from /\ new(s).to = rtable[s].to
    BY <1>0, <2>3, Replanned
  <2> HIDE DEF new, future
  <2>6. Dated' = Dated /\ rtable' \in [Dated -> RowShape]
    BY <1>0, <2>1, <2>5 DEF Dated
  <2>7. \A s \in Dated : rtable'[s].status = rtable[s].status /\ rtable'[s].from = rtable[s].from
                         /\ rtable'[s].to = rtable[s].to
    BY <2>1, <2>5
  <2>8. RowsTyped'
    BY <2>6, <2>7 DEF TableInv, RowsTyped
  <2> QED BY <2>4, <2>8 DEF TableInv
<1>2. ASSUME schedule_drop(c, today) PROVE TableInv'
  <2> DEFINE future(s) == ScheduleOf[s] = c /\ rtable[s].status = "scheduled" /\ DateOf[s] >= today
             new(s) == [rtable[s] EXCEPT !.status = "cancelled"]
  <2>1. rtable' = [s \in Dated |-> IF future(s) THEN new(s) ELSE rtable[s]] /\ slot' = slot
    BY <1>2 DEF schedule_drop
  <2>2. \A s \in Dated : new(s) \in RowShape /\ new(s).status = "cancelled"
    <3>1. "cancelled" \in Statuses
      BY DEF Statuses
    <3> QED BY <1>0, <3>1, StatusChanged
  <2> HIDE DEF new, future
  <2>3. Dated' = Dated /\ rtable' \in [Dated -> RowShape]
    BY <1>0, <2>1, <2>2 DEF Dated
  <2>4. \A s \in Dated : rtable'[s].status = "cancelled" \/ rtable'[s] = rtable[s]
    BY <2>1, <2>2
  <2>5. RowsTyped'
    BY <2>3, <2>4 DEF TableInv, RowsTyped
  <2> QED BY <2>1, <2>5 DEF TableInv, SlotsTyped
<1> QED BY <1>1, <1>2

LEMMA TableStep == TableInv /\ [ReportingNext]_reportingVars => TableInv'
<1> SUFFICES ASSUME TableInv, [ReportingNext]_reportingVars PROVE TableInv'
  OBVIOUS
<1>0. RowsTyped /\ SlotsTyped
  BY DEF TableInv
<1>1. ASSUME NEW s \in Dated, NEW d \in Offsets[s],
             class_checkin(s, Sched(s) + d) \/ class_checkout(s, SchedTo(s) + d)
      PROVE  TableInv'
  <2>1. RowsTyped'
    BY <1>0, <1>1, RowTaken
  <2>2. slot' = slot
    BY <1>1 DEF class_checkin, class_checkout, Update
  <2> QED BY <1>0, <2>1, <2>2 DEF TableInv, SlotsTyped
<1>2. ASSUME NEW s \in Dated,
             class_absent(s) \/ class_cancel(s) \/ class_verify(s) \/ \E r \in RRooms : class_move(s, r)
      PROVE  TableInv'
  <2>1. RowsTyped'
    <3>1. RRooms # {}
      BY <1>0, RowOf
    <3> QED BY <1>0, <1>2, <3>1, RowSettled
  <2>2. slot' = slot
    BY <1>2 DEF class_absent, class_cancel, class_verify, class_move, Update
  <2> QED BY <1>0, <2>1, <2>2 DEF TableInv, SlotsTyped
<1>3. ASSUME sessions_made PROVE TableInv'
  <2>1. slot' = slot
    BY <1>3 DEF sessions_made
  <2> QED BY <1>0, <1>3, <2>1, RowsMade DEF TableInv, SlotsTyped
<1>4. ASSUME NEW r \in RRooms, room_service(r) PROVE TableInv'
  BY <1>0, <1>4 DEF room_service, TableInv, RowsTyped, SlotsTyped, Dated
<1>5. ASSUME NEW c \in RSchedules, NEW today, schedule_update(c, today) \/ schedule_drop(c, today)
      PROVE  TableInv'
  BY <1>5, SchedulesChanged
<1>6. ASSUME UNCHANGED reportingVars PROVE TableInv'
  BY <1>0, <1>6 DEF reportingVars, TableInv, RowsTyped, SlotsTyped, Dated
<1> QED BY <1>1, <1>2, <1>3, <1>4, <1>5, <1>6 DEF ReportingNext

-----------------------------------------------------------------------------
(***************************************************************************)
(* Hours.                                                                  *)
(***************************************************************************)
LEMMA AtLeast == ASSUME NEW n \in Int PROVE AtLeastZero(n) \in Nat /\ n <= AtLeastZero(n)
  BY DEF AtLeastZero

\* What a session adds: never more used than booked, and all that was booked is used,
\* wasted or still to come.
LEMMA Contribution ==
  ASSUME RowsTyped, NEW s \in Dated
  PROVE  /\ Booked(s) \in Nat /\ Used(s) \in Nat /\ Wasted(s) \in Nat /\ Used(s) <= Booked(s)
         /\ ~Running(s) => Booked(s) = Used(s) + Wasted(s)
                                        + (IF rtable[s].status = "scheduled" THEN Booked(s) ELSE 0)
<1> DEFINE row == rtable[s]
           us == Max({row.from, Sched(s)})
           ue == Min({row.to, SchedTo(s)})
           none == row.status = "cancelled" \/ Running(s)
           idle == row.status = "absent" \/ row.from = NoTime \/ row.to = NoTime
           len  == AtLeastZero(SchedTo(s) - Sched(s))
           part == AtLeastZero(ue - us)
<1>1. /\ row.status \in Statuses /\ row.from \in Int /\ row.to \in Int
      /\ Sched(s) \in Int /\ SchedTo(s) \in Int
      /\ row.status = "scheduled" => row.from = NoTime
  BY RowOf DEF Sched, SchedTo
<1>2. /\ us \in Int /\ ue \in Int /\ Sched(s) <= us /\ ue <= SchedTo(s)
  <2> HIDE DEF row
  <2>1. us = (IF row.from >= Sched(s) THEN row.from ELSE Sched(s))
    BY <1>1, MaxOfTwo
  <2>2. ue = (IF row.to <= SchedTo(s) THEN row.to ELSE SchedTo(s))
    BY <1>1, MaxOfTwo
  <2> HIDE DEF us, ue
  <2> QED BY <1>1, <2>1, <2>2
<1>3. Booked(s) = (IF none THEN 0 ELSE len) /\ Used(s) = (IF none \/ idle THEN 0 ELSE part)
  <2>1. session_contribution(s) = (IF none THEN [booked |-> 0, used |-> 0]
                                   ELSE [booked |-> len, used |-> IF idle THEN 0 ELSE part])
    BY Zenon DEF session_contribution, Running
  <2> HIDE DEF none, idle, len, part
  <2>2. CASE none
    <3>1. session_contribution(s) = [booked |-> 0, used |-> 0]
      BY <2>1, <2>2, Zenon
    <3> QED BY <2>2, <3>1 DEF Booked, Used
  <2>3. CASE ~none
    <3>1. session_contribution(s) = [booked |-> len, used |-> IF idle THEN 0 ELSE part]
      BY <2>1, <2>3, Zenon
    <3> QED BY <2>3, <3>1 DEF Booked, Used
  <2> QED BY <2>2, <2>3
<1>4. len \in Nat /\ part \in Nat /\ part <= len
  <2> HIDE DEF us, ue
  <2>1. SchedTo(s) - Sched(s) \in Int /\ ue - us \in Int /\ ue - us <= SchedTo(s) - Sched(s)
    BY <1>1, <1>2
  <2> QED BY <2>1 DEF AtLeastZero
<1>5. Booked(s) \in Nat /\ Used(s) \in Nat /\ Used(s) <= Booked(s)
  <2> HIDE DEF none, idle, len, part
  <2> QED BY <1>3, <1>4
<1>6. Wasted(s) = IF row.status = "absent" THEN Booked(s)
                  ELSE IF row.status \in {"active", "completed"} THEN Booked(s) - Used(s) ELSE 0
  BY <1>5 DEF Wasted, Held, AtLeastZero
<1>7. Wasted(s) \in Nat
  <2> HIDE DEF row
  <2> QED BY <1>5, <1>6
<1>8. ASSUME ~Running(s)
      PROVE  Booked(s) = Used(s) + Wasted(s) + (IF row.status = "scheduled" THEN Booked(s) ELSE 0)
  <2> HIDE DEF len, part
  <2>1. CASE row.status = "scheduled"
    BY <1>1, <1>3, <1>5, <1>6, <2>1
  <2>2. CASE row.status = "absent"
    BY <1>3, <1>5, <1>6, <2>2
  <2>3. CASE row.status = "cancelled"
    BY <1>3, <1>5, <1>6, <2>3
  <2>4. CASE row.status \in {"active", "completed"}
    <3>1. Wasted(s) = Booked(s) - Used(s)
      BY <1>6, <2>4
    <3>2. row.status # "scheduled"
      BY <2>4
    <3> QED BY <1>5, <3>1, <3>2
  <2> QED BY <1>1, <2>1, <2>2, <2>3, <2>4 DEF Statuses
<1> QED BY <1>5, <1>7, <1>8

LEMMA DatedFinite == ASSUME RowsTyped, NEW S \in SUBSET Dated PROVE IsFiniteSet(S)
  BY ReportingConstants, FS_Subset DEF RowsTyped

LEMMA SettledIn == ASSUME NEW sc PROVE /\ Settled(sc) \in SUBSET Dated /\ scoped_sessions(sc) \in SUBSET Dated
                                       /\ \A s \in Settled(sc) : /\ ~Running(s) /\ ScheduleOf[s] \notin dropped
                                                                 /\ rtable[s].room \notin Virtual
  BY DEF Settled, exclude_virtual, scoped_sessions

\* A load is three sums.
LEMMA LoadSums ==
  ASSUME NEW S
  PROVE  /\ Load(S).booked = SumOn([s \in S |-> Booked(s)], S)
         /\ Load(S).used = SumOn([s \in S |-> Used(s)], S)
         /\ Load(S).wasted = SumOn([s \in S |-> Wasted(s)], S)
<1>1. /\ Total([s \in S |-> Booked(s)]) = SumOn([s \in S |-> Booked(s)], S)
      /\ Total([s \in S |-> Used(s)]) = SumOn([s \in S |-> Used(s)], S)
      /\ Total([s \in S |-> Wasted(s)]) = SumOn([s \in S |-> Wasted(s)], S)
  BY TotalOn
<1> QED BY <1>1 DEF Load

LEMMA LoadBalances ==
  ASSUME RowsTyped, NEW S \in SUBSET Dated, \A s \in S : ~Running(s)
  PROVE  Load(S).booked = Load(S).used + Load(S).wasted
           + Total([s \in {x \in S : rtable[x].status = "scheduled"} |-> Booked(s)])
<1> DEFINE b == [s \in S |-> Booked(s)]
           u == [s \in S |-> Used(s)]
           w == [s \in S |-> Wasted(s)]
           uw == [s \in S |-> Used(s) + Wasted(s)]
           R == {x \in S : rtable[x].status = "scheduled"}
           e == [s \in S |-> IF s \in R THEN Booked(s) ELSE 0]
           r == [s \in R |-> Booked(s)]
<1>1. \A s \in S : /\ Booked(s) \in Nat /\ Used(s) \in Nat /\ Wasted(s) \in Nat
                   /\ Booked(s) = Used(s) + Wasted(s)
                                  + (IF rtable[s].status = "scheduled" THEN Booked(s) ELSE 0)
  BY Contribution
<1>2. \A s \in S : /\ b[s] = uw[s] + e[s] /\ uw[s] = u[s] + w[s]
                   /\ e[s] = IF s \in R THEN r[s] ELSE 0
  BY <1>1
<1>3. Numbers(u, S) /\ Numbers(w, S) /\ Numbers(uw, S) /\ Numbers(e, S) /\ Numbers(r, R) /\ R \in SUBSET S
  BY <1>1 DEF Numbers
<1>4. IsFiniteSet(S)
  BY DatedFinite
<1>5. Total(r) = SumOn(r, R)
  BY TotalOn
<1>6. Load(S).booked = SumOn(b, S) /\ Load(S).used = SumOn(u, S) /\ Load(S).wasted = SumOn(w, S)
  BY LoadSums
<1> HIDE DEF b, u, w, uw, R, e, r
<1>7. SumOn(b, S) = SumOn(uw, S) + SumOn(e, S)
  BY <1>2, <1>3, <1>4, SumPlus
<1>8. SumOn(uw, S) = SumOn(u, S) + SumOn(w, S)
  BY <1>2, <1>3, <1>4, SumPlus
<1>9. SumOn(e, S) = SumOn(r, R)
  BY <1>2, <1>3, <1>4, SumWhere
<1> QED BY <1>5, <1>6, <1>7, <1>8, <1>9 DEF r, R

LEMMA ImageFinite ==
  ASSUME NEW S, IsFiniteSet(S), NEW f PROVE IsFiniteSet({f[x] : x \in S})
<1> DEFINE T == {f[x] : x \in S}
           g == [x \in S |-> f[x]]
<1>1. g \in Surjection(S, T)
  BY DEF Surjection
<1> QED BY <1>1, FS_Surjection

LEMMA LadderIs ==
  ASSUME SlotsTyped
  PROVE  /\ IsFiniteSet(Ladder) /\ Ladder \in SUBSET Nat
         /\ IsFiniteSet(active_schedules) /\ active_schedules \in SUBSET RSchedules
         /\ \A c \in RSchedules : slot[c].from \in Nat /\ slot[c].to \in Nat /\ slot[c].from < slot[c].to
<1>1. IsFiniteSet(active_schedules) /\ active_schedules \in SUBSET RSchedules
  BY ReportingConstants, FS_Difference DEF active_schedules
<1>2. \A c \in RSchedules : slot[c].from \in Nat /\ slot[c].to \in Nat /\ slot[c].from < slot[c].to
  BY DEF SlotsTyped, Slots
<1>3. IsFiniteSet(Ladder)
  <2> DEFINE f == [c \in active_schedules |-> slot[c].from]
  <2>1. Ladder = {f[c] : c \in active_schedules}
    BY DEF Ladder
  <2> HIDE DEF f
  <2> QED BY <1>1, <2>1, ImageFinite
<1> QED BY <1>1, <1>2, <1>3 DEF Ladder

\* A block's duration is that of one of its classes.
LEMMA DurationIs ==
  ASSUME SlotsTyped, NEW b \in Ladder PROVE block_duration(b) \in Nat
<1> DEFINE here == {c \in active_schedules : slot[c].from = b}
           votes(d) == Cardinality({c \in here : span(c) = d})
           counted == [c \in here |-> votes(span(c))]
           top == Max({votes(span(c)) : c \in here})
           best == {d \in {span(c) : c \in here} : votes(d) = top}
<1>1. IsFiniteSet(here) /\ here # {} /\ here \in SUBSET RSchedules
  <2>1. IsFiniteSet(here)
    BY LadderIs, FS_Subset
  <2>2. here # {} /\ here \in SUBSET RSchedules
    BY LadderIs DEF Ladder
  <2> QED BY <2>1, <2>2
<1>2. \A c \in here : span(c) \in Nat
  <2>1. \A c \in here : slot[c].to - slot[c].from \in Int
    BY <1>1, LadderIs
  <2> QED BY <2>1, AtLeast DEF span
<1> DEFINE spans == [c \in here |-> span(c)]
<1>3. IsFiniteSet({span(c) : c \in here})
  <2>1. {span(c) : c \in here} = {spans[c] : c \in here}
    OBVIOUS
  <2> HIDE DEF spans, here
  <2>2. IsFiniteSet({spans[c] : c \in here})
    BY <1>1, ImageFinite
  <2> QED BY <2>1, <2>2
<1>4. IsFiniteSet({votes(span(c)) : c \in here}) /\ {votes(span(c)) : c \in here} \in SUBSET Int
  <2>1. {votes(span(c)) : c \in here} = {counted[c] : c \in here}
    OBVIOUS
  <2>2. \A d : votes(d) \in Nat
    BY <1>1, FS_Subset, FS_CardinalityType
  <2> HIDE DEF counted, votes, here
  <2>3. IsFiniteSet({counted[c] : c \in here})
    BY <1>1, ImageFinite
  <2> QED BY <2>1, <2>2, <2>3
<1> HIDE DEF votes, here
<1>5. top \in {votes(span(c)) : c \in here}
  <2>1. {votes(span(c)) : c \in here} # {}
    BY <1>1
  <2> QED BY <1>4, <2>1, FinMax
<1>6. best # {} /\ best \in SUBSET {span(c) : c \in here} /\ best \in SUBSET Int
  <2> HIDE DEF top
  <2>1. PICK c \in here : votes(span(c)) = top
    BY <1>5
  <2>2. span(c) \in best
    BY <2>1
  <2> QED BY <1>2, <2>2
<1>7. IsFiniteSet(best)
  BY <1>3, <1>6, FS_Subset
<1>8. Max(best) \in best
  BY <1>6, <1>7, FinMax
<1>9. block_duration(b) = Max(best)
  BY Zenon DEF block_duration, votes, here
<1> HIDE DEF best
<1> QED BY <1>2, <1>6, <1>8, <1>9

\* However the hours are weighed, the parts add up to the whole.
LEMMA Distributed ==
  ASSUME NEW B, IsFiniteSet(B), B \in SUBSET Int, B # {},
         NEW ws, DOMAIN ws = B, \A b \in B : ws[b] \in Nat \ {0}, NEW total \in Nat
  PROVE  /\ DOMAIN distribute(total, ws) = B
         /\ \A b \in B : distribute(total, ws)[b] \in Int
         /\ SumOn(distribute(total, ws), B) = total
<1> DEFINE parts == [b \in B |-> (total * ws[b]) \div Total(ws)]
           last == Max(B)
           rest == [b \in B \ {last} |-> parts[b]]
           all == [parts EXCEPT ![last] = total - Total(rest)]
<1>1. distribute(total, ws) = all
  BY Zenon DEF distribute
<1>2. last \in B
  BY FinMax
<1>3. Total(ws) \in Nat \ {0}
  <2>1. Total(ws) = SumOn(ws, B)
    BY TotalOn
  <2>2. SumOn(ws, B) \in Nat /\ ws[last] <= SumOn(ws, B) /\ ws[last] \in Nat \ {0}
    BY <1>2, SumNat
  <2> QED BY <2>1, <2>2
<1>4. \A b \in B : parts[b] \in Int
  <2>1. \A b \in B : total * ws[b] \in Int
    OBVIOUS
  <2> QED BY <1>3, <2>1
<1>5. Numbers(rest, B \ {last}) /\ Total(rest) = SumOn(rest, B \ {last}) /\ IsFiniteSet(B \ {last})
  BY <1>4, TotalOn, FS_Difference DEF Numbers
<1>6. Total(rest) \in Int
  BY <1>5, SumInt
<1>7. all[last] = total - Total(rest) /\ \A b \in B \ {last} : all[b] = parts[b] /\ rest[b] = all[b]
  BY <1>2
<1>8. DOMAIN all = B
  OBVIOUS
<1> HIDE DEF all, rest, last, parts
<1>9. Numbers(all, B)
  BY <1>4, <1>6, <1>7 DEF Numbers
<1>10. SumOn(all, B) = all[last] + SumOn(all, B \ {last})
  BY <1>2, <1>9, SumWith
<1>11. SumOn(rest, B \ {last}) = SumOn(all, B \ {last})
  BY <1>5, <1>7, SumSame
<1>12. SumOn(all, B) = total
  BY <1>5, <1>6, <1>7, <1>10, <1>11
<1> QED BY <1>1, <1>8, <1>9, <1>12 DEF Numbers

\* Sums by cell and by session are the same sum.
SpreadOver(S, L, W, blocks, day, hrs) ==
  /\ \A s \in S : day[s] \in W /\ blocks[s] \in SUBSET L
  /\ \A s \in S : \A b \in blocks[s] : hrs[s][b] \in Int
BySession(S, blocks, hrs, t) == \A s \in S : t[s] = SumOn(hrs[s], blocks[s])
ByCell(S, L, W, blocks, day, hrs, H, g) ==
  /\ \A c \in L \X W : H[c] = {s \in S : day[s] = c[2] /\ c[1] \in blocks[s]}
  /\ \A c \in L \X W : g[c] = SumOn([s \in H[c] |-> hrs[s][c[1]]], H[c])

LEMMA SumGrid ==
  ASSUME NEW S, IsFiniteSet(S), NEW L, IsFiniteSet(L), NEW W, IsFiniteSet(W),
         NEW blocks, NEW day, NEW hrs, NEW t, NEW H, NEW g,
         SpreadOver(S, L, W, blocks, day, hrs), BySession(S, blocks, hrs, t),
         ByCell(S, L, W, blocks, day, hrs, H, g)
  PROVE  SumOn(g, L \X W) = SumOn(t, S)
<1> USE DEF SpreadOver, BySession, ByCell
<1> DEFINE P == {p \in S \X L : p[2] \in blocks[p[1]]}
           F == [p \in P |-> hrs[p[1]][p[2]]]
           Of == [s \in S |-> {p \in P : p[1] = s}]
           In == [c \in L \X W |-> {p \in P : p[2] = c[1] /\ day[p[1]] = c[2]}]
<1>1. IsFiniteSet(P) /\ IsFiniteSet(L \X W)
  <2>1. IsFiniteSet(S \X L) /\ IsFiniteSet(L \X W)
    BY FS_Product
  <2> QED BY <2>1, FS_Subset
<1>2. Numbers(F, P)
  BY DEF Numbers
<1>3. ASSUME NEW s \in S PROVE t[s] = SumOn(F, Of[s])
  <2> DEFINE m == [b \in blocks[s] |-> <<s, b>>]
  <2>1. {m[b] : b \in blocks[s]} = Of[s]
    <3>1. ASSUME NEW p \in Of[s] PROVE p \in {m[b] : b \in blocks[s]}
      <4>1. p \in S \X L /\ p[1] = s /\ p[2] \in blocks[s] /\ p = <<p[1], p[2]>>
        OBVIOUS
      <4>2. p = m[p[2]]
        BY <4>1
      <4> QED BY <4>1, <4>2
    <3>2. ASSUME NEW b \in blocks[s] PROVE m[b] \in Of[s]
      OBVIOUS
    <3>3. Of[s] \subseteq {m[b] : b \in blocks[s]}
      BY <3>1
    <3>4. {m[b] : b \in blocks[s]} \subseteq Of[s]
      <4> HIDE DEF m, Of
      <4> QED BY <3>2
    <3> HIDE DEF m, Of
    <3> QED BY <3>3, <3>4
  <2>2. \A b, e \in blocks[s] : m[b] = m[e] => b = e
    OBVIOUS
  <2>3. \A b \in blocks[s] : hrs[s][b] = F[m[b]]
    OBVIOUS
  <2>4. IsFiniteSet(blocks[s]) /\ Numbers(hrs[s], blocks[s])
    BY FS_Subset DEF Numbers
  <2> HIDE DEF m, F, Of
  <2>5. SumOn(hrs[s], blocks[s]) = SumOn(F, {m[b] : b \in blocks[s]})
    <3> DEFINE B == blocks[s]
               f == hrs[s]
    <3>1. /\ IsFiniteSet(B) /\ Numbers(f, B) /\ \A b \in B : f[b] = F[m[b]]
          /\ \A b, e \in B : m[b] = m[e] => b = e
      BY <2>2, <2>3, <2>4
    <3> HIDE DEF B, f
    <3>2. SumOn(f, B) = SumOn(F, {m[b] : b \in B})
      BY ONLY <3>1, SumRenamed
    <3> QED BY <3>2 DEF B, f
  <2> QED BY <2>1, <2>5
<1>4. ASSUME NEW c \in L \X W PROVE g[c] = SumOn(F, In[c])
  <2> DEFINE m == [s \in H[c] |-> <<s, c[1]>>]
             h == [s \in H[c] |-> hrs[s][c[1]]]
  <2>0. H[c] = {s \in S : day[s] = c[2] /\ c[1] \in blocks[s]} /\ g[c] = SumOn(h, H[c])
    OBVIOUS
  <2>1. {m[s] : s \in H[c]} = In[c]
    <3>1. ASSUME NEW p \in In[c] PROVE p \in {m[s] : s \in H[c]}
      <4>1. p \in S \X L /\ p[2] = c[1] /\ p[2] \in blocks[p[1]] /\ p = <<p[1], p[2]>> /\ day[p[1]] = c[2]
        OBVIOUS
      <4>2. p[1] \in H[c] /\ p = m[p[1]]
        BY <2>0, <4>1
      <4> QED BY <4>2
    <3>2. ASSUME NEW s \in H[c] PROVE m[s] \in In[c]
      BY <2>0
    <3>3. In[c] \subseteq {m[s] : s \in H[c]}
      BY <3>1
    <3>4. {m[s] : s \in H[c]} \subseteq In[c]
      <4> HIDE DEF m, In
      <4> QED BY <3>2
    <3> HIDE DEF m, In
    <3> QED BY <3>3, <3>4
  <2>2. \A s, x \in H[c] : m[s] = m[x] => s = x
    OBVIOUS
  <2>3. \A s \in H[c] : h[s] = F[m[s]]
    BY <2>0
  <2>4. IsFiniteSet(H[c])
    BY <2>0, FS_Subset
  <2>5. Numbers(h, H[c])
    BY <2>0 DEF Numbers
  <2> HIDE DEF m, F, In, h
  <2>6. SumOn(h, H[c]) = SumOn(F, {m[s] : s \in H[c]})
    <3> DEFINE B == H[c]
    <3>1. /\ IsFiniteSet(B) /\ Numbers(h, B) /\ \A s \in B : h[s] = F[m[s]]
          /\ \A s, x \in B : m[s] = m[x] => s = x
      BY <2>2, <2>3, <2>4, <2>5
    <3> HIDE DEF B
    <3>2. SumOn(h, B) = SumOn(F, {m[s] : s \in B})
      BY ONLY <3>1, SumRenamed
    <3> QED BY <3>2 DEF B
  <2> QED BY <2>0, <2>1, <2>6
<1>5. SumOn(F, P) = SumOn(t, S)
  <2>1. \A s \in S : Of[s] \in SUBSET P
    OBVIOUS
  <2>2. \A p \in P : \E s \in S : p \in Of[s]
    OBVIOUS
  <2>3. \A s, x \in S : s # x => Of[s] \cap Of[x] = {}
    OBVIOUS
  <2> HIDE DEF F, P, Of
  <2> QED BY <1>1, <1>2, <1>3, <2>1, <2>2, <2>3, SumParts
<1>6. SumOn(F, P) = SumOn(g, L \X W)
  <2>1. \A c \in L \X W : In[c] \in SUBSET P
    OBVIOUS
  <2>2. ASSUME NEW p \in P PROVE \E c \in L \X W : p \in In[c]
    <3>1. <<p[2], day[p[1]]>> \in L \X W
      OBVIOUS
    <3>2. p \in In[<<p[2], day[p[1]]>>]
      BY <3>1
    <3> QED BY <3>1, <3>2
  <2>3. \A c, x \in L \X W : c # x => In[c] \cap In[x] = {}
    OBVIOUS
  <2> HIDE DEF F, P, In
  <2> QED BY <1>1, <1>2, <1>4, <2>1, <2>2, <2>3, SumParts
<1> QED BY <1>5, <1>6

LEMMA TableSame == ASSUME NEW f PROVE Table(f) = f
  BY DEF Table

\* A session falls into at least one block, and the weights of its blocks are positive.
LEMMA BlocksIs ==
  ASSUME TableInv, NEW sc, NEW s \in Settled(sc)
  PROVE  /\ occupied(s) \in SUBSET Ladder /\ occupied(s) # {}
         /\ IsFiniteSet(occupied(s)) /\ occupied(s) \in SUBSET Int
         /\ DOMAIN weights(occupied(s)) = occupied(s)
         /\ \A b \in occupied(s) : weights(occupied(s))[b] \in Nat \ {0}
         /\ DayOf[ScheduleOf[s]] \in 0..6
<1>0. RowsTyped /\ SlotsTyped
  BY DEF TableInv
<1> DEFINE c == ScheduleOf[s]
<1>1. s \in RSessions /\ c \in RSchedules /\ c \in active_schedules /\ DayOf[c] \in 0..6
  BY <1>0, SettledIn, RowOf, ReportingConstants DEF active_schedules
<1>2. slot[c].from \in Ladder /\ slot[c].from \in Nat /\ slot[c].from < slot[c].to
  BY <1>0, <1>1, LadderIs DEF Ladder
<1>3. occupied(s) = {b \in Ladder : slot[c].from <= b /\ b < slot[c].to}
  BY DEF occupied
<1> HIDE DEF c
<1>4. occupied(s) \in SUBSET Ladder /\ slot[c].from \in occupied(s)
  BY <1>2, <1>3
<1>5. IsFiniteSet(occupied(s)) /\ occupied(s) \in SUBSET Int
  BY <1>0, <1>4, LadderIs, FS_Subset
<1>6. \A b \in occupied(s) : weights(occupied(s))[b] \in Nat \ {0}
  BY <1>0, <1>4, DurationIs DEF weights
<1>7. DOMAIN weights(occupied(s)) = occupied(s)
  BY DEF weights
<1> QED BY <1>1, <1>4, <1>5, <1>6, <1>7 DEF c

\* The cells of the grid add up to the hours that were spread over them.
Here(sc, c) == {x \in Settled(sc) : DayOf[ScheduleOf[x]] = c[2] /\ c[1] \in occupied(x)}

CutUp(sc, v, hrs) ==
  \A s \in Settled(sc) : v[s] \in Nat /\ hrs[s] = distribute(v[s], weights(occupied(s)))
PutIn(sc, hrs, g) ==
  \A c \in Ladder \X (0..6) : g[c] = Total([s \in Here(sc, c) |-> hrs[s][c[1]]])

LEMMA CellsAddUp ==
  ASSUME TableInv, NEW sc, NEW v, NEW hrs, NEW g, CutUp(sc, v, hrs), PutIn(sc, hrs, g)
  PROVE  /\ SumOn(g, Ladder \X (0..6)) = SumOn(v, Settled(sc))
         /\ \A c \in Ladder \X (0..6) : g[c] \in Int
<1> USE DEF CutUp, PutIn
<1> DEFINE S == Settled(sc)
           W == 0..6
           day == [s \in S |-> DayOf[ScheduleOf[s]]]
           blocks == [s \in S |-> occupied(s)]
           H == [c \in Ladder \X W |-> Here(sc, c)]
<1>1. RowsTyped /\ SlotsTyped
  BY DEF TableInv
<1>2. IsFiniteSet(S) /\ IsFiniteSet(W) /\ IsFiniteSet(Ladder)
  <2>1. IsFiniteSet(S)
    BY <1>1, SettledIn, DatedFinite
  <2>2. IsFiniteSet(W)
    <3>1. 0 \in Int /\ 6 \in Int
      OBVIOUS
    <3> QED BY <3>1, FS_Interval
  <2> QED BY <1>1, <2>1, <2>2, LadderIs
<1>3. \A s \in S : day[s] \in W /\ blocks[s] \in SUBSET Ladder /\ blocks[s] = occupied(s)
                   /\ day[s] = DayOf[ScheduleOf[s]]
  BY BlocksIs
<1>4. ASSUME NEW s \in S
      PROVE  /\ \A b \in blocks[s] : hrs[s][b] \in Int
             /\ v[s] = SumOn(hrs[s], blocks[s])
  <2> DEFINE B == occupied(s)
             ws == weights(B)
  <2>1. /\ IsFiniteSet(B) /\ B \in SUBSET Int /\ B # {} /\ DOMAIN ws = B
        /\ \A b \in B : ws[b] \in Nat \ {0}
    BY BlocksIs
  <2>2. hrs[s] = distribute(v[s], ws) /\ v[s] \in Nat /\ blocks[s] = B
    OBVIOUS
  <2> DEFINE V == v[s]
  <2>3. V \in Nat
    OBVIOUS
  <2> HIDE DEF B, ws, V
  <2>4. /\ \A b \in B : distribute(V, ws)[b] \in Int
        /\ SumOn(distribute(V, ws), B) = V
    BY ONLY <2>1, <2>3, Distributed
  <2> QED BY <2>2, <2>4 DEF V
<1>5. \A c \in Ladder \X W : H[c] = {s \in S : day[s] = c[2] /\ c[1] \in blocks[s]}
  <2>1. ASSUME NEW c \in Ladder \X W
        PROVE  Here(sc, c) = {s \in S : day[s] = c[2] /\ c[1] \in blocks[s]}
    BY <1>3 DEF Here
  <2> HIDE DEF day, blocks, S, W
  <2> QED BY <2>1
<1>6. ASSUME NEW c \in Ladder \X W
      PROVE  g[c] = SumOn([s \in H[c] |-> hrs[s][c[1]]], H[c])
  <2>1. g[c] = Total([s \in Here(sc, c) |-> hrs[s][c[1]]]) /\ H[c] = Here(sc, c)
    OBVIOUS
  <2> DEFINE f == [s \in Here(sc, c) |-> hrs[s][c[1]]]
  <2>2. DOMAIN f = Here(sc, c)
    OBVIOUS
  <2>3. g[c] = Total(f)
    BY <2>1
  <2>4. Total(f) = SumOn(f, Here(sc, c))
    <3> HIDE DEF f
    <3> QED BY <2>2, TotalOn
  <2> HIDE DEF H
  <2> QED BY <2>1, <2>3, <2>4
<1> HIDE DEF S, W, day, blocks, H
<1>7. SumOn(g, Ladder \X W) = SumOn(v, S)
  <2>1. \A s \in S : day[s] \in W /\ blocks[s] \in SUBSET Ladder
    BY <1>3
  <2>2. \A s \in S : \A b \in blocks[s] : hrs[s][b] \in Int
    BY <1>4
  <2>3. \A s \in S : v[s] = SumOn(hrs[s], blocks[s])
    BY <1>4
  <2>4. \A c \in Ladder \X W : g[c] = SumOn([s \in H[c] |-> hrs[s][c[1]]], H[c])
    BY <1>6
  <2>5. SpreadOver(S, Ladder, W, blocks, day, hrs) /\ BySession(S, blocks, hrs, v)
    BY <2>1, <2>2, <2>3 DEF SpreadOver, BySession
  <2>6. ByCell(S, Ladder, W, blocks, day, hrs, H, g)
    BY ONLY <1>5, <2>4, Zenon DEF ByCell
  <2> QED BY ONLY <1>2, <2>5, <2>6, SumGrid
<1>8. ASSUME NEW c \in Ladder \X W PROVE g[c] \in Int
  <2> DEFINE R == H[c]
             f == [s \in R |-> hrs[s][c[1]]]
  <2>1. R = {s \in S : day[s] = c[2] /\ c[1] \in blocks[s]}
    BY <1>5
  <2>2. IsFiniteSet(R)
    BY <1>2, <2>1, FS_Subset
  <2>3. Numbers(f, R)
    BY <1>4, <2>1 DEF Numbers
  <2>4. g[c] = SumOn(f, R)
    BY <1>6
  <2> HIDE DEF R, f
  <2> QED BY <2>2, <2>3, <2>4, SumInt
<1> QED BY <1>7, <1>8 DEF S, W

\* The grid of a scope, cell by cell.
LEMMA GridIs ==
  ASSUME TableInv, NEW sc
  PROVE  LET grid == room_heat_grid(sc)
             S    == Settled(sc)
             cut(v) == [s \in S |-> distribute(v[s], weights(occupied(s)))]
             used == cut([s \in S |-> Used(s)])
             booked == cut([s \in S |-> Booked(s)])
         IN  /\ DOMAIN grid = Ladder \X (0..6)
             /\ \A c \in Ladder \X (0..6) :
                  /\ grid[c].used = Total([s \in Here(sc, c) |-> used[s][c[1]]])
                  /\ grid[c].booked = Total([s \in Here(sc, c) |-> booked[s][c[1]]])
                  /\ grid[c].available = IF <<c[2], c[1]>> \in timetabled_cells
                                         THEN Cardinality(physical_rooms)
                                              * weekday_occurrences(sc, c[2]) * block_duration(c[1])
                                         ELSE 0
<1> DEFINE S    == Settled(sc)
           blocks == [s \in S |-> occupied(s)]
           ws == [s \in S |-> weights(blocks[s])]
           used == [s \in S |-> distribute(Used(s), ws[s])]
           booked == [s \in S |-> distribute(Booked(s), ws[s])]
           cut(v) == [s \in S |-> distribute(v[s], weights(occupied(s)))]
           used1 == cut([s \in S |-> Used(s)])
           booked1 == cut([s \in S |-> Booked(s)])
<1>1. room_heat_grid(sc) = over_blocks(sc, S, blocks)
  BY TableSame DEF room_heat_grid
<1>2. over_blocks(sc, S, blocks) = spread(sc, S, blocks, ws)
  BY TableSame DEF over_blocks
<1>3. spread(sc, S, blocks, ws) = heat_cells(sc, S, blocks, used, booked)
  BY TableSame DEF spread
<1>4. used = used1 /\ booked = booked1
  OBVIOUS
<1> DEFINE here(c) == {s \in S : DayOf[ScheduleOf[s]] = c[2] /\ c[1] \in blocks[s]}
<1>5. \A c : here(c) = Here(sc, c)
  BY DEF Here
<1> HIDE DEF used, booked, used1, booked1, ws, blocks, S
<1> DEFINE grid == heat_cells(sc, S, blocks, used, booked)
<1>6. DOMAIN grid = Ladder \X (0..6)
  BY DEF heat_cells
<1>7. ASSUME NEW c \in Ladder \X (0..6)
      PROVE  /\ grid[c].used = Total([s \in here(c) |-> used[s][c[1]]])
             /\ grid[c].booked = Total([s \in here(c) |-> booked[s][c[1]]])
             /\ grid[c].available = IF <<c[2], c[1]>> \in timetabled_cells
                                    THEN Cardinality(physical_rooms)
                                         * weekday_occurrences(sc, c[2]) * block_duration(c[1])
                                    ELSE 0
  BY DEF heat_cells
<1> HIDE DEF grid, here
<1>8. room_heat_grid(sc) = grid
  BY <1>1, <1>2, <1>3 DEF grid
<1>9. \A c \in Ladder \X (0..6) :
        /\ grid[c].used = Total([s \in Here(sc, c) |-> used1[s][c[1]]])
        /\ grid[c].booked = Total([s \in Here(sc, c) |-> booked1[s][c[1]]])
        /\ grid[c].available = IF <<c[2], c[1]>> \in timetabled_cells
                               THEN Cardinality(physical_rooms)
                                    * weekday_occurrences(sc, c[2]) * block_duration(c[1])
                               ELSE 0
  BY <1>4, <1>5, <1>7
<1> QED BY <1>6, <1>8, <1>9 DEF used1, booked1, S

\* Division by a positive number keeps the order.
LEMMA DivOrder ==
  ASSUME NEW a \in Int, NEW b \in Int, a <= b, NEW n \in Nat \ {0}
  PROVE  a \div n \in Int /\ b \div n \in Int /\ a \div n <= b \div n
  OBVIOUS

LEMMA PctIs == ASSUME NEW p \in Int, NEW w \in Int PROVE pct(p, w) \in Int
  BY DEF pct, HalfUp

\* A step of the scale grows with the rank.
LEMMA StepGrows ==
  ASSUME NEW i \in Nat, NEW j \in Nat, i <= j, NEW n \in Nat \ {0}
  PROVE  StepOf(i, n) \in Nat /\ StepOf(j, n) \in Nat /\ StepOf(i, n) <= StepOf(j, n)
<1> DEFINE a == (i * HEAT_STEPS + n - 1) \div n
           b == (j * HEAT_STEPS + n - 1) \div n
<1>0. HEAT_STEPS \in Nat \ {0}
  BY HeatConstants
<1>1. i * HEAT_STEPS \in Nat /\ j * HEAT_STEPS \in Nat /\ i * HEAT_STEPS <= j * HEAT_STEPS
  BY <1>0
<1>2. a \in Int /\ b \in Int /\ a <= b
  <2> DEFINE x == i * HEAT_STEPS
             y == j * HEAT_STEPS
  <2>1. x \in Nat /\ y \in Nat /\ x <= y
    BY <1>1
  <2> HIDE DEF x, y
  <2>2. x + n - 1 \in Int /\ y + n - 1 \in Int /\ x + n - 1 <= y + n - 1
    BY <2>1
  <2>3. (x + n - 1) \div n \in Int /\ (y + n - 1) \div n \in Int /\ (x + n - 1) \div n <= (y + n - 1) \div n
    BY ONLY <2>2, n \in Nat \ {0}, DivOrder
  <2> QED BY <2>3 DEF x, y
<1>3. StepOf(i, n) = Max({1, Min({HEAT_STEPS, a})}) /\ StepOf(j, n) = Max({1, Min({HEAT_STEPS, b})})
  BY DEF StepOf
<1> HIDE DEF a, b
<1> DEFINE p == Min({HEAT_STEPS, a})
           q == Min({HEAT_STEPS, b})
<1>4. p = (IF HEAT_STEPS <= a THEN HEAT_STEPS ELSE a) /\ q = (IF HEAT_STEPS <= b THEN HEAT_STEPS ELSE b)
  BY <1>0, <1>2, MaxOfTwo
<1> HIDE DEF p, q
<1>5. p \in Int /\ q \in Int /\ p <= q
  BY <1>0, <1>2, <1>4
<1>6. Max({1, p}) = (IF 1 >= p THEN 1 ELSE p) /\ Max({1, q}) = (IF 1 >= q THEN 1 ELSE q)
  BY <1>5, MaxOfTwo
<1>7. StepOf(i, n) = (IF 1 >= p THEN 1 ELSE p) /\ StepOf(j, n) = (IF 1 >= q THEN 1 ELSE q)
  BY <1>3, <1>6 DEF p, q
<1> QED BY <1>5, <1>7

\* A busier cell is never painted paler.
LEMMA BusierIsDarker ==
  ASSUME NEW grid, IsFiniteSet(DOMAIN grid),
         \A x \in DOMAIN grid : cell_pct(grid[x]) \in Int,
         NEW c \in DOMAIN grid, NEW e \in DOMAIN grid, grid[e].timetabled,
         cell_pct(grid[c]) <= cell_pct(grid[e])
  PROVE  heat_step(grid, c) <= heat_step(grid, e)
<1> DEFINE U == {x \in DOMAIN grid : grid[x].timetabled /\ cell_pct(grid[x]) > 0}
           below(x) == {y \in U : cell_pct(grid[y]) <= cell_pct(grid[x])}
           n == Cardinality(U)
<1>1. IsFiniteSet(U)
  BY FS_Subset
<1>2. \A x : heat_step(grid, x) = IF x \notin U THEN 0 ELSE StepOf(Cardinality(below(x)), n)
  BY DEF heat_step, step_among
<1>3. \A x : IsFiniteSet(below(x)) /\ Cardinality(below(x)) \in Nat
  BY <1>1, FS_Subset, FS_CardinalityType
<1>4. ASSUME NEW x \in U PROVE n \in Nat \ {0}
  BY <1>1, FS_CardinalityType, FS_EmptySet
<1>5. CASE c \notin U
  <2>1. heat_step(grid, c) = 0
    BY <1>2, <1>5
  <2>2. heat_step(grid, e) \in Nat
    <3>1. CASE e \notin U
      <4> HIDE DEF U, n, below
      <4>1. heat_step(grid, e) = 0
        BY <1>2, <3>1
      <4> QED BY <4>1
    <3>2. CASE e \in U
      <4>1. n \in Nat \ {0} /\ Cardinality(below(e)) \in Nat
        BY <1>3, <1>4, <3>2
      <4> HIDE DEF n, below, U
      <4>2. StepOf(Cardinality(below(e)), n) \in Nat
        BY <4>1, StepGrows
      <4> QED BY <1>2, <3>2, <4>2
    <3> QED BY <3>1, <3>2
  <2> QED BY <2>1, <2>2
<1>6. CASE c \in U
  <2>1. cell_pct(grid[c]) \in Int /\ cell_pct(grid[e]) \in Int /\ cell_pct(grid[c]) > 0
    BY <1>6
  <2>2. e \in U
    BY <2>1
  <2>3. below(c) \in SUBSET below(e)
    <3>1. ASSUME NEW y \in below(c) PROVE cell_pct(grid[y]) <= cell_pct(grid[e])
      <4>1. cell_pct(grid[y]) \in Int /\ cell_pct(grid[y]) <= cell_pct(grid[c])
        OBVIOUS
      <4> QED BY <2>1, <4>1
    <3> QED BY <3>1
  <2>4. Cardinality(below(c)) <= Cardinality(below(e)) /\ n \in Nat \ {0}
    <3> HIDE DEF below, n
    <3> QED BY <1>3, <1>4, <2>2, <2>3, FS_Subset
  <2> HIDE DEF n, below, U
  <2>5. StepOf(Cardinality(below(c)), n) <= StepOf(Cardinality(below(e)), n)
    BY <1>3, <2>4, StepGrows
  <2> QED BY <1>2, <1>6, <2>2, <2>5
<1> QED BY <1>5, <1>6

LEMMA RoomsFinite == IsFiniteSet(physical_rooms) /\ Cardinality(physical_rooms) \in Nat
<1>1. physical_rooms \in SUBSET RRooms
  BY DEF physical_rooms
<1> QED BY <1>1, ReportingConstants, FS_Subset, FS_CardinalityType

LEMMA DaysCounted ==
  ASSUME NEW sc, sc.start \in Nat, sc.end \in Nat, sc.as_of \in Nat, NEW w
  PROVE  weekday_occurrences(sc, w) \in Nat
<1>1. LastDay(sc) \in Int /\ sc.start \in Int
  BY DEF LastDay
<1>2. IsFiniteSet(Days(sc))
  BY <1>1, FS_Interval DEF Days
<1>3. {d \in Days(sc) : weekday(d) = w} \in SUBSET Days(sc)
  OBVIOUS
<1> QED BY <1>2, <1>3, FS_Subset, FS_CardinalityType DEF weekday_occurrences

LEMMA GridTrue ==
  ASSUME TableInv, NEW sc, sc.start \in Nat, sc.end \in Nat, sc.as_of \in Nat
  PROVE  LET grid == room_heat_grid(sc)
         IN  GridAgrees(grid, Load(Settled(sc)), [c \in DOMAIN grid |-> heat_step(grid, c)])
<1> DEFINE grid == room_heat_grid(sc)
           S == Settled(sc)
           D == Ladder \X (0..6)
           cut(v) == [s \in S |-> distribute(v[s], weights(occupied(s)))]
           u == [s \in S |-> Used(s)]
           b == [s \in S |-> Booked(s)]
           cu == cut(u)
           cb == cut(b)
           gu == [r \in DOMAIN grid |-> grid[r]["used"]]
           gb == [r \in DOMAIN grid |-> grid[r]["booked"]]
<1>0. RowsTyped /\ SlotsTyped
  BY DEF TableInv
<1>1. /\ DOMAIN grid = D
      /\ \A c \in D :
           /\ grid[c].used = Total([s \in Here(sc, c) |-> cu[s][c[1]]])
           /\ grid[c].booked = Total([s \in Here(sc, c) |-> cb[s][c[1]]])
           /\ grid[c].available = IF <<c[2], c[1]>> \in timetabled_cells
                                  THEN Cardinality(physical_rooms)
                                       * weekday_occurrences(sc, c[2]) * block_duration(c[1])
                                  ELSE 0
  BY GridIs
<1>2. \A s \in S : u[s] \in Nat /\ b[s] \in Nat
  BY <1>0, Contribution, SettledIn
<1>3. /\ \A s \in S : cu[s] = distribute(u[s], weights(occupied(s)))
      /\ \A s \in S : cb[s] = distribute(b[s], weights(occupied(s)))
  OBVIOUS
<1>4. Load(S).used = SumOn(u, S) /\ Load(S).booked = SumOn(b, S)
  BY LoadSums
<1>5. Sum(grid, "used") = Total(gu) /\ Sum(grid, "booked") = Total(gb)
  BY DEF Sum
<1>6. DOMAIN gu = DOMAIN grid /\ DOMAIN gb = DOMAIN grid /\ \A c \in DOMAIN grid : gu[c] = grid[c].used /\ gb[c] = grid[c].booked
  OBVIOUS
<1> HIDE DEF grid, gu, gb, u, b, cu, cb
<1>7. Total(gu) = SumOn(gu, D) /\ Total(gb) = SumOn(gb, D)
  BY <1>1, <1>6, TotalOn
<1>8. SumOn(gu, D) = SumOn(u, S) /\ \A c \in D : gu[c] \in Int
  <2>1. PutIn(sc, cu, gu)
    BY <1>1, <1>6 DEF PutIn
  <2>2. CutUp(sc, u, cu)
    BY <1>2, <1>3 DEF CutUp
  <2> QED BY <2>1, <2>2, CellsAddUp
<1>9. SumOn(gb, D) = SumOn(b, S)
  <2>1. PutIn(sc, cb, gb)
    BY <1>1, <1>6 DEF PutIn
  <2>2. CutUp(sc, b, cb)
    BY <1>2, <1>3 DEF CutUp
  <2> QED BY <2>1, <2>2, CellsAddUp
<1>10. \A c \in D : cell_pct(grid[c]) \in Int
  <2>1. ASSUME NEW c \in D PROVE grid[c].available \in Int
    <3>1. c[1] \in Ladder
      OBVIOUS
    <3>2. /\ Cardinality(physical_rooms) \in Nat /\ weekday_occurrences(sc, c[2]) \in Nat
          /\ block_duration(c[1]) \in Nat
      BY <1>0, <3>1, RoomsFinite, DaysCounted, DurationIs
    <3>3. Cardinality(physical_rooms) * weekday_occurrences(sc, c[2]) * block_duration(c[1]) \in Int
      BY <3>2
    <3> DEFINE most == Cardinality(physical_rooms) * weekday_occurrences(sc, c[2]) * block_duration(c[1])
    <3>4. grid[c].available = IF <<c[2], c[1]>> \in timetabled_cells THEN most ELSE 0
      BY <1>1
    <3>5. most \in Int
      BY <3>3
    <3> HIDE DEF most
    <3> QED BY <3>4, <3>5
  <2> QED BY <1>1, <1>6, <1>8, <2>1, PctIs DEF cell_pct
<1>11. IsFiniteSet(DOMAIN grid)
  <2>1. 0 \in Int /\ 6 \in Int
    OBVIOUS
  <2>2. IsFiniteSet(0..6)
    BY <2>1, FS_Interval
  <2> QED BY <1>0, <1>1, <2>2, LadderIs, FS_Product
<1> DEFINE step == [c \in DOMAIN grid |-> heat_step(grid, c)]
<1>12. ASSUME NEW c \in DOMAIN grid, NEW e \in DOMAIN grid, grid[e].timetabled,
              cell_pct(grid[c]) <= cell_pct(grid[e])
       PROVE  step[c] <= step[e]
  <2>1. heat_step(grid, c) <= heat_step(grid, e)
    BY <1>1, <1>10, <1>11, <1>12, BusierIsDarker
  <2> QED BY <2>1
<1> HIDE DEF step
<1>13. Sum(grid, "used") = Load(S).used /\ Sum(grid, "booked") = Load(S).booked
  BY <1>4, <1>5, <1>7, <1>8, <1>9
<1>14. GridAgrees(grid, Load(S), step)
  BY <1>12, <1>13 DEF GridAgrees
<1> QED BY <1>14 DEF step, grid

Hours3 == {"used", "booked", "wasted"}

\* A group's hours are the sum of its rooms'.
RolledUp(roll, rooms, key, k) ==
  /\ DOMAIN roll = {key[r] : r \in DOMAIN rooms}
  /\ \A b \in {key[r] : r \in DOMAIN rooms} :
       roll[b][k] = Total([r \in {x \in DOMAIN rooms : key[x] = b} |-> rooms[r].load[k]])

RollupSums(roll, rooms, k) ==
  /\ Sum(roll.buildings, k) = Total([r \in DOMAIN rooms |-> rooms[r].load[k]])
  /\ \A b \in DOMAIN roll.buildings : roll.buildings[b][k] =
       Total([f \in {x \in DOMAIN roll.floors : x[1] = b} |-> roll.floors[f][k]])

LEMMA RollUpIs ==
  ASSUME NEW rooms, NEW cells, NEW key, NEW k \in Hours3
  PROVE  RolledUp(RollUp(rooms, cells, key), rooms, key, k)
<1> DEFINE in(b) == {r \in DOMAIN rooms : key[r] = b}
           sum(b, h) == Total([r \in in(b) |-> rooms[r].load[h]])
           K == {key[r] : r \in DOMAIN rooms}
           rec(b) == [rooms |-> Cardinality(in(b)),
                      used |-> sum(b, "used"), booked |-> sum(b, "booked"), wasted |-> sum(b, "wasted"),
                      pct |-> pct(sum(b, "used"), Cardinality(in(b)) * cells)]
<1>1. RollUp(rooms, cells, key) = [b \in K |-> rec(b)]
  BY DEF RollUp
<1>2. ASSUME NEW b \in K PROVE rec(b)[k] = sum(b, k)
  <2> HIDE DEF sum, in
  <2> QED BY DEF Hours3
<1>3. \A b \in K : RollUp(rooms, cells, key)[b][k] = sum(b, k)
  <2> HIDE DEF rec, sum, in, K
  <2> QED BY <1>1, <1>2
<1>4. DOMAIN RollUp(rooms, cells, key) = K
  BY <1>1
<1> HIDE DEF rec
<1> QED BY <1>3, <1>4 DEF RolledUp

\* Groups add up to the rooms they group.
LEMMA GroupsAddUp ==
  ASSUME NEW D, IsFiniteSet(D), NEW ld, Numbers(ld, D), NEW key,
         NEW g, DOMAIN g = {key[r] : r \in D},
         \A b \in DOMAIN g : g[b] = SumOn(ld, {r \in D : key[r] = b})
  PROVE  Total(g) = SumOn(ld, D)
<1> DEFINE K == {key[r] : r \in D}
           part == [b \in K |-> {r \in D : key[r] = b}]
<1>1. IsFiniteSet(K)
  BY ImageFinite
<1>2. \A b \in K : part[b] \in SUBSET D /\ g[b] = SumOn(ld, part[b])
  OBVIOUS
<1>3. \A r \in D : \E b \in K : r \in part[b]
  OBVIOUS
<1>4. \A b, c \in K : b # c => part[b] \cap part[c] = {}
  OBVIOUS
<1>5. DOMAIN g = K
  OBVIOUS
<1> HIDE DEF K, part
<1>6. SumOn(ld, D) = SumOn(g, K)
  <2>1. \A b \in K : part[b] \in SUBSET D
    BY <1>2
  <2>2. \A b \in K : g[b] = SumOn(ld, part[b])
    BY <1>2
  <2> QED BY <1>1, <1>3, <1>4, <2>1, <2>2, SumParts
<1> QED BY <1>5, <1>6, TotalOn

LEMMA RollupTrue ==
  ASSUME NEW rooms, NEW cells, IsFiniteSet(DOMAIN rooms), NEW k \in Hours3,
         \A r \in DOMAIN rooms : rooms[r].load[k] \in Int
  PROVE  RollupSums(building_floor_rollup(rooms, cells), rooms, k)
<1> DEFINE roll == building_floor_rollup(rooms, cells)
           D == DOMAIN rooms
           ld == [r \in D |-> rooms[r].load[k]]
           fk == [r \in D |-> FloorKey(r)]
           B == RollUp(rooms, cells, Building)
           F == RollUp(rooms, cells, fk)
<1>1. roll.buildings = B /\ roll.floors = F
  BY DEF building_floor_rollup
<1>2. Numbers(ld, D) /\ DOMAIN ld = D
  BY DEF Numbers
<1>3. ASSUME NEW R \in SUBSET D
      PROVE  Total([r \in R |-> rooms[r].load[k]]) = SumOn(ld, R)
  <2> DEFINE h == [r \in R |-> rooms[r].load[k]]
  <2>1. DOMAIN h = R /\ \A r \in R : h[r] = ld[r]
    OBVIOUS
  <2> HIDE DEF h, ld, D
  <2>2. IsFiniteSet(R) /\ Numbers(h, R)
    BY <1>2, <2>1, FS_Subset DEF Numbers, D
  <2>3. Total(h) = SumOn(h, R)
    BY <2>1, TotalOn
  <2>4. SumOn(h, R) = SumOn(ld, R)
    BY <2>1, <2>2, SumSame
  <2>5. Total(h) = SumOn(ld, R)
    BY <2>3, <2>4
  <2> QED BY <2>5 DEF h
<1>4. /\ DOMAIN B = {Building[r] : r \in D}
      /\ \A b \in DOMAIN B : B[b][k] = SumOn(ld, {x \in D : Building[x] = b})
  <2>1. /\ DOMAIN B = {Building[r] : r \in D}
        /\ \A b \in {Building[r] : r \in D} :
             B[b][k] = Total([r \in {x \in D : Building[x] = b} |-> rooms[r].load[k]])
    <3>1. RolledUp(B, rooms, Building, k)
      BY RollUpIs
    <3> HIDE DEF B
    <3> QED BY <3>1 DEF RolledUp
  <2>2. \A b : Total([r \in {x \in D : Building[x] = b} |-> rooms[r].load[k]])
               = SumOn(ld, {x \in D : Building[x] = b})
    BY <1>3
  <2> HIDE DEF B, ld, D
  <2> QED BY <2>1, <2>2
<1>5. /\ DOMAIN F = {fk[r] : r \in D}
      /\ \A f \in DOMAIN F : F[f][k] = SumOn(ld, {x \in D : fk[x] = f})
  <2>1. /\ DOMAIN F = {fk[r] : r \in D}
        /\ \A f \in {fk[r] : r \in D} :
             F[f][k] = Total([r \in {x \in D : fk[x] = f} |-> rooms[r].load[k]])
    <3> HIDE DEF fk
    <3>1. RolledUp(F, rooms, fk, k)
      BY RollUpIs
    <3> HIDE DEF F
    <3> QED BY <3>1 DEF RolledUp
  <2>2. \A f : Total([r \in {x \in D : fk[x] = f} |-> rooms[r].load[k]])
               = SumOn(ld, {x \in D : fk[x] = f})
    <3> HIDE DEF fk
    <3> QED BY <1>3
  <2> HIDE DEF F, ld, D, fk
  <2> QED BY <2>1, <2>2
<1>6. \A r \in D : fk[r] = <<Building[r], FloorNo[r]>>
  BY DEF FloorKey
<1>7. IsFiniteSet(D)
  OBVIOUS
<1> HIDE DEF roll, D, ld, fk, B, F
<1>8. Sum(roll.buildings, k) = SumOn(ld, D)
  <2> DEFINE g == [r \in DOMAIN B |-> B[r][k]]
  <2>1. DOMAIN g = {Building[r] : r \in D} /\ \A b \in DOMAIN g : g[b] = SumOn(ld, {x \in D : Building[x] = b})
    BY <1>4
  <2>2. Sum(roll.buildings, k) = Total(g)
    BY <1>1 DEF Sum
  <2> HIDE DEF g
  <2>3. Total(g) = SumOn(ld, D)
    BY <1>2, <1>7, <2>1, GroupsAddUp
  <2> QED BY <2>2, <2>3
<1>9. ASSUME NEW b \in DOMAIN B
      PROVE  B[b][k] = Total([f \in {x \in DOMAIN F : x[1] = b} |-> F[f][k]])
  <2> DEFINE R == {x \in D : Building[x] = b}
             g == [f \in {x \in DOMAIN F : x[1] = b} |-> F[f][k]]
  <2>1. IsFiniteSet(R) /\ Numbers(ld, R) /\ R \in SUBSET D
    BY <1>2, <1>7, FS_Subset DEF Numbers
  <2>2. DOMAIN g = {fk[r] : r \in R}
    <3>1. DOMAIN g = {x \in DOMAIN F : x[1] = b}
      OBVIOUS
    <3> QED BY <1>5, <1>6, <3>1
  <2>3. ASSUME NEW f \in DOMAIN g PROVE g[f] = SumOn(ld, {r \in R : fk[r] = f})
    <3>1. f \in DOMAIN F /\ f[1] = b /\ g[f] = F[f][k]
      OBVIOUS
    <3>2. {r \in R : fk[r] = f} = {x \in D : fk[x] = f}
      BY <1>6, <3>1
    <3> QED BY <1>5, <3>1, <3>2
  <2> HIDE DEF R, g
  <2>4. Total(g) = SumOn(ld, R)
    BY <2>1, <2>2, <2>3, GroupsAddUp
  <2> QED BY <1>4, <2>4 DEF R, g
<1>10. Total([r \in D |-> rooms[r].load[k]]) = SumOn(ld, D)
  BY <1>3
<1>11. RollupSums(roll, rooms, k)
  BY <1>1, <1>8, <1>9, <1>10 DEF RollupSums, D
<1> QED BY <1>11 DEF roll

\* The room list adds up to the campus, if every session is in one of its rooms.
LEMMA BreakdownIs ==
  ASSUME TableInv, NEW sc, NEW k \in Hours3
  PROVE  LET rooms == room_breakdown(sc)
             S == Settled(sc)
         IN  /\ DOMAIN rooms = physical_rooms
             /\ \A r \in physical_rooms : rooms[r].load[k] \in Int
             /\ (\A s \in S : rtable[s].room \notin outOfService)
                  => Total([r \in DOMAIN rooms |-> rooms[r].load[k]]) = Load(S)[k]
<1> DEFINE rooms == room_breakdown(sc)
           S == Settled(sc)
           D == physical_rooms
           v == [s \in S |-> CASE k = "used" -> Used(s) [] k = "booked" -> Booked(s) [] OTHER -> Wasted(s)]
           part == [r \in D |-> {s \in S : rtable[s].room = r}]
<1>0. RowsTyped /\ S \in SUBSET Dated /\ IsFiniteSet(S) /\ IsFiniteSet(D)
  BY SettledIn, DatedFinite, RoomsFinite DEF TableInv
<1>1. Numbers(v, S)
  <2>1. \A s \in S : Used(s) \in Int /\ Booked(s) \in Int /\ Wasted(s) \in Int
    BY <1>0, Contribution
  <2> QED BY <2>1 DEF Numbers
<1>2. ASSUME NEW R \in SUBSET S PROVE Load(R)[k] = SumOn(v, R)
  <2> DEFINE b == [s \in R |-> Booked(s)]
             u == [s \in R |-> Used(s)]
             w == [s \in R |-> Wasted(s)]
  <2>1. Load(R).booked = SumOn(b, R) /\ Load(R).used = SumOn(u, R) /\ Load(R).wasted = SumOn(w, R)
    BY LoadSums
  <2>2. IsFiniteSet(R) /\ Numbers(v, R)
    BY <1>0, <1>1, FS_Subset DEF Numbers
  <2>3. CASE k = "used"
    <3>1. \A s \in R : v[s] = u[s]
      BY <2>3
    <3> HIDE DEF v, u
    <3>2. SumOn(v, R) = SumOn(u, R)
      BY <2>2, <3>1, SumSame
    <3> QED BY <2>1, <2>3, <3>2
  <2>4. CASE k = "booked"
    <3>1. \A s \in R : v[s] = b[s]
      BY <2>4
    <3> HIDE DEF v, b
    <3>2. SumOn(v, R) = SumOn(b, R)
      BY <2>2, <3>1, SumSame
    <3> QED BY <2>1, <2>4, <3>2
  <2>5. CASE k = "wasted"
    <3>1. \A s \in R : v[s] = w[s]
      BY <2>5
    <3> HIDE DEF v, w
    <3>2. SumOn(v, R) = SumOn(w, R)
      BY <2>2, <3>1, SumSame
    <3> QED BY <2>1, <2>5, <3>2
  <2> QED BY <2>3, <2>4, <2>5 DEF Hours3
<1>3. DOMAIN rooms = D /\ \A r \in D : rooms[r].load = Load(part[r])
  BY DEF room_breakdown
<1>4. \A r \in D : part[r] \in SUBSET S
  OBVIOUS
<1> HIDE DEF v, rooms, part
<1>5. \A r \in D : rooms[r].load[k] = SumOn(v, part[r]) /\ SumOn(v, part[r]) \in Int
  <2>1. ASSUME NEW r \in D PROVE SumOn(v, part[r]) \in Int
    <3>1. IsFiniteSet(part[r]) /\ Numbers(v, part[r])
      BY <1>0, <1>1, <1>4, FS_Subset DEF Numbers
    <3> QED BY <3>1, SumInt
  <2>2. ASSUME NEW r \in D PROVE rooms[r].load[k] = SumOn(v, part[r])
    <3>1. Load(part[r])[k] = SumOn(v, part[r])
      BY <1>2, <1>4
    <3> QED BY <1>3, <3>1
  <2> QED BY <2>1, <2>2
<1>6. ASSUME \A s \in S : rtable[s].room \notin outOfService
      PROVE  Total([r \in DOMAIN rooms |-> rooms[r].load[k]]) = Load(S)[k]
  <2>1. \A s \in S : \E r \in D : s \in part[r]
    <3>1. \A s \in S : rtable[s].room \in D
      BY <1>0, <1>6, RowOf, SettledIn DEF physical_rooms
    <3> QED BY <3>1 DEF part
  <2>2. \A r, q \in D : r # q => part[r] \cap part[q] = {}
    BY DEF part
  <2> DEFINE t == [r \in DOMAIN rooms |-> rooms[r].load[k]]
  <2>3. DOMAIN t = D /\ \A r \in D : t[r] = SumOn(v, part[r])
    BY <1>3, <1>5
  <2> HIDE DEF t
  <2>4. SumOn(v, S) = SumOn(t, D)
    <3>1. \A r \in D : t[r] = SumOn(v, part[r])
      BY <2>3
    <3> HIDE DEF D, S
    <3> QED BY <1>0, <1>1, <1>4, <2>1, <2>2, <3>1, SumParts
  <2>5. Total(t) = SumOn(t, D)
    BY <2>3, TotalOn
  <2>6. Load(S)[k] = SumOn(v, S)
    BY <1>2
  <2> QED BY <2>4, <2>5, <2>6 DEF t
<1> QED BY <1>3, <1>5, <1>6 DEF rooms

LEMMA HoursTrue == TableInv => HoursReconcile
<1> SUFFICES ASSUME TableInv, NEW sc \in OpenedScopes
             PROVE  HoursAgree(Settled(sc), ifo_utilization(sc), Table(utilization_csv(sc)))
  BY DEF HoursReconcile
<1> DEFINE S == Settled(sc)
           page == ifo_utilization(sc)
           rooms == room_breakdown(sc)
           grid == room_heat_grid(sc)
           step == [c \in DOMAIN grid |-> heat_step(grid, c)]
           roll == building_floor_rollup(rooms, cell_seconds(sc))
<1>0. RowsTyped /\ S \in SUBSET Dated /\ \A s \in S : ~Running(s)
  BY SettledIn DEF TableInv
<1>1. sc.start \in Nat /\ sc.end \in Nat /\ sc.as_of \in Nat
  <2>1. sc \in Scopes
    BY DEF OpenedScopes
  <2> QED BY <2>1, PageConstants
<1>2. Table(utilization_csv(sc)) = rooms
  BY TableSame DEF utilization_csv
<1>3. page = utilization_cards(sc, grid, rooms)
  BY TableSame DEF ifo_utilization
<1>4. page.grid = grid /\ page.rollup = roll /\ page.occupancy = room_utilization(sc)
  BY <1>3 DEF utilization_cards
<1>5. page.occupancy.load = Load(S)
  BY <1>4 DEF room_utilization
<1>6. GridAgrees(grid, Load(S), step)
  BY <1>1, GridTrue
<1>7. Table([c \in DOMAIN grid |-> heat_step(grid, c)]) = step
  BY TableSame
<1>8. Load(S).booked = Load(S).used + Load(S).wasted
                       + Total([s \in {x \in S : rtable[x].status = "scheduled"} |-> Booked(s)])
  BY <1>0, LoadBalances
<1>9. \A s \in S : Used(s) <= Booked(s)
  BY <1>0, Contribution
<1>10. ASSUME NEW k \in Hours3
       PROVE  RollupAgrees(roll, rooms, Load(S), k, \A s \in S : rtable[s].room \notin outOfService)
  <2>1. /\ DOMAIN rooms = physical_rooms
        /\ \A r \in physical_rooms : rooms[r].load[k] \in Int
        /\ (\A s \in S : rtable[s].room \notin outOfService)
             => Total([r \in DOMAIN rooms |-> rooms[r].load[k]]) = Load(S)[k]
    BY BreakdownIs
  <2>2. IsFiniteSet(DOMAIN rooms)
    BY <2>1, RoomsFinite
  <2> HIDE DEF rooms, S
  <2>3. \A r \in DOMAIN rooms : rooms[r].load[k] \in Int
    BY <2>1
  <2>4. RollupSums(roll, rooms, k)
    BY ONLY <1>10, <2>2, <2>3, RollupTrue
  <2> HIDE DEF roll
  <2> QED BY <2>1, <2>4 DEF RollupAgrees, RollupSums
<1> HIDE DEF page, rooms, grid, step, roll
<1>11. HoursAgree(S, page, rooms)
  <2> HIDE DEF S
  <2>1. GridAgrees(page.grid, page.occupancy.load,
                   Table([c \in DOMAIN page.grid |-> heat_step(page.grid, c)]))
    BY <1>4, <1>5, <1>6, <1>7
  <2>2. \A k \in {"used", "booked", "wasted"} :
          RollupAgrees(page.rollup, rooms, page.occupancy.load, k,
                       \A s \in S : rtable[s].room \notin outOfService)
    BY <1>4, <1>5, <1>10 DEF Hours3
  <2>3. page.occupancy.load.booked = page.occupancy.load.used + page.occupancy.load.wasted
          + Total([s \in {x \in S : rtable[x].status = "scheduled"} |-> Booked(s)])
    BY <1>5, <1>8
  <2> QED BY <1>9, <2>1, <2>2, <2>3, Zenon DEF HoursAgree
<1> QED BY <1>2, <1>11 DEF page, S

(* Hours are accounted for in every state of every office: what was booked is used,
   wasted or still to come, the heat grid's cells, the floors, the buildings and the
   room list add up to the campus, and a busier cell is never painted paler, whatever
   the overruns, early arrivals, edited slots and rooms taken out of service. *)
THEOREM HoursAccounted == BackSpec => []HoursReconcile
<1>1. BackInit => TableInv
  BY PagesSteps, TableBegins
<1>2. TableInv /\ [BackNext]_backVars => TableInv'
  BY PagesTurns, TableStep
<1>3. TableInv => HoursReconcile
  BY HoursTrue
<1> QED BY <1>1, <1>2, <1>3, PTL DEF BackSpec

-----------------------------------------------------------------------------
(***************************************************************************)
(* Attendance.                                                             *)
(***************************************************************************)
LEMMA CountImage ==
  ASSUME NEW S, IsFiniteSet(S), NEW m, \A x, y \in S : m[x] = m[y] => x = y
  PROVE  Cardinality({m[x] : x \in S}) = Cardinality(S)
<1> DEFINE T == {m[x] : x \in S}
           g == [x \in S |-> m[x]]
<1>1. g \in Bijection(S, T)
  BY DEF Bijection, Injection, Surjection, IsInjective
<1>2. ExistsBijection(S, T)
  BY <1>1 DEF ExistsBijection
<1> QED BY <1>2, FS_Bijection

\* The sessions a column of a report counts.
Columns == {"scheduled", "held", "absent"}
Chosen(S, k) ==
  {s \in S : k = "scheduled" \/ (k = "held" /\ Held(s)) \/ (k = "absent" /\ rtable[s].status = "absent")}

LEMMA CountIs ==
  ASSUME NEW S, NEW k \in Columns PROVE Counts(S)[k] = Cardinality(Chosen(S, k))
<1>1. CASE k = "scheduled"
  <2>1. Chosen(S, k) = S
    BY <1>1 DEF Chosen
  <2> QED BY <1>1, <2>1 DEF Counts
<1>2. CASE k = "held"
  <2>1. Chosen(S, k) = {s \in S : Held(s)}
    BY <1>2 DEF Chosen
  <2> QED BY <1>2, <2>1 DEF Counts
<1>3. CASE k = "absent"
  <2>1. Chosen(S, k) = {s \in S : rtable[s].status = "absent"}
    BY <1>3 DEF Chosen
  <2> QED BY <1>3, <2>1 DEF Counts
<1> QED BY <1>1, <1>2, <1>3 DEF Columns

\* A page's scope has dates, and neither a department nor a teacher.
WholeScope(sc) ==
  /\ sc = Scope(sc.start, sc.end, sc.as_of)
  /\ sc.start \in Nat /\ sc.end \in Nat /\ sc.as_of \in Nat

LEMMA ScopeIs == ASSUME NEW sc \in OpenedScopes PROVE WholeScope(sc)
<1>1. sc \in Scopes
  BY DEF OpenedScopes
<1> QED BY <1>1, PageConstants DEF WholeScope

InDates(sc, s) == sc.start <= DateOf[s] /\ DateOf[s] <= sc.end /\ DateOf[s] <= sc.as_of

LEMMA ScopedIs ==
  ASSUME NEW sc, WholeScope(sc)
  PROVE  /\ scoped_sessions(sc) = {s \in Dated : InDates(sc, s) /\ ScheduleOf[s] \notin dropped}
         /\ \A d : d # Everyone => scoped_sessions(OfDept(sc, d)) =
              {s \in scoped_sessions(sc) : DeptOf[Teacher(s)] = d}
         /\ \A f : f # Everyone => scoped_sessions(OfTeacher(sc, f)) =
              {s \in scoped_sessions(sc) : Teacher(s) = f}
         /\ \A d, f : d # Everyone => scoped_sessions(OfDept(sc, d)) \in SUBSET scoped_sessions(sc)
<1> USE DEF WholeScope, Scope
<1>1. sc.dept = Everyone /\ sc.teacher = Everyone
  OBVIOUS
<1>2. ASSUME NEW d
      PROVE  LET o == OfDept(sc, d) IN /\ o.start = sc.start /\ o.end = sc.end /\ o.as_of = sc.as_of
                                       /\ o.dept = d /\ o.teacher = Everyone
  BY DEF OfDept
<1>3. ASSUME NEW f
      PROVE  LET o == OfTeacher(sc, f) IN /\ o.start = sc.start /\ o.end = sc.end /\ o.as_of = sc.as_of
                                          /\ o.dept = Everyone /\ o.teacher = f
  BY DEF OfTeacher
<1>4. scoped_sessions(sc) = {s \in Dated : InDates(sc, s) /\ ScheduleOf[s] \notin dropped}
  BY <1>1 DEF scoped_sessions, InDates
<1>5. ASSUME NEW d, d # Everyone
      PROVE  scoped_sessions(OfDept(sc, d)) = {s \in scoped_sessions(sc) : DeptOf[Teacher(s)] = d}
  BY <1>1, <1>2, <1>5 DEF scoped_sessions
<1>6. ASSUME NEW f, f # Everyone
      PROVE  scoped_sessions(OfTeacher(sc, f)) = {s \in scoped_sessions(sc) : Teacher(s) = f}
  BY <1>1, <1>3, <1>6 DEF scoped_sessions
<1> QED BY <1>4, <1>5, <1>6

\* The teachers' names, departments, and the sessions of each.
LEMMA TeacherOf ==
  ASSUME RowsTyped, NEW s \in Dated
  PROVE  /\ Teacher(s) \in DOMAIN DeptOf /\ Teacher(s) # Everyone
         /\ DeptOf[Teacher(s)] # Everyone
         /\ DeptOf[Teacher(s)] # NoDept => DeptOf[Teacher(s)] \in Depts
BY RowOf, ReportingConstants DEF Teacher, Depts

LEMMA DeptsAre == IsFiniteSet(Depts) /\ Everyone \notin Depts /\ NoDept \notin Depts
<1> DEFINE all == {DeptOf[f] : f \in DOMAIN DeptOf}
<1>1. IsFiniteSet(all)
  BY ReportingConstants, ImageFinite
<1>2. Depts \in SUBSET all
  BY DEF Depts
<1>3. IsFiniteSet(Depts)
  BY <1>1, <1>2, FS_Subset
<1> QED BY <1>3, ReportingConstants DEF Depts

\* Rows of a report, by teacher.
Mine(S, f) == {s \in S : Teacher(s) = f}

LEMMA ReportIs ==
  ASSUME NEW sc
  PROVE  LET rows == faculty_attendance(sc)
             all  == scoped_sessions(sc)
         IN  /\ DOMAIN rows = {Teacher(s) : s \in all}
             /\ \A f \in DOMAIN rows :
                  /\ rows[f].counts = Counts(Mine(all, f))
                  /\ rows[f].verified = verified_count(Mine(all, f))
                  /\ rows[f].early_ends = Cardinality({s \in Mine(all, f) : rtable[s].early})
                  /\ rows[f].late = Lateness(Mine(all, f))
BY DEF faculty_attendance, Mine

\* A report's rows add up to what it counts.
RowsCount(rows, S, k) ==
  /\ DOMAIN rows = {Teacher(s) : s \in S}
  /\ \A f \in DOMAIN rows : rows[f].counts[k] = Cardinality(Chosen(Mine(S, f), k))

LEMMA RowsAddUp ==
  ASSUME NEW S, IsFiniteSet(S), NEW k, NEW rows, RowsCount(rows, S, k)
  PROVE  Total([f \in DOMAIN rows |-> rows[f].counts[k]]) = Cardinality(Chosen(S, k))
<1> DEFINE C == Chosen(S, k)
           K == DOMAIN rows
           part == [f \in K |-> Chosen(Mine(S, f), k)]
           t == [f \in K |-> rows[f].counts[k]]
           who == [s \in S |-> Teacher(s)]
<1>1. IsFiniteSet(C) /\ C \in SUBSET S
  <2>1. C \in SUBSET S
    BY DEF Chosen
  <2> QED BY <2>1, FS_Subset
<1>2. IsFiniteSet(K)
  <2>1. K = {who[s] : s \in S}
    BY DEF RowsCount
  <2> HIDE DEF who, K
  <2> QED BY <2>1, ImageFinite
<1>3. \A f \in K : part[f] \in SUBSET C
  BY DEF Chosen, Mine
<1>4. \A s \in C : \E f \in K : s \in part[f]
  <2> SUFFICES ASSUME NEW s \in C PROVE \E f \in K : s \in part[f]
    OBVIOUS
  <2>1. Teacher(s) \in K /\ s \in Mine(S, Teacher(s))
    BY <1>1 DEF Mine, RowsCount
  <2>2. s \in part[Teacher(s)]
    BY <2>1 DEF Chosen
  <2> QED BY <2>1, <2>2
<1>5. \A f, g \in K : f # g => part[f] \cap part[g] = {}
  BY DEF Chosen, Mine
<1>6. \A f \in K : t[f] = Cardinality(part[f])
  BY DEF RowsCount
<1>7. DOMAIN t = K
  OBVIOUS
<1> HIDE DEF C, K, part, t
<1>8. Cardinality(C) = SumOn(t, K)
  BY <1>1, <1>2, <1>3, <1>4, <1>5, <1>6, CountParts
<1>9. Total(t) = Cardinality(C)
  BY <1>7, <1>8, TotalOn
<1> QED BY <1>9 DEF t, C, K

LEMMA ScopedIn == ASSUME NEW sc PROVE scoped_sessions(sc) \in SUBSET Dated
BY SettledIn

\* The deans' pages, for a department.
LEMMA DeanSees ==
  ASSUME RowsTyped, NEW sc, WholeScope(sc), NEW d \in Depts
  PROVE  LET S == {s \in scoped_sessions(sc) : DeptOf[Teacher(s)] = d}
         IN  /\ dean_dashboard(sc, d).counts = Counts(S)
             /\ dean_dashboard(sc, d).faculty_count = Cardinality({Teacher(s) : s \in S})
             /\ dean_reports(sc, d) = faculty_attendance(OfDept(sc, d))
             /\ scoped_sessions(OfDept(sc, d)) = S
<1>1. d # Everyone /\ d # NoDept
  BY DeptsAre
<1>2. scoped_sessions(OfDept(sc, d)) = {s \in scoped_sessions(sc) : DeptOf[Teacher(s)] = d}
  BY <1>1, ScopedIs
<1> QED BY <1>1, <1>2 DEF dean_dashboard, dean_reports, dept_summary

\* Departments, and the teachers outside them, add up to the whole.
LEMMA DeptsAddUp ==
  ASSUME RowsTyped, NEW S \in SUBSET Dated, NEW k,
         NEW t, \A d \in Depts : t[d] = Cardinality(Chosen({s \in S : DeptOf[Teacher(s)] = d}, k)),
         NEW U, U = {s \in S : DeptOf[Teacher(s)] = NoDept}
  PROVE  Cardinality(Chosen(S, k)) = SumOn(t, Depts) + Cardinality(Chosen(U, k))
<1> DEFINE A == Chosen(S, k)
           O == Chosen(U, k)
           C == A \ O
           part == [d \in Depts |-> Chosen({s \in S : DeptOf[Teacher(s)] = d}, k)]
<1>1. A \in SUBSET Dated /\ O \in SUBSET A /\ C \in SUBSET Dated
  BY DEF Chosen
<1>2. IsFiniteSet(A) /\ IsFiniteSet(O) /\ IsFiniteSet(C)
  BY <1>1, DatedFinite
<1>3. \A d \in Depts : part[d] \in SUBSET C
  BY DeptsAre DEF Chosen
<1>4. \A s \in C : \E d \in Depts : s \in part[d]
  <2> SUFFICES ASSUME NEW s \in C PROVE \E d \in Depts : s \in part[d]
    OBVIOUS
  <2>1. s \in Dated /\ s \in S /\ DeptOf[Teacher(s)] # NoDept
    BY <1>1 DEF Chosen
  <2>2. DeptOf[Teacher(s)] \in Depts
    BY <2>1, TeacherOf
  <2>3. s \in part[DeptOf[Teacher(s)]]
    BY <2>1, <2>2 DEF Chosen
  <2> QED BY <2>2, <2>3
<1>5. \A d, e \in Depts : d # e => part[d] \cap part[e] = {}
  BY DEF Chosen
<1>6. \A d \in Depts : t[d] = Cardinality(part[d])
  OBVIOUS
<1>7. IsFiniteSet(Depts)
  BY DeptsAre
<1> HIDE DEF A, O, part
<1>8. Cardinality(C) = SumOn(t, Depts)
  <2> HIDE DEF C
  <2> QED BY <1>2, <1>3, <1>4, <1>5, <1>6, <1>7, CountParts
<1>9. Cardinality(C) = Cardinality(A) - Cardinality(O) /\ Cardinality(A) \in Nat /\ Cardinality(O) \in Nat
  <2>1. A \cap O = O
    BY <1>1
  <2>2. Cardinality(A) \in Nat /\ Cardinality(O) \in Nat
    BY <1>2, FS_CardinalityType
  <2>3. Cardinality(A \ O) = Cardinality(A) - Cardinality(A \cap O)
    BY ONLY <1>2, FS_Difference
  <2> QED BY <2>1, <2>2, <2>3
<1>10. Cardinality(A) = SumOn(t, Depts) + Cardinality(O)
  BY <1>8, <1>9
<1> QED BY <1>10 DEF A, O

LEMMA TotalsTrue ==
  ASSUME RowsTyped, NEW sc, WholeScope(sc) PROVE TotalsAdd(sc, ifo_dashboard(sc))
<1> DEFINE S == scoped_sessions(sc)
           of(d) == {s \in S : DeptOf[Teacher(s)] = d}
<1> SUFFICES ASSUME NEW k \in Columns
             PROVE  /\ ifo_dashboard(sc).summary.counts[k] =
                         Total([d \in Depts |-> dean_dashboard(sc, d).counts[k]])
                         + Counts(Unaffiliated(sc))[k]
                    /\ \A d \in Depts : dean_dashboard(sc, d).counts[k] =
                         Total([f \in DOMAIN dean_reports(sc, d) |-> dean_reports(sc, d)[f].counts[k]])
  BY DEF TotalsAdd, Columns
<1>1. S \in SUBSET Dated
  BY ScopedIn
<1>2. ifo_dashboard(sc).summary.counts[k] = Cardinality(Chosen(S, k))
  <2>1. ifo_dashboard(sc).summary.counts = Counts(S)
    BY DEF ifo_dashboard, dept_summary
  <2> QED BY <2>1, CountIs
<1>3. Counts(Unaffiliated(sc))[k] = Cardinality(Chosen(Unaffiliated(sc), k))
  BY CountIs
<1>4. ASSUME NEW d \in Depts PROVE dean_dashboard(sc, d).counts[k] = Cardinality(Chosen(of(d), k))
  <2>1. dean_dashboard(sc, d).counts = Counts(of(d))
    BY DeanSees
  <2> QED BY <2>1, CountIs
<1>5. Cardinality(Chosen(S, k)) = Total([d \in Depts |-> dean_dashboard(sc, d).counts[k]])
                                  + Cardinality(Chosen(Unaffiliated(sc), k))
  <2> DEFINE t == [d \in Depts |-> dean_dashboard(sc, d).counts[k]]
             U == Unaffiliated(sc)
  <2>1. DOMAIN t = Depts /\ \A d \in Depts : t[d] = Cardinality(Chosen({s \in S : DeptOf[Teacher(s)] = d}, k))
    BY <1>4
  <2>2. U = {s \in S : DeptOf[Teacher(s)] = NoDept}
    BY DEF Unaffiliated
  <2> HIDE DEF t, U, S
  <2>3. Cardinality(Chosen(S, k)) = SumOn(t, Depts) + Cardinality(Chosen(U, k))
    BY <1>1, <2>1, <2>2, DeptsAddUp
  <2>4. Total(t) = SumOn(t, Depts)
    BY <2>1, TotalOn
  <2>5. Cardinality(Chosen(S, k)) = Total(t) + Cardinality(Chosen(U, k))
    BY <2>3, <2>4
  <2> QED BY <2>5 DEF t, U
<1>6. ASSUME NEW d \in Depts
      PROVE  dean_dashboard(sc, d).counts[k] =
               Total([f \in DOMAIN dean_reports(sc, d) |-> dean_reports(sc, d)[f].counts[k]])
  <2> DEFINE rows == dean_reports(sc, d)
             R == of(d)
  <2>1. rows = faculty_attendance(OfDept(sc, d)) /\ scoped_sessions(OfDept(sc, d)) = R
    BY DeanSees
  <2>2. IsFiniteSet(R)
    BY <1>1, DatedFinite
  <2>3. RowsCount(rows, R, k)
    <3>1. DOMAIN rows = {Teacher(s) : s \in R} /\ \A f \in DOMAIN rows : rows[f].counts = Counts(Mine(R, f))
      <4> HIDE DEF rows, R
      <4> QED BY <2>1, ReportIs
    <3> HIDE DEF rows, R
    <3>2. \A f \in DOMAIN rows : rows[f].counts[k] = Cardinality(Chosen(Mine(R, f), k))
      BY <3>1, CountIs
    <3> QED BY <3>1, <3>2 DEF RowsCount
  <2> HIDE DEF rows, R
  <2>4. Total([f \in DOMAIN rows |-> rows[f].counts[k]]) = Cardinality(Chosen(R, k))
    BY <2>2, <2>3, RowsAddUp
  <2> QED BY <1>4, <2>4 DEF rows, R
<1> HIDE DEF S
<1> QED BY <1>2, <1>3, <1>5, <1>6

\* A card and its export look at the same sessions.
LEMMA CardIs ==
  ASSUME RowsTyped, NEW sc, WholeScope(sc), NEW f \in DOMAIN DeptOf
  PROVE  LET own == Mine(scoped_sessions(sc), f)
             held == {s \in own : Held(s)}
             card == scorecard(sc, f)
         IN  /\ card.counts = Counts(own) /\ card.late = Lateness(own)
             /\ card.early_ends = Cardinality({s \in own : rtable[s].early})
             /\ card.modalities = [m \in {ModalityOf[s] : s \in held} |->
                                     Cardinality({s \in held : ModalityOf[s] = m})]
<1>1. f # Everyone
  BY ReportingConstants
<1>2. scoped_sessions(OfTeacher(sc, f)) = Mine(scoped_sessions(sc), f)
  BY <1>1, ScopedIs DEF Mine
<1> QED BY <1>2 DEF scorecard, faculty_scorecard

LEMMA ExportIs ==
  ASSUME NEW sc, NEW f
  PROVE  LET own == Mine(scoped_sessions(sc), f)
             rows == scorecard_export(sc, f)
         IN  /\ \A row \in rows : /\ row.counts = Counts(own) /\ row.late = Lateness(own)
                                  /\ row.early_ends = Cardinality({s \in own : rtable[s].early})
                                  /\ row.verified = verified_count(own)
             /\ rows = {} => own = {}
<1> DEFINE rep == faculty_attendance(sc)
           S == scoped_sessions(sc)
           own == Mine(S, f)
<1>1. scorecard_export(sc, f) = IF f \in DOMAIN rep THEN {rep[f]} ELSE {}
  BY DEF scorecard_export
<1>2. /\ DOMAIN rep = {Teacher(s) : s \in S}
      /\ f \in DOMAIN rep =>
           /\ rep[f].counts = Counts(own) /\ rep[f].late = Lateness(own)
           /\ rep[f].early_ends = Cardinality({s \in own : rtable[s].early})
           /\ rep[f].verified = verified_count(own)
  BY ReportIs
<1>3. f \notin DOMAIN rep => own = {}
  BY <1>2 DEF Mine
<1> HIDE DEF rep
<1> QED BY <1>1, <1>2, <1>3

LEMMA ModalitiesAddUp ==
  ASSUME NEW H, IsFiniteSet(H)
  PROVE  Total([m \in {ModalityOf[s] : s \in H} |-> Cardinality({s \in H : ModalityOf[s] = m})])
           = Cardinality(H)
<1> DEFINE K == {ModalityOf[s] : s \in H}
           part == [m \in K |-> {s \in H : ModalityOf[s] = m}]
           t == [m \in K |-> Cardinality({s \in H : ModalityOf[s] = m})]
<1>1. IsFiniteSet(K)
  BY ImageFinite
<1>2. /\ \A m \in K : part[m] \in SUBSET H /\ t[m] = Cardinality(part[m])
      /\ \A s \in H : \E m \in K : s \in part[m]
      /\ \A m, n \in K : m # n => part[m] \cap part[n] = {}
      /\ DOMAIN t = K
  OBVIOUS
<1> HIDE DEF K, part, t
<1>3. Cardinality(H) = SumOn(t, K)
  <2>1. \A m \in K : part[m] \in SUBSET H
    BY <1>2
  <2>2. \A m \in K : t[m] = Cardinality(part[m])
    BY <1>2
  <2> QED BY <1>1, <1>2, <2>1, <2>2, CountParts
<1>4. Total(t) = Cardinality(H)
  BY <1>2, <1>3, TotalOn
<1> QED BY <1>4 DEF t, K

LEMMA CardTrue ==
  ASSUME RowsTyped, NEW sc, WholeScope(sc), NEW f \in DOMAIN DeptOf
  PROVE  CardAgrees(scorecard(sc, f), scorecard_export(sc, f))
<1> DEFINE own == Mine(scoped_sessions(sc), f)
           held == {s \in own : Held(s)}
           card == scorecard(sc, f)
           rows == scorecard_export(sc, f)
<1>1. /\ card.counts = Counts(own) /\ card.late = Lateness(own)
      /\ card.early_ends = Cardinality({s \in own : rtable[s].early})
      /\ card.modalities = [m \in {ModalityOf[s] : s \in held} |->
                              Cardinality({s \in held : ModalityOf[s] = m})]
  BY CardIs
<1>2. /\ \A row \in rows : /\ row.counts = Counts(own) /\ row.late = Lateness(own)
                           /\ row.early_ends = Cardinality({s \in own : rtable[s].early})
      /\ rows = {} => own = {}
  BY ExportIs
<1>3. IsFiniteSet(held)
  <2>1. held \in SUBSET Dated
    BY ScopedIn DEF Mine
  <2> QED BY <2>1, DatedFinite
<1>4. Counts(own).held = Cardinality(held) /\ Counts(own).scheduled = Cardinality(own)
  BY DEF Counts
<1>5. Total(card.modalities) = Cardinality(held)
  <2> HIDE DEF held
  <2> QED BY <1>1, <1>3, ModalitiesAddUp
<1>6. own = {} => Counts(own).scheduled = 0
  BY <1>4, FS_EmptySet
<1> HIDE DEF own, held, card, rows
<1>7. CardAgrees(card, rows)
  BY <1>1, <1>2, <1>4, <1>5, <1>6 DEF CardAgrees
<1> QED BY <1>7 DEF card, rows

\* The row of a teacher depends on nothing but the teacher's sessions.
LEMMA SameRow ==
  ASSUME NEW a, NEW b, NEW f, Mine(scoped_sessions(a), f) = Mine(scoped_sessions(b), f)
  PROVE  scorecard_export(a, f) = scorecard_export(b, f)
<1> DEFINE row(M) == [counts |-> Counts(M), verified |-> verified_count(M),
                      early_ends |-> Cardinality({s \in M : rtable[s].early}),
                      absences |-> {<<ScheduleOf[s], DateOf[s]>> : s \in {x \in M : rtable[x].status = "absent"}},
                      late |-> Lateness(M)]
<1>1. ASSUME NEW x
      PROVE  faculty_attendance(x) = [g \in {Teacher(s) : s \in scoped_sessions(x)} |-> row(Mine(scoped_sessions(x), g))]
  BY DEF faculty_attendance, Mine
<1>2. ASSUME NEW x
      PROVE  f \in {Teacher(s) : s \in scoped_sessions(x)} <=> Mine(scoped_sessions(x), f) # {}
  BY DEF Mine
<1> HIDE DEF row
<1>3. ASSUME NEW x
      PROVE  scorecard_export(x, f) = IF Mine(scoped_sessions(x), f) # {} THEN {row(Mine(scoped_sessions(x), f))} ELSE {}
  BY <1>1, <1>2 DEF scorecard_export
<1> QED BY <1>3

LEMMA OwnCardsTrue ==
  ASSUME RowsTyped, NEW sc, WholeScope(sc), NEW f \in DOMAIN DeptOf, NEW d \in Depts \union {NoDept}
  PROVE  OwnCards(sc, d, f)
<1>1. dean_scorecard(sc, d, f) = IF d # NoDept /\ DeptOf[f] = d THEN {scorecard(sc, f)} ELSE {}
  BY DEF dean_scorecard, MayOpen, scorecard
<1>2. dean_scorecard_export(sc, d, f) = IF MayOpen(d, f) THEN scorecard_export(OfDept(sc, d), f) ELSE {}
  BY DEF dean_scorecard_export, scorecard_export
<1>3. ASSUME MayOpen(d, f) PROVE scorecard_export(OfDept(sc, d), f) = scorecard_export(sc, f)
  <2>1. d \in Depts /\ DeptOf[f] = d
    BY <1>3 DEF MayOpen
  <2>2. scoped_sessions(OfDept(sc, d)) = {s \in scoped_sessions(sc) : DeptOf[Teacher(s)] = d}
    BY <2>1, DeptsAre, ScopedIs
  <2>3. Mine(scoped_sessions(OfDept(sc, d)), f) = Mine(scoped_sessions(sc), f)
    BY <2>1, <2>2 DEF Mine
  <2> QED BY <2>3, SameRow
<1> QED BY <1>1, <1>2, <1>3 DEF OwnCards, MayOpen

LEMMA FileTrue ==
  ASSUME RowsTyped, NEW sc, WholeScope(sc), NEW d \in Depts PROVE FileWhole(sc, d)
<1> DEFINE rows == dean_reports(sc, d)
           S == {s \in scoped_sessions(sc) : DeptOf[Teacher(s)] = d}
           D == DOMAIN rows
           line == [f \in D |-> <<f, rows[f].counts.scheduled, rows[f].counts.held, rows[f].counts.absent,
                                  rows[f].counts.attendance_pct, rows[f].verified, rows[f].late.minutes_late_avg,
                                  rows[f].late.chronic_late>>]
           who == [s \in S |-> Teacher(s)]
<1>1. /\ dean_dashboard(sc, d).faculty_count = Cardinality({Teacher(s) : s \in S})
      /\ rows = faculty_attendance(OfDept(sc, d)) /\ scoped_sessions(OfDept(sc, d)) = S
  BY DeanSees
<1>2. D = {Teacher(s) : s \in S}
  <2> HIDE DEF rows, S
  <2> QED BY <1>1, ReportIs
<1>3. IsFiniteSet(D)
  <2>1. IsFiniteSet(S)
    BY ScopedIn, DatedFinite
  <2>2. D = {who[s] : s \in S}
    BY <1>2
  <2> HIDE DEF who, S, D
  <2> QED BY <2>1, <2>2, ImageFinite
<1>4. ReportCells(rows) = {line[f] : f \in D}
  BY DEF ReportCells
<1>5. \A f, g \in D : line[f] = line[g] => f = g
  <2> HIDE DEF rows, D
  <2> SUFFICES ASSUME NEW f \in D, NEW g \in D, line[f] = line[g] PROVE f = g
    OBVIOUS
  <2>1. line[f][1] = f /\ line[g][1] = g
    OBVIOUS
  <2> QED BY <2>1
<1>6. Cardinality(ReportCells(rows)) = Cardinality(D)
  <2> HIDE DEF line, D, rows
  <2> QED BY <1>3, <1>4, <1>5, CountImage
<1>7. dean_report_export(sc, d, "csv") = ReportCells(rows)
  BY DEF dean_report_export, build_csv
<1>8. dean_report_export(sc, d, "pdf") = build_pdf(rows)
  BY DEF dean_report_export
<1>9. build_pdf(rows) \in {ReportCells(rows), {"no data"}}
  BY DEF build_pdf
<1> HIDE DEF rows, D, S, line
<1> QED BY <1>1, <1>2, <1>6, <1>7, <1>8, <1>9 DEF FileWhole

\* HR's list, without the labels it goes through.
OnDays(sc, s) == sc.start <= DateOf[s] /\ DateOf[s] <= sc.end

LEMMA AttendanceIs ==
  ASSUME NEW sc, NEW f, NEW d
  PROVE  attendance(sc, f, d) =
           {s \in Dated : /\ OnDays(sc, s) /\ (f = Everyone \/ Teacher(s) = f)
                          /\ (d = Everyone \/ DeptOf[Teacher(s)] = d)}
<1> DEFINE all == UNION {hr_rows(sc, label) : label \in {"Present", "Absent", "Scheduled"}}
<1>1. \A v : status_label(v) \in {"Present", "Absent", "Scheduled"}
  BY DEF status_label
<1>2. all = {s \in Dated : OnDays(sc, s)}
  BY <1>1 DEF hr_rows, OnDays
<1> HIDE DEF all
<1>3. attendance(sc, f, d) = {s \in all : (f = Everyone \/ Teacher(s) = f) /\ (d = Everyone \/ DeptOf[Teacher(s)] = d)}
  BY DEF attendance, all
<1> QED BY <1>2, <1>3

LEMMA PresentHeld == ASSUME NEW s PROVE status_label(rtable[s].status) = "Present" <=> Held(s)
BY DEF status_label, Held

LEMMA PresentTrue == ASSUME NEW sc, WholeScope(sc) PROVE PresentIsHeld(sc)
<1>1. scoped_sessions(sc) = {s \in Dated : InDates(sc, s) /\ ScheduleOf[s] \notin dropped}
  BY ScopedIs
<1> QED BY <1>1, PresentHeld DEF PresentIsHeld, hr_rows, InDates

\* A number of whole units is positive exactly if there is one.
LEMMA AtLeastOne ==
  ASSUME NEW m \in Nat, NEW k \in Nat \ {0} PROVE m \div k > 0 <=> m >= k
<1>1. m \div k \in Int
  OBVIOUS
<1>2. m >= k => m \div k > 0
  OBVIOUS
<1>3. m < k => m \div k = 0
  OBVIOUS
<1> QED BY <1>1, <1>2, <1>3

LEMMA LateMinutes ==
  ASSUME RowsTyped, NEW s \in Dated
  PROVE  /\ minutes_late(s) \in Nat
         /\ minutes_late(s) \div MinuteTicks > 0 <=> minutes_late(s) >= MinuteTicks
         /\ minutes_late(s) >= MinuteTicks => rtable[s].from # NoTime
<1>1. minutes_late(s) \in Nat /\ (rtable[s].from = NoTime => minutes_late(s) = 0)
  BY RowOf, AtLeast DEF minutes_late, Sched
<1>2. MinuteTicks \in Nat \ {0}
  BY ReportingConstants
<1> QED BY <1>1, <1>2, AtLeastOne

LEMMA LineIs ==
  ASSUME NEW s
  PROVE  /\ Line(s).session = s /\ Line(s).late = minutes_late(s) \div MinuteTicks
         /\ Line(s).status = status_label(rtable[s].status)
         /\ Line(s).verified <=> rtable[s].checks > 0
BY DEF Line

\* Counting lines is counting sessions.
LEMMA LinesCount ==
  ASSUME NEW S, IsFiniteSet(S) PROVE Cardinality({Line(s) : s \in S}) = Cardinality(S)
<1> DEFINE m == [s \in S |-> Line(s)]
<1>1. \A x, y \in S : m[x] = m[y] => x = y
  <2>1. \A x \in S : m[x].session = x
    BY LineIs
  <2> HIDE DEF m
  <2> QED BY <2>1
<1>2. {Line(s) : s \in S} = {m[s] : s \in S}
  OBVIOUS
<1> HIDE DEF m
<1> QED BY <1>1, <1>2, CountImage

LEMMA LinesTrue ==
  ASSUME RowsTyped, NEW sc, WholeScope(sc), NEW f \in DOMAIN DeptOf PROVE LinesAgree(sc, f)
<1> DEFINE lines == {x \in attendance_csv(sc, f, Everyone) :
                       ScheduleOf[x.session] \notin dropped /\ DateOf[x.session] <= sc.as_of}
           own == Mine(scoped_sessions(sc), f)
<1>1. f # Everyone /\ DeptOf[f] # Everyone
  BY ReportingConstants
<1>2. sc.start # NoTime /\ sc.end # NoTime
  BY DEF WholeScope, NoTime
<1>3. attendance_csv(sc, f, DeptOf[f]) = faculty_history(f, sc.start, sc.end)
  <2> DEFINE his == {x \in Dated : /\ Teacher(x) = f
                                   /\ sc.start = NoTime \/ sc.start <= DateOf[x]
                                   /\ sc.end = NoTime \/ DateOf[x] <= sc.end}
             list == attendance(sc, f, DeptOf[f])
  <2>1. list = {s \in Dated : /\ OnDays(sc, s) /\ (f = Everyone \/ Teacher(s) = f)
                              /\ (DeptOf[f] = Everyone \/ DeptOf[Teacher(s)] = DeptOf[f])}
    BY AttendanceIs
  <2>2. list = {s \in Dated : OnDays(sc, s) /\ Teacher(s) = f}
    <3> HIDE DEF list
    <3> QED BY <1>1, <2>1
  <2>3. his = {s \in Dated : OnDays(sc, s) /\ Teacher(s) = f}
    BY <1>2 DEF OnDays
  <2>4. faculty_history(f, sc.start, sc.end) = {Line(s) : s \in his}
    BY DEF faculty_history
  <2>5. attendance_csv(sc, f, DeptOf[f]) = {Line(s) : s \in list}
    BY DEF attendance_csv
  <2>6. list = his
    BY <2>2, <2>3
  <2> HIDE DEF list, his
  <2> QED BY <2>4, <2>5, <2>6
<1>4. lines = {Line(s) : s \in own}
  <2>1. attendance(sc, f, Everyone) = {s \in Dated : OnDays(sc, s) /\ Teacher(s) = f}
    BY <1>1, AttendanceIs
  <2>2. own = {s \in attendance(sc, f, Everyone) : ScheduleOf[s] \notin dropped /\ DateOf[s] <= sc.as_of}
    BY <2>1, ScopedIs DEF Mine, InDates, OnDays
  <2>3. attendance_csv(sc, f, Everyone) = {Line(s) : s \in attendance(sc, f, Everyone)}
    BY DEF attendance_csv
  <2>4. \A s : Line(s).session = s
    BY LineIs
  <2> HIDE DEF own
  <2> QED BY <2>2, <2>3, <2>4
<1>5. own \in SUBSET Dated
  BY ScopedIn DEF Mine
<1>6. {x \in lines : x.verified} = {Line(s) : s \in {y \in own : rtable[y].checks > 0}}
  <2>1. \A s : Line(s).verified <=> rtable[s].checks > 0
    BY LineIs
  <2> HIDE DEF own, lines
  <2> QED BY <1>4, <2>1
<1>7. Cardinality({x \in lines : x.verified}) = verified_count(own)
  <2> DEFINE V == {y \in own : rtable[y].checks > 0}
  <2>1. IsFiniteSet(V)
    BY <1>5, DatedFinite
  <2> HIDE DEF own, lines
  <2>2. verified_count(own) = Cardinality(V)
    BY DEF verified_count
  <2> HIDE DEF V
  <2> QED BY <1>6, <2>1, <2>2, LinesCount DEF V
<1>8. Lateness(own).late_sessions =
        Cardinality({s \in own : Held(s) /\ rtable[s].from # NoTime /\ minutes_late(s) >= MinuteTicks})
  <2> HIDE DEF own
  <2>1. Lateness(own).late_sessions =
          Cardinality({s \in {x \in own : Held(x) /\ rtable[x].from # NoTime} : minutes_late(s) >= MinuteTicks})
    BY DEF Lateness
  <2>2. {s \in {x \in own : Held(x) /\ rtable[x].from # NoTime} : minutes_late(s) >= MinuteTicks}
          = {s \in own : Held(s) /\ rtable[s].from # NoTime /\ minutes_late(s) >= MinuteTicks}
    OBVIOUS
  <2> QED BY <2>1, <2>2
<1>9. Cardinality({x \in lines : x.status = "Present" /\ x.late > 0}) = Lateness(own).late_sessions
  <2> DEFINE L == {s \in own : Held(s) /\ rtable[s].from # NoTime /\ minutes_late(s) >= MinuteTicks}
  <2>1. IsFiniteSet(L)
    BY <1>5, DatedFinite
  <2>2. ASSUME NEW s \in own
        PROVE  Line(s).status = "Present" /\ Line(s).late > 0 <=> s \in L
    <3>1. Line(s).status = "Present" <=> Held(s)
      BY LineIs, PresentHeld
    <3>2. Line(s).late > 0 <=> minutes_late(s) >= MinuteTicks
      BY <1>5, LineIs, LateMinutes
    <3>3. minutes_late(s) >= MinuteTicks => rtable[s].from # NoTime
      BY <1>5, LateMinutes
    <3> HIDE DEF own
    <3> QED BY <3>1, <3>2, <3>3
  <2>3. L \in SUBSET own
    OBVIOUS
  <2> HIDE DEF own, lines, L
  <2>4. {x \in lines : x.status = "Present" /\ x.late > 0} = {Line(s) : s \in L}
    BY <1>4, <2>2, <2>3
  <2>5. Lateness(own).late_sessions = Cardinality(L)
    BY <1>8 DEF L
  <2> QED BY <2>1, <2>4, <2>5, LinesCount
<1>10. \A row \in scorecard_export(sc, f) : row.verified = verified_count(own) /\ row.late = Lateness(own)
  BY ExportIs
<1> HIDE DEF own
<1> QED BY <1>3, <1>7, <1>9, <1>10 DEF LinesAgree

\* Coverage: never more verified than held, and a floor nobody checked shows.
LEMMA CoverageIs ==
  ASSUME RowsTyped, NEW sc PROVE CoverageTrue(coverage_by_building_day(sc), zero_coverage_floors(sc))
<1> DEFINE H == HeldIn(sc)
           key(s) == <<Building[rtable[s].room], DayOf[ScheduleOf[s]]>>
           here(k) == {s \in H : key(s) = k}
           checked(S) == {s \in S : rtable[s].checks > 0}
           cov == coverage_by_building_day(sc)
           zero == zero_coverage_floors(sc)
<1>1. H \in SUBSET Dated
  BY ScopedIn DEF HeldIn, exclude_virtual
<1>2. /\ DOMAIN cov = {key(s) : s \in H}
      /\ \A k \in DOMAIN cov : cov[k].held = Cardinality(here(k)) /\ cov[k].verified = Cardinality(checked(here(k)))
  BY DEF coverage_by_building_day, verified_count
<1>3. ASSUME NEW k
      PROVE  /\ Cardinality(checked(here(k))) <= Cardinality(here(k))
             /\ checked(here(k)) # here(k) => Cardinality(checked(here(k))) < Cardinality(here(k))
  <2> DEFINE A == here(k)
             B == checked(here(k))
  <2>1. IsFiniteSet(A) /\ B \in SUBSET A /\ IsFiniteSet(B)
    BY <1>1, DatedFinite
  <2> HIDE DEF A, B
  <2>2. Cardinality(A) \in Nat /\ Cardinality(B) \in Nat /\ Cardinality(B) <= Cardinality(A)
        /\ (Cardinality(B) = Cardinality(A) => B = A)
    BY <2>1, FS_Subset, FS_CardinalityType
  <2>3. Cardinality(B) <= Cardinality(A) /\ (B # A => Cardinality(B) < Cardinality(A))
    BY <2>2
  <2> QED BY <2>3 DEF A, B
<1>4. ASSUME NEW floor \in zero
      PROVE  \E k \in DOMAIN cov : k[1] = floor[1] /\ cov[k].verified < cov[k].held
  <2> DEFINE F == {s \in H : FloorOf(s) = floor}
  <2>1. /\ \E s \in H : floor = FloorOf(s)
        /\ Cardinality(checked(F)) = 0
    BY DEF zero_coverage_floors, verified_count
  <2>2. checked(F) = {}
    <3>1. IsFiniteSet(checked(F))
      BY <1>1, DatedFinite
    <3> QED BY <2>1, <3>1, FS_EmptySet
  <2>3. PICK s \in H : floor = FloorOf(s)
    BY <2>1
  <2>4. s \in F /\ ~(rtable[s].checks > 0)
    BY <2>2, <2>3
  <2>5. key(s)[1] = floor[1]
    BY <2>3 DEF FloorOf
  <2>6. s \in here(key(s)) /\ s \notin checked(here(key(s))) /\ key(s) \in DOMAIN cov
    BY <1>2, <2>4
  <2>7. cov[key(s)].verified < cov[key(s)].held
    <3> HIDE DEF cov, key, H
    <3> QED BY <1>2, <1>3, <2>6
  <2> HIDE DEF key, cov
  <2> QED BY <2>5, <2>6, <2>7
<1>5. \A k \in DOMAIN cov : cov[k].verified <= cov[k].held
  <2> HIDE DEF cov, H, key
  <2> QED BY <1>2, <1>3
<1> HIDE DEF cov, zero
<1>6. CoverageTrue(cov, zero)
  BY <1>4, <1>5 DEF CoverageTrue
<1> QED BY <1>6 DEF cov, zero

-----------------------------------------------------------------------------
(***************************************************************************)
(* Rows in order, and pages of them.                                       *)
(***************************************************************************)
Ordered(q, S) ==
  /\ q \in [1..Cardinality(S) -> S]
  /\ \A i, j \in 1..Cardinality(S) : i < j => q[i] # q[j] /\ EarlierOrTied(q[i], q[j])

LEMMA WhenOf ==
  ASSUME RowsTyped, NEW s \in Dated PROVE DateOf[s] \in Nat /\ Sched(s) \in Nat
BY RowOf, ReportingConstants DEF Sched

\* Some class of a set comes last.
LEMMA LatestExists ==
  ASSUME RowsTyped, NEW T \in SUBSET Dated, T # {}
  PROVE  \E x \in T : \A y \in T : EarlierOrTied(y, x)
<1>1. IsFiniteSet(T) /\ \A s \in T : DateOf[s] \in Nat /\ Sched(s) \in Nat
  BY DatedFinite, WhenOf
<1> DEFINE dates == {DateOf[s] : s \in T}
           last == Max(dates)
           U == {s \in T : DateOf[s] = last}
           at == [s \in T |-> Sched(s)]
           starts == {at[s] : s \in U}
<1>2. IsFiniteSet(dates) /\ dates \in SUBSET Int /\ dates # {}
  BY <1>1, ImageFinite
<1>3. last \in dates /\ \A d \in dates : last >= d
  BY <1>2, FinMax
<1>4. U # {} /\ IsFiniteSet(U) /\ U \in SUBSET T
  BY <1>1, <1>3, FS_Subset
<1>5. IsFiniteSet(starts) /\ starts \in SUBSET Int /\ starts # {}
  <2>1. IsFiniteSet(starts)
    <3> HIDE DEF U, at
    <3> QED BY <1>4, ImageFinite
  <2>2. starts \in SUBSET Int /\ starts # {}
    <3>1. \A s \in T : at[s] \in Int
      BY <1>1
    <3> HIDE DEF U, at
    <3>2. \A s \in U : at[s] \in Int
      BY <1>4, <3>1
    <3> QED BY <1>4, <3>2
  <2> QED BY <2>1, <2>2
<1>6. Max(starts) \in starts /\ \A t \in starts : Max(starts) >= t
  <2> HIDE DEF starts
  <2> QED BY <1>5, FinMax
<1>7. PICK x \in U : at[x] = Max(starts)
  BY <1>6
<1>8. x \in T /\ DateOf[x] = last
  BY <1>7
<1>9. ASSUME NEW y \in T PROVE EarlierOrTied(y, x)
  <2>1. DateOf[y] \in Nat /\ DateOf[x] \in Nat /\ DateOf[y] <= DateOf[x]
    BY <1>1, <1>3, <1>8
  <2>2. DateOf[y] = DateOf[x] => Sched(y) <= Sched(x)
    <3> SUFFICES ASSUME DateOf[y] = DateOf[x] PROVE Sched(y) <= Sched(x)
      OBVIOUS
    <3>1. y \in U
      BY <1>8
    <3>2. at[y] = Sched(y) /\ at[x] = Sched(x) /\ at[y] \in starts
      BY <1>8, <3>1
    <3>3. Sched(y) \in Nat /\ Sched(x) \in Nat
      BY <1>1, <1>8
    <3> HIDE DEF at, starts
    <3> QED BY <1>6, <1>7, <3>2, <3>3
  <2> QED BY <2>1, <2>2 DEF EarlierOrTied
<1> QED BY <1>8, <1>9

\* So the rows of any set can be put in order.
LEMMA OrderExists ==
  ASSUME RowsTyped, NEW S \in SUBSET Dated PROVE \E q : Ordered(q, S)
<1> DEFINE Bad == {T \in SUBSET S : ~\E q : Ordered(q, T)}
<1> SUFFICES ASSUME Bad # {} PROVE FALSE
  OBVIOUS
<1>0. IsFiniteSet(S)
  BY DatedFinite
<1>1. PICK T \in Bad : \A x \in T : T \ {x} \notin Bad
  <2>1. Bad \in SUBSET (SUBSET S) /\ Bad # {}
    OBVIOUS
  <2> HIDE DEF Bad
  <2> QED BY <1>0, <2>1, LeastPart
<1>2. T \in SUBSET S /\ T \in SUBSET Dated /\ ~\E q : Ordered(q, T)
  BY <1>1
<1>3. T # {}
  <2> SUFFICES ASSUME T = {} PROVE FALSE
    OBVIOUS
  <2>1. Cardinality(T) = 0
    BY FS_EmptySet
  <2>2. Ordered([i \in 1..0 |-> i], T)
    <3>1. 1..Cardinality(T) = {} /\ 1..0 = {}
      BY <2>1
    <3> QED BY <3>1 DEF Ordered
  <2> QED BY <1>2, <2>2
<1>4. PICK x \in T : \A y \in T : EarlierOrTied(y, x)
  BY <1>2, <1>3, LatestExists
<1> DEFINE R == T \ {x}
           n == Cardinality(T)
<1>5. R \in SUBSET S /\ Cardinality(R) = n - 1 /\ n \in Nat /\ Cardinality(R) \in Nat
  BY <1>0, <1>2, SmallerPart
<1>6. PICK p : Ordered(p, R)
  BY <1>1, <1>5
<1> DEFINE q == [i \in 1..n |-> IF i = n THEN x ELSE p[i]]
<1>7. \A i \in 1..n : i # n => i \in 1..Cardinality(R)
  BY <1>5
<1>8. p \in [1..Cardinality(R) -> R] /\ \A i, j \in 1..Cardinality(R) : i < j => p[i] # p[j] /\ EarlierOrTied(p[i], p[j])
  BY <1>6 DEF Ordered
<1>9. \A i \in 1..n : q[i] \in T /\ (i # n => q[i] = p[i] /\ q[i] \in R) /\ (i = n => q[i] = x)
  <2> HIDE DEF n
  <2> QED BY <1>7, <1>8
<1>10. q \in [1..n -> T]
  <2>1. DOMAIN q = 1..n /\ q = [i \in 1..n |-> q[i]]
    OBVIOUS
  <2> HIDE DEF q, n
  <2> QED BY <1>9, <2>1
<1>11. ASSUME NEW i \in 1..n, NEW j \in 1..n, i < j PROVE q[i] # q[j] /\ EarlierOrTied(q[i], q[j])
  <2>1. i # n
    BY <1>5, <1>11
  <2>2. q[i] \in R /\ q[i] = p[i] /\ i \in 1..Cardinality(R)
    <3> HIDE DEF q, n
    <3> QED BY <1>7, <1>9, <2>1
  <2>3. CASE j = n
    <3>1. q[j] = x
      BY <2>3
    <3> HIDE DEF q, n
    <3> QED BY <1>4, <2>2, <3>1
  <2>4. CASE j # n
    <3>1. q[j] = p[j] /\ j \in 1..Cardinality(R)
      <4> HIDE DEF q, n
      <4> QED BY <1>7, <1>9, <2>4
    <3> HIDE DEF q, n, R
    <3> QED BY <1>8, <1>11, <2>2, <3>1
  <2> QED BY <2>3, <2>4
<1>12. Ordered(q, T)
  <2> HIDE DEF q
  <2> QED BY <1>10, <1>11 DEF Ordered
<1> QED BY <1>2, <1>12

LEMMA InOrderIs ==
  ASSUME RowsTyped, NEW S \in SUBSET Dated
  PROVE  LET q == InOrder(S)
             n == Cardinality(S)
         IN  /\ Ordered(q, S) /\ n \in Nat /\ q \in Seq(S) /\ Len(q) = n /\ DOMAIN q = 1..n
             /\ \A s \in S : \E i \in 1..n : q[i] = s
<1> DEFINE q == InOrder(S)
           n == Cardinality(S)
<1>1. Ordered(q, S)
  <2>1. PICK p : Ordered(p, S)
    BY OrderExists
  <2>2. InOrder(S) = CHOOSE r \in [1..Cardinality(S) -> S] :
          \A i, j \in 1..Cardinality(S) : i < j => r[i] # r[j] /\ EarlierOrTied(r[i], r[j])
    BY DEF InOrder
  <2> QED BY <2>1, <2>2 DEF Ordered
<1>2. IsFiniteSet(S) /\ n \in Nat
  BY DatedFinite, FS_CardinalityType
<1> HIDE DEF q
<1>3. q \in [1..n -> S] /\ \A i, j \in 1..n : i < j => q[i] # q[j]
  BY <1>1 DEF Ordered
<1>4. q \in Seq(S) /\ DOMAIN q = 1..n
  BY <1>2, <1>3, SeqDef
<1>5. Len(q) = n
  BY <1>2, <1>4, LenProperties
<1>6. q \in Injection(1..n, S)
  <2>1. \A i, j \in 1..n : q[i] = q[j] => i = j
    <3> SUFFICES ASSUME NEW i \in 1..n, NEW j \in 1..n, i # j PROVE q[i] # q[j]
      OBVIOUS
    <3>1. i < j \/ j < i
      BY <1>2
    <3> QED BY <1>3, <3>1
  <2> HIDE DEF n
  <2> QED BY <1>3, <2>1 DEF Injection, IsInjective
<1>7. q \in Surjection(1..n, S)
  <2>1. Cardinality(1..n) = n
    BY <1>2, FS_Interval
  <2> QED BY <1>2, <1>6, <2>1, FS_Injection
<1>8. \A s \in S : \E i \in 1..n : q[i] = s
  <2> HIDE DEF n
  <2> QED BY <1>7 DEF Surjection
<1> QED BY <1>1, <1>2, <1>4, <1>5, <1>8 DEF q

LEMMA ReversedIs ==
  ASSUME NEW S, NEW q \in Seq(S) PROVE Reverse(q) \in Seq(S)
<1>1. Len(q) \in Nat /\ q \in [1..Len(q) -> S]
  BY LenProperties
<1>2. Reverse(q) = [i \in 1..Len(q) |-> q[(Len(q) - i) + 1]]
  BY DEF Reverse
<1>3. \A i \in 1..Len(q) : (Len(q) - i) + 1 \in 1..Len(q)
  BY <1>1
<1>4. Reverse(q) \in [1..Len(q) -> S]
  BY <1>1, <1>2, <1>3
<1> QED BY <1>1, <1>4, SeqDef

\* Pages laid end to end.
Joins(g, pages) == g = [i \in 1..Len(pages) |-> IF i = 1 THEN pages[i] ELSE g[i - 1] \o pages[i]]

LEMMA FlattenIs ==
  ASSUME NEW pages, Len(pages) # 0
  PROVE  FlattenSeq(pages) = (CHOOSE g : Joins(g, pages))[Len(pages)]
BY DEF FlattenSeq, Joins

\* Where the pages of two rows begin and end.
LastRow(k, len) == IF k * 2 <= len THEN k * 2 ELSE len

LEMMA PageNumbers ==
  ASSUME NEW rows, Len(rows) \in Nat
  PROVE  LET N == NumPages(rows, 2)
             L == Len(rows)
         IN  /\ N \in Nat \ {0} /\ N <= L + 1
             /\ LastRow(N, L) = L
             /\ \A k \in 1..N : /\ LastRow(k, L) \in 0..L /\ (k - 1) * 2 <= LastRow(k, L)
                                /\ (k > 1 => LastRow(k - 1, L) = (k - 1) * 2)
                                /\ PageNumber(k, N) = k
                                /\ paginate(rows, k, 2) = SubSeq(rows, (k - 1) * 2 + 1, LastRow(k, L))
             /\ PageNumber(0, N) = N /\ PageNumber(L + 1, N) = N
             /\ L > 0 => (N - 1) * 2 < L
<1> DEFINE N == NumPages(rows, 2)
           L == Len(rows)
           h == (L + 2 - 1) \div 2
<1>1. h \in Int /\ 2 * h <= L + 1 /\ L <= 2 * h
  OBVIOUS
<1>2. N = IF 1 >= h THEN 1 ELSE h
  BY <1>1, MaxOfTwo DEF NumPages
<1> HIDE DEF N, h
<1>3. N \in Nat \ {0} /\ N <= L + 1 /\ L <= 2 * N /\ (L > 0 => (N - 1) * 2 < L) /\ (N > 1 => (N - 1) * 2 < L)
  BY <1>1, <1>2
<1>4. LastRow(N, L) = L
  BY <1>3 DEF LastRow
<1>5. ASSUME NEW k \in 1..N
      PROVE  /\ LastRow(k, L) \in 0..L /\ (k - 1) * 2 <= LastRow(k, L)
             /\ (k > 1 => LastRow(k - 1, L) = (k - 1) * 2)
  BY <1>3 DEF LastRow
<1>6. ASSUME NEW k \in 1..N PROVE PageNumber(k, N) = k
  BY <1>3 DEF PageNumber, NoTime
<1>7. ASSUME NEW k \in 1..N PROVE paginate(rows, k, 2) = SubSeq(rows, (k - 1) * 2 + 1, LastRow(k, L))
  <2>1. Min({k * 2, Len(rows)}) = LastRow(k, L)
    <3> DEFINE a == k * 2
               b == Len(rows)
    <3>1. a \in Int /\ b \in Int /\ LastRow(k, L) = IF a <= b THEN a ELSE b
      BY <1>3 DEF LastRow
    <3> HIDE DEF a, b
    <3>2. Min({a, b}) = LastRow(k, L)
      BY <3>1, MaxOfTwo
    <3> QED BY <3>2 DEF a, b
  <2>2. paginate(rows, k, 2) = PageRows(rows, PageNumber(k, N), 2)
    BY DEF paginate, N
  <2> QED BY <1>6, <2>1, <2>2 DEF PageRows
<1>8. PageNumber(0, N) = N /\ PageNumber(L + 1, N) = N
  BY <1>3 DEF PageNumber, NoTime
<1>9. /\ N \in Nat \ {0} /\ N <= L + 1
      /\ LastRow(N, L) = L
      /\ \A k \in 1..N : /\ LastRow(k, L) \in 0..L /\ (k - 1) * 2 <= LastRow(k, L)
                         /\ (k > 1 => LastRow(k - 1, L) = (k - 1) * 2)
                         /\ PageNumber(k, N) = k
                         /\ paginate(rows, k, 2) = SubSeq(rows, (k - 1) * 2 + 1, LastRow(k, L))
      /\ PageNumber(0, N) = N /\ PageNumber(L + 1, N) = N
      /\ L > 0 => (N - 1) * 2 < L
  BY <1>3, <1>4, <1>5, <1>6, <1>7, <1>8
<1> QED BY <1>9 DEF N

\* The pages of any list show every line of it once, in order, and a page number out of
\* range shows the last page.
LEMMA PagesTrue ==
  ASSUME NEW X, NEW rows \in Seq(X) PROVE PagesWhole(rows, 2)
<1> DEFINE N == NumPages(rows, 2)
           L == Len(rows)
           page(k) == paginate(rows, k, 2)
           pages == [k \in 1..N |-> page(k)]
           upto(k) == SubSeq(rows, 1, LastRow(k, L))
<1>0. L \in Nat /\ rows \in [1..L -> X]
  BY LenProperties
<1>1. /\ N \in Nat \ {0} /\ N <= L + 1
      /\ LastRow(N, L) = L
      /\ \A k \in 1..N : /\ LastRow(k, L) \in 0..L /\ (k - 1) * 2 <= LastRow(k, L)
                         /\ (k > 1 => LastRow(k - 1, L) = (k - 1) * 2)
                         /\ PageNumber(k, N) = k
                         /\ page(k) = SubSeq(rows, (k - 1) * 2 + 1, LastRow(k, L))
      /\ PageNumber(0, N) = N /\ PageNumber(L + 1, N) = N
      /\ L > 0 => (N - 1) * 2 < L
  BY <1>0, PageNumbers
<1> HIDE DEF N, L, page
<1>2. Len(pages) = N
  BY <1>1
<1>3. ASSUME NEW k \in 1..N, k > 1 PROVE upto(k - 1) \o page(k) = upto(k)
  <2> DEFINE m == (k - 1) * 2
             e == LastRow(k, L)
  <2>1. page(k) = SubSeq(rows, m + 1, e) /\ upto(k - 1) = SubSeq(rows, 1, m) /\ m \in Nat /\ m <= e /\ e \in 0..L
    <3>1. m \in Nat
      BY <1>1, <1>3
    <3>2. LastRow(k - 1, L) = m /\ m <= e /\ e \in 0..L /\ page(k) = SubSeq(rows, m + 1, e)
      BY <1>1, <1>3
    <3> QED BY <3>1, <3>2 DEF upto
  <2>2. 1 \in 1..Len(rows) + 1 /\ m \in (1 - 1)..Len(rows) /\ e \in m..Len(rows)
    BY <1>0, <2>1 DEF L
  <2> HIDE DEF m, e
  <2>3. SubSeq(rows, 1, m) \o SubSeq(rows, m + 1, e) = SubSeq(rows, 1, e)
    BY <2>2, ConcatAdjacentSubSeq
  <2> QED BY <2>1, <2>3 DEF e
<1>4. page(1) = upto(1)
  <2>1. 1 \in 1..N /\ (1 - 1) * 2 + 1 = 1
    BY <1>1
  <2>2. page(1) = SubSeq(rows, (1 - 1) * 2 + 1, LastRow(1, L))
    BY <1>1, <2>1
  <2> QED BY <2>1, <2>2
<1>5. Joins([i \in 1..N |-> upto(i)], pages)
  <2> HIDE DEF upto
  <2> DEFINE f == [i \in 1..N |-> upto(i)]
  <2>1. ASSUME NEW i \in 1..N PROVE f[i] = IF i = 1 THEN pages[i] ELSE f[i - 1] \o pages[i]
    <3>1. pages[i] = page(i) /\ f[i] = upto(i)
      OBVIOUS
    <3>2. CASE i = 1
      BY <1>4, <3>1, <3>2
    <3>3. CASE i # 1
      <4>1. i > 1 /\ i - 1 \in 1..N
        BY <1>1, <3>3
      <4>2. f[i - 1] = upto(i - 1)
        BY <4>1
      <4> HIDE DEF f, pages
      <4> QED BY <1>3, <3>1, <3>3, <4>1, <4>2
    <3> QED BY <3>2, <3>3
  <2>2. f = [i \in 1..N |-> IF i = 1 THEN pages[i] ELSE f[i - 1] \o pages[i]]
    <3>1. DOMAIN f = 1..N /\ f = [i \in 1..N |-> f[i]]
      OBVIOUS
    <3> HIDE DEF f, pages
    <3> QED BY <2>1, <3>1
  <2> HIDE DEF f, pages
  <2>3. Joins(f, pages)
    BY <1>2, <2>2 DEF Joins
  <2> QED BY <2>3 DEF f
<1> DEFINE g == CHOOSE h : Joins(h, pages)
<1>6. Joins(g, pages)
  <2> HIDE DEF pages, upto
  <2> QED BY <1>5
<1>7. FlattenSeq(pages) = g[N]
  <2> HIDE DEF pages
  <2> QED BY <1>1, <1>2, FlattenIs
<1> HIDE DEF g, upto
<1>8. ASSUME NEW i \in 1..N PROVE g[i] = IF i = 1 THEN page(i) ELSE g[i - 1] \o page(i)
  <2>1. pages[i] = page(i)
    OBVIOUS
  <2> HIDE DEF pages
  <2> QED BY <1>2, <1>6, <2>1 DEF Joins
<1>9. \A i \in 1..N : g[i] = upto(i)
  <2> DEFINE Bad == {i \in 1..N : g[i] # upto(i)}
  <2> SUFFICES ASSUME Bad # {} PROVE FALSE
    OBVIOUS
  <2>1. Bad \in SUBSET Nat
    BY <1>1
  <2>2. PICK i \in Bad : \A j \in Bad : i <= j
    <3> HIDE DEF Bad
    <3> QED BY <2>1, LeastNatural
  <2>3. i \in 1..N /\ g[i] # upto(i)
    BY <2>2
  <2>4. CASE i = 1
    BY <1>4, <1>8, <2>3, <2>4
  <2>5. CASE i # 1
    <3>1. i > 1 /\ i - 1 \in 1..N /\ ~(i <= i - 1)
      BY <1>1, <2>3, <2>5
    <3>2. g[i - 1] = upto(i - 1)
      BY <2>2, <3>1
    <3> QED BY <1>3, <1>8, <2>3, <2>5, <3>1, <3>2
  <2> QED BY <2>4, <2>5
<1>10. FlattenSeq(pages) = rows
  <2>1. N \in 1..N
    BY <1>1
  <2>2. upto(N) = SubSeq(rows, 1, Len(rows))
    BY <1>1 DEF upto, L
  <2>3. SubSeq(rows, 1, Len(rows)) = rows
    BY SubSeqFull
  <2> HIDE DEF pages
  <2> QED BY <1>7, <1>9, <2>1, <2>2, <2>3
<1>11. ASSUME NEW raw \in {0, L + 1} PROVE page(raw) = page(N)
  <2>0. N \in 1..N
    BY <1>1
  <2>1. PageNumber(raw, N) = N /\ PageNumber(N, N) = N
    BY <1>1, <2>0
  <2>2. \A r : page(r) = PageRows(rows, PageNumber(r, N), 2)
    BY DEF page, paginate, N
  <2> QED BY <2>1, <2>2
<1>12. ASSUME rows # <<>> PROVE page(L + 1) # <<>>
  <2>1. L > 0
    BY <1>0, <1>12, EmptySeq DEF L
  <2>2. N \in 1..N /\ page(N) = SubSeq(rows, (N - 1) * 2 + 1, L)
    <3>1. N \in 1..N
      BY <1>1
    <3>2. page(N) = SubSeq(rows, (N - 1) * 2 + 1, LastRow(N, L))
      BY <1>1, <3>1
    <3> QED BY <1>1, <3>1, <3>2
  <2> DEFINE m == (N - 1) * 2 + 1
  <2>3. m \in 1..L /\ m \in Int /\ L \in Int
    BY <1>0, <1>1, <2>1
  <2> HIDE DEF m
  <2>4. \A i \in m..L : rows[i] \in X
    BY <1>0, <2>3
  <2>5. Len(SubSeq(rows, m, L)) = L - m + 1
    BY <2>3, <2>4, SubSeqProperties
  <2>6. Len(SubSeq(rows, m, L)) # 0
    BY <2>3, <2>5
  <2>7. SubSeq(rows, m, L) # <<>>
    BY <2>6, EmptySeq
  <2>8. page(L + 1) = page(N)
    BY <1>11
  <2> QED BY <2>2, <2>7, <2>8 DEF m
<1>13. FlattenSeq([k \in 1..NumPages(rows, 2) |-> paginate(rows, k, 2)]) = rows
  BY <1>10 DEF pages, page, N
<1> QED BY <1>11, <1>12, <1>13 DEF PagesWhole, page, N, L

LEMMA AttendanceTrue == TableInv => AttendanceReconciles
<1> SUFFICES ASSUME TableInv, NEW sc \in OpenedScopes
             PROVE  AttendanceAgrees(sc, ifo_dashboard(sc))
  BY DEF AttendanceReconciles
<1>0. RowsTyped /\ WholeScope(sc)
  BY ScopeIs DEF TableInv
<1>1. TotalsAdd(sc, ifo_dashboard(sc))
  BY <1>0, TotalsTrue
<1>2. ASSUME NEW f \in DOMAIN DeptOf
      PROVE  /\ CardAgrees(scorecard(sc, f), scorecard_export(sc, f))
             /\ \A d \in Depts \union {NoDept} : OwnCards(sc, d, f)
             /\ LinesAgree(sc, f)
  BY <1>0, CardTrue, OwnCardsTrue, LinesTrue
<1>3. PresentIsHeld(sc)
  BY <1>0, PresentTrue
<1>4. \A d \in Depts : FileWhole(sc, d)
  BY <1>0, FileTrue
<1>5. PagesWhole(NewestFirst(attendance(sc, Everyone, Everyone)), 2)
  <2> DEFINE A == attendance(sc, Everyone, Everyone)
  <2>1. A \in SUBSET Dated
    BY AttendanceIs
  <2> HIDE DEF A
  <2>2. InOrder(A) \in Seq(A)
    BY <1>0, <2>1, InOrderIs
  <2>3. NewestFirst(A) \in Seq(A)
    BY <2>2, ReversedIs DEF NewestFirst
  <2>4. PagesWhole(NewestFirst(A), 2)
    BY <2>3, PagesTrue
  <2> QED BY <2>4 DEF A
<1>6. CoverageTrue(ifo_dashboard(sc).coverage, ifo_dashboard(sc).zero_floors)
  <2>1. /\ ifo_dashboard(sc).coverage = coverage_by_building_day(sc)
        /\ ifo_dashboard(sc).zero_floors = zero_coverage_floors(sc)
    BY DEF ifo_dashboard
  <2> QED BY <1>0, <2>1, CoverageIs
<1> QED BY <1>1, <1>2, <1>3, <1>4, <1>5, <1>6 DEF AttendanceAgrees

(* The attendance reports tell one story in every state of every office, for any number
   of teachers, departments, sessions and scopes: the deans' totals and the teachers
   outside the departments make the office's, rows make totals, a card is its export,
   each dean sees the own teachers' and no others, a file has a row a teacher, HR's
   lines are the teachers' histories and count as many late and verified as the rows
   say, the list's pages are the list, and nothing shows more verified than held. *)
THEOREM AttendanceAccounted == BackSpec => []AttendanceReconciles
<1>1. BackInit => TableInv
  BY PagesSteps, TableBegins
<1>2. TableInv /\ [BackNext]_backVars => TableInv'
  BY PagesTurns, TableStep
<1>3. TableInv => AttendanceReconciles
  BY AttendanceTrue
<1> QED BY <1>1, <1>2, <1>3, PTL DEF BackSpec

-----------------------------------------------------------------------------
(***************************************************************************)
(* The board, the search and the cards.                                    *)
(***************************************************************************)
\* Of several classes one starts first.
LEMMA EarliestIs ==
  ASSUME RowsTyped, NEW S \in SUBSET Dated
  PROVE  /\ Earliest(S) # NoClass <=> S # {}
         /\ S # {} => Earliest(S) \in S /\ \A x \in S : Sched(Earliest(S)) <= Sched(x)
<1>1. CASE S = {}
  BY <1>1 DEF Earliest
<1>2. CASE S # {}
  <2> DEFINE N == {Sched(s) : s \in S}
  <2>1. N \in SUBSET Nat /\ N # {}
    BY <1>2, WhenOf
  <2>2. PICK n \in N : \A m \in N : n <= m
    <3> HIDE DEF N
    <3> QED BY <2>1, LeastNatural
  <2>3. \E s \in S : \A x \in S : Sched(s) <= Sched(x)
    BY <2>2
  <2>4. Earliest(S) = CHOOSE s \in S : \A x \in S : Sched(s) <= Sched(x)
    BY <1>2 DEF Earliest
  <2>5. Earliest(S) \in S /\ \A x \in S : Sched(Earliest(S)) <= Sched(x)
    BY <2>3, <2>4
  <2>6. Earliest(S) # NoClass
    <3>1. Earliest(S) \in RSessions
      BY <2>5 DEF RowsTyped
    <3> QED BY <3>1, BoardConstants
  <2> QED BY <1>2, <2>5, <2>6
<1> QED BY <1>1, <1>2

LEMMA MomentIs == ASSUME RowsTyped, Dated # {}, NEW now \in Moments PROVE now \in Nat
<1> DEFINE at == [s \in Dated |-> SchedTo(s)]
           ends == {at[s] : s \in Dated}
<1>1. IsFiniteSet(Dated) /\ \A s \in Dated : at[s] \in Int
  BY DatedFinite, RowOf DEF SchedTo
<1>2. ends = {SchedTo(s) : s \in Dated}
  OBVIOUS
<1> HIDE DEF at
<1>3. IsFiniteSet(ends) /\ ends \in SUBSET Int /\ ends # {}
  BY <1>1, ImageFinite
<1>4. Max(ends) \in Int
  <2> HIDE DEF ends
  <2> QED BY <1>3, FinMax
<1> QED BY <1>2, <1>4 DEF Moments

\* The class a tile is about.
LEMMA CurrentIs ==
  ASSUME RowsTyped, NEW r, NEW day, NEW now
  PROVE  LET S == {s \in today_in(r, day) : SlotCovers(s, now)}
             c == current(r, day, now)
         IN  /\ c # NoClass <=> S # {}
             /\ c # NoClass => c \in S /\ c \in Dated
<1> DEFINE S == {s \in today_in(r, day) : SlotCovers(s, now)}
<1>1. S \in SUBSET Dated
  BY DEF today_in
<1>2. current(r, day, now) = Earliest(S)
  BY DEF current
<1> HIDE DEF S
<1>3. /\ current(r, day, now) # NoClass <=> S # {}
      /\ current(r, day, now) # NoClass => current(r, day, now) \in S /\ current(r, day, now) \in Dated
  BY <1>1, <1>2, EarliestIs
<1> QED BY <1>3 DEF S

LEMMA FlagsTrue ==
  ASSUME TableInv, NEW r \in RRooms, NEW day, NEW now PROVE FlagTrue(r, day, now)
<1> SUFFICES ASSUME room_board(day, now, TRUE).tiles[r] \in {"absent", "starting"}
             PROVE  \E s \in Dated : /\ rtable[s].room = r /\ DateOf[s] = day /\ SlotCovers(s, now)
                                     /\ r \in Virtual \/ ModalityOf[s] # "online"
                                     /\ ~Held(s)
                                     /\ AsTimetabled(s) /\ now \in Ladder =>
                                          room_timetable(r)[<<weekday(day), now>>] # {}
  BY DEF FlagTrue
<1> DEFINE s == current(r, day, now)
<1>0. RowsTyped /\ SlotsTyped
  BY DEF TableInv
<1>1. room_tile(r, day, now) \in {"absent", "starting"}
  <2>1. room_board(day, now, TRUE).tiles[r] = room_tile(r, day, now)
    BY DEF room_board
  <2> QED BY <2>1
<1>2. s # NoClass /\ rtable[s].status \notin {"active", "completed"}
  <2> HIDE DEF s
  <2>1. room_tile(r, day, now) = 
          IF s = NoClass THEN IF today_in(r, day) = {} THEN "idle" ELSE "free"
          ELSE CASE rtable[s].status = "active" -> "in_session"
                 [] rtable[s].status = "absent" -> "absent"
                 [] rtable[s].status = "completed" -> "free"
                 [] OTHER -> IF now > Sched(s) + Grace THEN "absent" ELSE "starting"
    BY DEF room_tile, s
  <2>2. s # NoClass
    BY <1>1, <2>1
  <2>3. rtable[s].status # "active" 
    BY <1>1, <2>1, <2>2
  <2>4. rtable[s].status # "completed"
    <3> SUFFICES ASSUME rtable[s].status = "completed" PROVE FALSE
      OBVIOUS
    <3> QED BY <1>1, <2>1, <2>2
  <2> QED BY <2>2, <2>3, <2>4
<1>3. s \in today_in(r, day) /\ SlotCovers(s, now) /\ s \in Dated
  BY <1>0, <1>2, CurrentIs
<1> HIDE DEF s
<1>4. rtable[s].room = r /\ DateOf[s] = day /\ (r \in Virtual \/ ModalityOf[s] # "online") /\ ~Held(s)
  BY <1>2, <1>3 DEF today_in, occupies, Held
<1>5. ASSUME AsTimetabled(s), now \in Ladder PROVE room_timetable(r)[<<weekday(day), now>>] # {}
  <2> DEFINE c == ScheduleOf[s]
             cell == <<weekday(day), now>>
  <2>1. c \in RSchedules /\ DayOf[c] \in 0..6
    BY <1>0, <1>3, RowOf, ReportingConstants
  <2>2. /\ c \notin dropped /\ ModalityOf[s] = ClassModality[c] /\ DayOf[c] = weekday(day)
        /\ slot[c].room = r /\ slot[c].from = Sched(s) /\ slot[c].to = SchedTo(s)
    BY <1>4, <1>5 DEF AsTimetabled
  <2>3. c \in week_classes(r)
    BY <1>4, <2>1, <2>2 DEF week_classes, active_schedules
  <2>4. slot[c].from <= now /\ now < slot[c].to
    BY <1>3, <2>2 DEF SlotCovers
  <2>5. cell \in Weekdays \X Ladder /\ cell[1] = weekday(day) /\ cell[2] = now
    BY <1>5, <2>1, <2>2 DEF Weekdays
  <2> HIDE DEF cell, c
  <2>6. room_timetable(r)[cell] = {x \in week_classes(r) : /\ DayOf[x] = cell[1]
                                                         /\ slot[x].from <= cell[2] /\ cell[2] < slot[x].to}
    BY <2>5 DEF room_timetable
  <2>7. c \in room_timetable(r)[cell]
    BY <2>2, <2>3, <2>4, <2>5, <2>6
  <2> QED BY <2>7 DEF cell
<1> QED BY <1>3, <1>4, <1>5

\* Which classes open a card is settled one after the other.
OpenPlaces(O, q, n) ==
  /\ O \in SUBSET (1..n)
  /\ \A i \in 1..n : i \in O <=> \A j \in O : j < i => ~merged(q[j], q[i])

LEMMA OpensExists == ASSUME NEW q, NEW n \in Nat PROVE \E O : OpenPlaces(O, q, n)
<1> DEFINE Bad == {k \in Nat : ~\E O : OpenPlaces(O, q, k)}
<1> SUFFICES ASSUME Bad # {} PROVE FALSE
  OBVIOUS
<1>1. PICK k \in Bad : \A j \in Bad : k <= j
  <2>1. Bad \in SUBSET Nat
    OBVIOUS
  <2> HIDE DEF Bad
  <2> QED BY <2>1, LeastNatural
<1>2. k \in Nat /\ ~\E O : OpenPlaces(O, q, k)
  BY <1>1
<1>3. k # 0
  <2>1. OpenPlaces({}, q, 0)
    BY DEF OpenPlaces
  <2> QED BY <1>2, <2>1
<1>4. k - 1 \in Nat /\ ~(k <= k - 1)
  BY <1>2, <1>3
<1>5. PICK P : OpenPlaces(P, q, k - 1)
  BY <1>1, <1>4
<1> DEFINE O == IF \A j \in P : ~merged(q[j], q[k]) THEN P \union {k} ELSE P
<1>6. P \in SUBSET (1..(k - 1)) /\ \A i \in 1..(k - 1) : i \in P <=> \A j \in P : j < i => ~merged(q[j], q[i])
  BY <1>5 DEF OpenPlaces
<1>7. \A j \in P : j \in 1..k /\ j < k /\ j # k
  BY <1>4, <1>6
<1>8. O \in SUBSET (1..k)
  BY <1>4, <1>7
<1>9. ASSUME NEW i \in 1..k PROVE i \in O <=> \A j \in O : j < i => ~merged(q[j], q[i])
  <2>1. CASE i = k
    <3>1. i \in O <=> \A j \in P : ~merged(q[j], q[k])
      BY <1>7, <2>1
    <3>2. (\A j \in O : j < i => ~merged(q[j], q[i])) <=> \A j \in P : ~merged(q[j], q[k])
      BY <1>4, <1>7, <2>1
    <3> QED BY <3>1, <3>2
  <2>2. CASE i # k
    <3>1. i \in 1..(k - 1) /\ ~(k < i)
      BY <1>4, <2>2
    <3>2. i \in O <=> i \in P
      BY <2>2
    <3>3. (\A j \in O : j < i => ~merged(q[j], q[i])) <=> \A j \in P : j < i => ~merged(q[j], q[i])
      BY <3>1
    <3> QED BY <1>6, <3>1, <3>2, <3>3
  <2> QED BY <2>1, <2>2
<1>10. OpenPlaces(O, q, k)
  <2> HIDE DEF O
  <2> QED BY <1>8, <1>9 DEF OpenPlaces
<1> QED BY <1>2, <1>10

LEMMA OpeningIs ==
  ASSUME NEW q, NEW n \in Nat, DOMAIN q = 1..n PROVE OpenPlaces(opening(q), q, n)
<1>1. PICK O : OpenPlaces(O, q, n)
  BY OpensExists
<1>2. opening(q) = CHOOSE P \in SUBSET (1..n) :
        \A i \in 1..n : i \in P <=> \A j \in P : j < i => ~merged(q[j], q[i])
  BY DEF opening
<1>3. \E P \in SUBSET (1..n) : \A i \in 1..n : i \in P <=> \A j \in P : j < i => ~merged(q[j], q[i])
  BY <1>1 DEF OpenPlaces
<1>4. /\ opening(q) \in SUBSET (1..n)
      /\ \A i \in 1..n : i \in opening(q) <=> \A j \in opening(q) : j < i => ~merged(q[j], q[i])
  BY <1>2, <1>3, Zenon
<1> QED BY <1>4 DEF OpenPlaces

LEMMA MergedIs ==
  ASSUME NEW a, NEW x
  PROVE  /\ merged(a, x) => /\ a # x /\ Teacher(a) = Teacher(x)
                            /\ DateOf[a] = DateOf[x] /\ Sched(a) = Sched(x)
         /\ merged(a, x) <=> merged(x, a)
BY DEF merged

\* The cards of a set of classes: every class is on one, each class of a card starts
\* with the one that opens it, and a class that opens none is on an earlier one.
LEMMA GroupsAre ==
  ASSUME RowsTyped, NEW S \in SUBSET Dated
  PROVE  LET q == InOrder(S)
             cards == group_merged(S)
             n == Cardinality(S)
         IN  /\ DOMAIN cards = opening(q) /\ OpenPlaces(opening(q), q, n) /\ n \in Nat
             /\ \A i \in DOMAIN cards :
                  /\ i \in 1..n /\ cards[i].rep = q[i] /\ q[i] \in S
                  /\ cards[i].sessions = {q[i]} \union {x \in S : merged(q[i], x)}
             /\ \A x \in S : \E i \in 1..n : /\ x = q[i]
                                             /\ i \in DOMAIN cards \/ \E j \in DOMAIN cards : j < i /\ merged(q[j], x)
<1> DEFINE q == InOrder(S)
           cards == group_merged(S)
           n == Cardinality(S)
<1>1. /\ Ordered(q, S) /\ n \in Nat /\ DOMAIN q = 1..n
      /\ \A s \in S : \E i \in 1..n : q[i] = s
  BY InOrderIs
<1> HIDE DEF q, n
<1>2. OpenPlaces(opening(q), q, n)
  BY <1>1, OpeningIs
<1>3. cards = [i \in opening(q) |-> [rep |-> q[i], sessions |-> {q[i]} \union {x \in S : merged(q[i], x)}]]
  BY DEF group_merged, q
<1> HIDE DEF cards
<1>4. DOMAIN cards = opening(q) /\ opening(q) \in SUBSET (1..n)
  BY <1>2, <1>3 DEF OpenPlaces
<1>5. \A i \in 1..n : q[i] \in S
  BY <1>1 DEF Ordered, n
<1>6. \A i \in DOMAIN cards : /\ i \in 1..n /\ cards[i].rep = q[i] /\ q[i] \in S
                              /\ cards[i].sessions = {q[i]} \union {x \in S : merged(q[i], x)}
  BY <1>3, <1>4, <1>5
<1>7. ASSUME NEW x \in S
      PROVE  \E i \in 1..n : /\ x = q[i]
                             /\ i \in DOMAIN cards \/ \E j \in DOMAIN cards : j < i /\ merged(q[j], x)
  <2>1. PICK i \in 1..n : q[i] = x
    BY <1>1
  <2>2. i \in opening(q) <=> \A j \in opening(q) : j < i => ~merged(q[j], q[i])
    BY <1>2 DEF OpenPlaces
  <2> QED BY <1>4, <2>1, <2>2
<1>8. /\ DOMAIN cards = opening(q) /\ OpenPlaces(opening(q), q, n) /\ n \in Nat
      /\ \A i \in DOMAIN cards :
           /\ i \in 1..n /\ cards[i].rep = q[i] /\ q[i] \in S
           /\ cards[i].sessions = {q[i]} \union {x \in S : merged(q[i], x)}
      /\ \A x \in S : \E i \in 1..n : /\ x = q[i]
                                      /\ i \in DOMAIN cards \/ \E j \in DOMAIN cards : j < i /\ merged(q[j], x)
  BY <1>1, <1>2, <1>4, <1>6, <1>7
<1> QED BY <1>8 DEF cards, q, n

\* The teacher's classes of a day.
MineOn(f, day) == {x \in Dated : Teacher(x) = f /\ DateOf[x] = day}

LEMMA CardsAreTrue ==
  ASSUME RowsTyped, NEW S \in SUBSET Dated PROVE CardsTrue(group_merged(S), S)
<1> DEFINE q == InOrder(S)
           cards == group_merged(S)
           n == Cardinality(S)
<1>1. /\ \A i \in DOMAIN cards :
           /\ i \in 1..n /\ cards[i].rep = q[i] /\ q[i] \in S
           /\ cards[i].sessions = {q[i]} \union {x \in S : merged(q[i], x)}
      /\ \A x \in S : \E i \in 1..n : /\ x = q[i]
                                      /\ i \in DOMAIN cards \/ \E j \in DOMAIN cards : j < i /\ merged(q[j], x)
  BY GroupsAre
<1> HIDE DEF q, cards, n
<1>2. ASSUME NEW x \in S
      PROVE  \E i \in DOMAIN cards : x \in cards[i].sessions /\ (x = q[i] \/ merged(q[i], x))
  <2>1. PICK i \in 1..n : /\ x = q[i]
                          /\ i \in DOMAIN cards \/ \E j \in DOMAIN cards : j < i /\ merged(q[j], x)
    BY <1>1
  <2>2. CASE i \in DOMAIN cards
    BY <1>1, <2>1, <2>2
  <2>3. CASE \E j \in DOMAIN cards : j < i /\ merged(q[j], x)
    BY <1>1, <2>3
  <2> QED BY <2>1, <2>2, <2>3
<1>3. S = UNION {cards[i].sessions : i \in DOMAIN cards}
  <2>1. \A i \in DOMAIN cards : cards[i].sessions \in SUBSET S
    BY <1>1
  <2>2. \A x \in S : \E i \in DOMAIN cards : x \in cards[i].sessions
    BY <1>2
  <2> QED BY <2>1, <2>2
\* A class that opens no card and shares none with y is spoken for by another.
<1>4. ASSUME NEW x \in S, NEW y \in S, merged(x, y)
      PROVE  \/ \E i \in DOMAIN cards : {x, y} \subseteq cards[i].sessions
             \/ Spoken(x, y, S)
  <2>1. PICK i \in DOMAIN cards : x \in cards[i].sessions /\ (x = q[i] \/ merged(q[i], x))
    BY <1>2
  <2>2. cards[i].sessions = {q[i]} \union {z \in S : merged(q[i], z)} /\ q[i] \in S
    BY <1>1
  <2>3. CASE y \in cards[i].sessions
    BY <2>1, <2>3
  <2>4. CASE y \notin cards[i].sessions
    <3>1. q[i] # y /\ ~merged(q[i], y)
      BY <2>2, <2>4
    <3>2. q[i] # x /\ merged(q[i], x)
      BY <1>4, <2>1, <3>1
    <3>3. q[i] \in S \ {x, y}
      BY <2>2, <3>1, <3>2
    <3> QED BY <3>1, <3>2, <3>3 DEF Spoken
  <2> QED BY <2>3, <2>4
<1>5. ASSUME NEW x \in S, NEW y \in S, merged(x, y)
      PROVE  \/ \E i \in DOMAIN cards : {x, y} \subseteq cards[i].sessions
             \/ Spoken(x, y, S) /\ Spoken(y, x, S)
  <2>1. merged(y, x)
    BY <1>5, MergedIs
  <2>2. {x, y} = {y, x}
    OBVIOUS
  <2> QED BY <1>4, <1>5, <2>1, <2>2
<1>6. CardsTrue(cards, S)
  BY <1>3, <1>5 DEF CardsTrue
<1> QED BY <1>6 DEF cards

\* Where the search sends a guard.
LEMMA FoundIs ==
  ASSUME RowsTyped, NEW f, NEW day, NEW now
  PROVE  LET found == locate(f, day, now)
             s == found.current
             active == {x \in MineOn(f, day) : rtable[x].status = "active"}
         IN  /\ s # NoClass <=> active # {}
             /\ s # NoClass => /\ s \in active /\ s \in Dated /\ \A x \in active : Sched(s) <= Sched(x)
                               /\ found.online <=> ModalityOf[s] = "online"
             /\ found.online => s # NoClass
<1> DEFINE active == {x \in MineOn(f, day) : rtable[x].status = "active"}
           s == locate(f, day, now).current
<1>1. active \in SUBSET Dated
  BY DEF MineOn
<1>2. s = Earliest(active) /\ locate(f, day, now).online = (s # NoClass /\ ModalityOf[s] = "online")
  BY DEF locate, MineOn
<1>3. /\ Earliest(active) # NoClass <=> active # {}
      /\ active # {} => Earliest(active) \in active /\ \A x \in active : Sched(Earliest(active)) <= Sched(x)
  <2> HIDE DEF active
  <2> QED BY <1>1, EarliestIs
<1>4. locate(f, day, now).online <=> s # NoClass /\ ModalityOf[s] = "online"
  BY <1>2
<1> HIDE DEF s, active
<1>5. /\ s # NoClass <=> active # {}
      /\ s # NoClass => /\ s \in active /\ s \in Dated /\ \A x \in active : Sched(s) <= Sched(x)
                        /\ locate(f, day, now).online <=> ModalityOf[s] = "online"
      /\ locate(f, day, now).online => s # NoClass
  BY <1>1, <1>2, <1>3, <1>4
<1> QED BY <1>5 DEF s, active

\* The least of a set of places.
LEMMA FirstPlace ==
  ASSUME NEW P \in SUBSET Nat, P # {} PROVE Min(P) \in P /\ \A i \in P : Min(P) <= i
<1>1. \E m \in P : \A i \in P : m <= i
  BY LeastNatural
<1>2. Min(P) = CHOOSE m \in P : \A i \in P : m <= i
  BY DEF Min
<1> QED BY <1>1, <1>2

\* The teacher's home shows what the search finds.
LEMMA HomeIs ==
  ASSUME RowsTyped, NEW f, NEW day, NEW now
  PROVE  HomeTrue(home(f, day, now), locate(f, day, now).current, day)
<1> DEFINE S == MineOn(f, day)
           q == InOrder(S)
           cards == group_merged(S)
           n == Cardinality(S)
           s == locate(f, day, now).current
           live == {i \in DOMAIN cards : \E x \in cards[i].sessions : rtable[x].status = "active"}
           page == home(f, day, now)
<1>0. S \in SUBSET Dated
  BY DEF MineOn
<1>1. faculty_cards(f, day).today = cards
  <2>1. {x \in {y \in Dated : Teacher(y) = f} : DateOf[x] = day} = S
    BY DEF MineOn
  <2> QED BY <2>1 DEF faculty_cards
<1>2. page.live = (live # {}) /\ (live # {} => page.hero = cards[Min(live)].rep)
  BY <1>1 DEF home, First
<1>3. /\ \A i \in DOMAIN cards :
           /\ i \in 1..n /\ cards[i].rep = q[i] /\ q[i] \in S
           /\ cards[i].sessions = {q[i]} \union {x \in S : merged(q[i], x)}
      /\ n \in Nat
  <2> HIDE DEF S
  <2> QED BY <1>0, GroupsAre
<1>4. Ordered(q, S)
  <2> HIDE DEF S
  <2> QED BY <1>0, InOrderIs
<1>5. S = UNION {cards[i].sessions : i \in DOMAIN cards}
  <2> HIDE DEF S
  <2>1. CardsTrue(cards, S)
    BY <1>0, CardsAreTrue
  <2> HIDE DEF cards
  <2> QED BY <2>1 DEF CardsTrue
<1>6. /\ s # NoClass <=> {x \in S : rtable[x].status = "active"} # {}
      /\ s # NoClass => /\ s \in {x \in S : rtable[x].status = "active"}
                        /\ \A x \in {z \in S : rtable[z].status = "active"} : Sched(s) <= Sched(x)
  BY FoundIs
<1>7. \A x \in S : DateOf[x] = day /\ Sched(x) \in Nat
  BY WhenOf DEF MineOn
<1> HIDE DEF S, q, cards, n, s, page
<1>8. live # {} <=> s # NoClass
  BY <1>5, <1>6
<1>9. ASSUME live # {} PROVE Sched(page.hero) = Sched(s) /\ DateOf[page.hero] = day
  <2> DEFINE m == Min(live)
  <2>1. live \in SUBSET Nat
    BY <1>3
  <2>2. m \in live /\ \A i \in live : m <= i
    <3> HIDE DEF live
    <3> QED BY <1>9, <2>1, FirstPlace
  <2>3. page.hero = q[m] /\ q[m] \in S /\ m \in DOMAIN cards /\ m \in 1..n
    BY <1>2, <1>3, <1>9, <2>2
  <2> HIDE DEF m
  <2>4. PICK x \in cards[m].sessions : rtable[x].status = "active"
    BY <2>2
  <2>5. x \in S /\ Sched(x) = Sched(q[m])
    BY <1>3, <2>3, MergedIs
  <2>6. s \in S /\ rtable[s].status = "active" /\ Sched(s) <= Sched(x)
    BY <1>6, <1>8, <1>9, <2>4, <2>5
  <2>7. PICK j \in DOMAIN cards : s \in cards[j].sessions
    BY <1>5, <2>6
  <2>8. j \in live /\ Sched(s) = Sched(q[j]) /\ q[j] \in S /\ j \in 1..n
    BY <1>3, <2>6, <2>7, MergedIs
  <2>9. m <= j
    BY <2>2, <2>8
  <2>10. Sched(q[m]) <= Sched(q[j])
    <3>1. Sched(q[m]) \in Nat /\ DateOf[q[m]] = DateOf[q[j]]
      BY <1>7, <2>3, <2>8
    <3>2. CASE m = j
      BY <3>1, <3>2
    <3>3. CASE m # j
      <4>1. m < j
        BY <1>3, <2>3, <2>8, <2>9, <3>3
      <4>2. EarlierOrTied(q[m], q[j])
        BY <1>4, <2>3, <2>8, <4>1 DEF Ordered, n
      <4>3. DateOf[q[m]] \in Nat
        BY <1>0, <2>3, WhenOf
      <4> QED BY <3>1, <4>2, <4>3 DEF EarlierOrTied
    <3> QED BY <3>2, <3>3
  <2>11. Sched(s) \in Nat /\ Sched(q[m]) \in Nat
    BY <1>7, <2>3, <2>6
  <2>12. Sched(q[m]) = Sched(s)
    BY <2>5, <2>6, <2>8, <2>10, <2>11
  <2> QED BY <1>7, <2>3, <2>12
<1>10. HomeTrue(page, s, day)
  <2> HIDE DEF live
  <2> QED BY <1>2, <1>8, <1>9 DEF HomeTrue
<1> QED BY <1>10 DEF page, s

\* The page of online classes.
LEMMA OnlineIs ==
  ASSUME RowsTyped, NEW f, NEW day, NEW now \in Nat
  PROVE  OnlineTrue(online_rows(f, day, now), locate(f, day, now), now)
<1> DEFINE rows == online_rows(f, day, now)
           found == locate(f, day, now)
           D == {x \in Dated : Teacher(x) = f /\ DateOf[x] = day /\ is_effective_online(x)}
<1>1. DOMAIN rows = D /\ \A x \in D : rows[x] = online_row(x, now)
  BY DEF online_rows
<1>2. \A x : /\ online_row(x, now).state = online_state(x, now)
             /\ online_row(x, now).can_start = (online_state(x, now) \in STARTABLE_STATES)
  BY DEF online_row
<1>3. ASSUME found.online PROVE rows[found.current].state = "active"
  <2> DEFINE s == found.current
  <2>1. s # NoClass /\ s \in MineOn(f, day) /\ rtable[s].status = "active" /\ ModalityOf[s] = "online"
    BY <1>3, FoundIs
  <2>2. s \in D
    BY <2>1 DEF MineOn, is_effective_online
  <2>3. online_state(s, now) = "active"
    BY <2>1 DEF online_state
  <2> HIDE DEF s, rows, D
  <2> QED BY <1>1, <1>2, <2>2, <2>3 DEF s
<1>4. ASSUME NEW x \in D, rtable[x].status # "cancelled"
      PROVE  rows[x].can_start <=> online_start_takes(x, now)
  <2>1. rows[x].can_start <=> online_state(x, now) \in STARTABLE_STATES
    BY <1>1, <1>2
  <2>2. x \in Dated /\ is_effective_online(x)
    OBVIOUS
  <2>3. rtable[x].status \in {"scheduled", "active", "completed", "absent"}
    BY <1>4, <2>2, RowOf DEF Statuses
  <2>4. Sched(x) \in Nat /\ Grace \in Nat
    BY <2>2, WhenOf, BoardConstants
  <2>5. CASE rtable[x].status = "scheduled"
    <3>1. online_state(x, now) = IF now > Sched(x) + Grace THEN "past-grace"
                                 ELSE IF now < Sched(x) THEN "upcoming" ELSE "startable"
      BY <2>5 DEF online_state
    <3>2. online_state(x, now) \in STARTABLE_STATES <=> ~(now > Sched(x) + Grace)
      BY <3>1 DEF STARTABLE_STATES
    <3>3. ~(now > Sched(x) + Grace) <=> now <= Sched(x) + Grace
      BY <2>4
    <3> HIDE DEF rows, D
    <3> QED BY <2>1, <2>2, <2>5, <3>2, <3>3 DEF online_start_takes
  <2>6. CASE rtable[x].status # "scheduled"
    <3>1. online_state(x, now) = rtable[x].status
      BY <2>3, <2>6 DEF online_state
    <3>2. online_state(x, now) \notin STARTABLE_STATES
      BY <2>3, <3>1 DEF STARTABLE_STATES
    <3> HIDE DEF rows, D
    <3> QED BY <2>1, <2>6, <3>2 DEF online_start_takes
  <2> QED BY <2>5, <2>6
<1> HIDE DEF rows, found, D
<1>5. OnlineTrue(rows, found, now)
  BY <1>1, <1>3, <1>4 DEF OnlineTrue
<1> QED BY <1>5 DEF rows, found

\* A guard sent to a class finds it.
LEMMA GuardFinds ==
  ASSUME RowsTyped, NEW f, NEW day, NEW now PROVE FoundThere(locate(f, day, now), day, now)
<1> DEFINE found == locate(f, day, now)
           s == found.current
           r == rtable[s].room
           floor == <<Building[r], FloorNo[r]>>
           shown == guard_room_detail({floor}, r, day, now)
           alone == ~found.online /\ SlotCovers(s, now) /\ (\A x \in today_in(r, day) \ {s} : ~SlotCovers(x, now))
<1>1. ASSUME s # NoClass
      PROVE  s \in monitor_rows({floor}, day) /\ (alone => shown.tile = "in_session" /\ s \in shown.today)
  <2>1. /\ s \in MineOn(f, day) /\ rtable[s].status = "active" /\ s \in Dated
        /\ found.online <=> ModalityOf[s] = "online"
    BY <1>1, FoundIs
  <2>2. DateOf[s] = day
    BY <2>1 DEF MineOn
  <2> HIDE DEF s
  <2>3. s \in monitor_rows({floor}, day)
    BY <2>1, <2>2 DEF monitor_rows
  <2>4. shown.tile = room_tile(r, day, now) /\ shown.today = today_in(r, day)
    BY DEF guard_room_detail
  <2>5. ASSUME alone PROVE room_tile(r, day, now) = "in_session" /\ s \in today_in(r, day)
    <3>1. s \in today_in(r, day) /\ SlotCovers(s, now)
      BY <2>1, <2>2, <2>5 DEF today_in, occupies
    <3>2. {x \in today_in(r, day) : SlotCovers(x, now)} = {s}
      BY <2>5, <3>1
    <3>3. current(r, day, now) = s
      <4>1. {x \in today_in(r, day) : SlotCovers(x, now)} # {}
        BY <3>2
      <4>2. current(r, day, now) \in {x \in today_in(r, day) : SlotCovers(x, now)}
        BY <4>1, CurrentIs
      <4> QED BY <3>2, <4>2
    <3>4. room_tile(r, day, now) = "in_session"
      BY <1>1, <2>1, <3>3 DEF room_tile
    <3> QED BY <3>1, <3>4
  <2> HIDE DEF shown, alone, r
  <2> QED BY <2>3, <2>4, <2>5
<1> HIDE DEF found
<1>2. FoundThere(found, day, now)
  BY <1>1 DEF FoundThere
<1> QED BY <1>2 DEF found

LEMMA BoardIs == TableInv => BoardTrue
<1> SUFFICES ASSUME TableInv, NEW day \in Dates, NEW now \in Moments
             PROVE  /\ \A r \in RRooms : FlagTrue(r, day, now)
                    /\ \A f \in DOMAIN DeptOf :
                         LET found == locate(f, day, now)
                         IN  /\ HomeTrue(home(f, day, now), found.current, day)
                             /\ CardsTrue(faculty_cards(f, day).today, {x \in Dated : Teacher(x) = f /\ DateOf[x] = day})
                             /\ OnlineTrue(online_rows(f, day, now), found, now)
                             /\ FoundThere(found, day, now)
  BY DEF BoardTrue
<1>0. RowsTyped /\ now \in Nat
  <2>1. RowsTyped /\ Dated # {}
    BY DEF TableInv, Dates
  <2> QED BY <2>1, MomentIs
<1>1. \A r \in RRooms : FlagTrue(r, day, now)
  BY FlagsTrue
<1>2. ASSUME NEW f \in DOMAIN DeptOf
      PROVE  CardsTrue(faculty_cards(f, day).today, {x \in Dated : Teacher(x) = f /\ DateOf[x] = day})
  <2> DEFINE S == {x \in Dated : Teacher(x) = f /\ DateOf[x] = day}
  <2>1. {x \in {y \in Dated : Teacher(y) = f} : DateOf[x] = day} = S /\ S \in SUBSET Dated
    OBVIOUS
  <2>2. faculty_cards(f, day).today = group_merged(S)
    BY <2>1 DEF faculty_cards
  <2> HIDE DEF S
  <2>3. CardsTrue(group_merged(S), S)
    BY <1>0, <2>1, CardsAreTrue
  <2> QED BY <2>2, <2>3 DEF S
<1>3. \A f \in DOMAIN DeptOf : /\ HomeTrue(home(f, day, now), locate(f, day, now).current, day)
                               /\ OnlineTrue(online_rows(f, day, now), locate(f, day, now), now)
                               /\ FoundThere(locate(f, day, now), day, now)
  BY <1>0, HomeIs, OnlineIs, GuardFinds
<1> QED BY <1>1, <1>2, <1>3

(* The live surfaces tell the truth in every state of every office, at every moment of
   the day, for any number of rooms, teachers and classes: no room is flagged for a class
   that is running, finished or elsewhere, the search, the guard's pages and the teacher's
   home agree on the class in progress, every class is on a card, and a Start is offered
   exactly where it would be taken. *)
THEOREM BoardTells == BackSpec => []BoardTrue
<1>1. BackInit => TableInv
  BY PagesSteps, TableBegins
<1>2. TableInv /\ [BackNext]_backVars => TableInv'
  BY PagesTurns, TableStep
<1>3. TableInv => BoardTrue
  BY BoardIs
<1> QED BY <1>1, <1>2, <1>3, PTL DEF BackSpec
=============================================================================

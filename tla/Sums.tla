------------------------------- MODULE Sums -------------------------------
(***************************************************************************)
(* Facts about the sums over finite sets that the books of the exchange    *)
(* are stated with.  SumFunctionOnSet(f, S) adds f[x] for x \in S one      *)
(* chosen element after another; none of the facts depends on the choice.  *)
(* Induction is done by hand, on a smallest set that would be wrong.       *)
(***************************************************************************)
EXTENDS Integers, FiniteSets, Functions, FiniteSetTheorems,
        WellFoundedInduction, TLAPS

\* Every non-empty set of naturals has a least element.
LEMMA LeastNatural ==
    ASSUME NEW S, S \subseteq Nat, S # {}
    PROVE  \E m \in S : \A x \in S : m <= x
<1> DEFINE R == OpToRel(<, Nat)
<1>1. \A x, m \in Nat : x < m => <<x, m>> \in R
  BY DEF OpToRel
<1>2. IsWellFoundedOn(R, Nat)
  BY NatLessThanWellFounded
<1> HIDE DEF R
<1>3. PICK m \in S : \A x \in S : ~ (<<x, m>> \in R)
  BY <1>2, WFMin
<1>4. ASSUME NEW x \in S PROVE m <= x
  <2>1. x \in Nat /\ m \in Nat
    OBVIOUS
  <2>2. ~ (x < m)
    BY <1>1, <1>3, <2>1
  <2> QED BY <2>1, <2>2
<1> QED BY <1>4

\* Of some subsets of a finite set, one has the fewest elements.
LEMMA SmallestSubset ==
    ASSUME NEW S, IsFiniteSet(S), NEW Bad, Bad \subseteq SUBSET S, Bad # {}
    PROVE  \E T \in Bad : /\ IsFiniteSet(T)
                          /\ \A U \in Bad : Cardinality(T) <= Cardinality(U)
<1>1. \A T \in Bad : IsFiniteSet(T) /\ Cardinality(T) \in Nat
  BY FS_Subset, FS_CardinalityType
<1> DEFINE sizes == {Cardinality(T) : T \in Bad}
<1>2. sizes \subseteq Nat /\ sizes # {}
  BY <1>1
<1> HIDE DEF sizes
<1>3. PICK m \in sizes : \A x \in sizes : m <= x
  BY <1>2, LeastNatural
<1> QED BY <1>1, <1>3 DEF sizes

\* A smallest set that is wrong is not empty, and without one of its elements it is right.
LEMMA Smaller ==
    ASSUME NEW T, IsFiniteSet(T), NEW x \in T
    PROVE  /\ IsFiniteSet(T \ {x})
           /\ Cardinality(T \ {x}) = Cardinality(T) - 1
           /\ Cardinality(T \ {x}) < Cardinality(T)
<1>1. /\ IsFiniteSet(T \ {x})
      /\ Cardinality(T \ {x}) = Cardinality(T) - 1
  BY FS_RemoveElement
<1>2. Cardinality(T) \in Nat
  BY FS_CardinalityType
<1> QED BY <1>1, <1>2

-----------------------------------------------------------------------------
(* The function the sum is defined with. *)

Pick(T) == CHOOSE x \in T : TRUE

\* One more element of T, on top of the totals in g.
OneMore(f, g, T) == IF T = {} THEN 0 ELSE f[Pick(T)] + g[T \ {Pick(T)}]

\* g holds the total of every subset of S.
Totals(f, S, g) == g = [T \in SUBSET S |-> OneMore(f, g, T)]

\* The sum of a fold is the total of such a function.
LEMMA SumIsTotal ==
    ASSUME NEW f, NEW S
    PROVE  SumFunctionOnSet(f, S) = (CHOOSE g : Totals(f, S, g))[S]
BY Zenon DEF SumFunctionOnSet, FoldFunctionOnSet, MapThenFoldSet, Totals, OneMore, Pick

\* What is picked is an element.
LEMMA PickType ==
    ASSUME NEW T, T # {}
    PROVE  Pick(T) \in T
BY DEF Pick

\* The totals of all subsets of a finite set exist: they do for those of k elements.
LEMMA TotalsExist ==
    ASSUME NEW f, NEW S, IsFiniteSet(S)
    PROVE  \E g : Totals(f, S, g)
<1> DEFINE right(g, k) == \A T \in SUBSET S : Cardinality(T) <= k => g[T] = OneMore(f, g, T)
           wrong == {k \in Nat : ~ \E g : right(g, k)}
           next(g) == [T \in SUBSET S |-> OneMore(f, g, T)]
<1>0. \A T \in SUBSET S : IsFiniteSet(T) /\ Cardinality(T) \in Nat
  BY FS_Subset, FS_CardinalityType
<1>1. ASSUME NEW g, NEW k \in Nat, right(g, k) 
      PROVE  right(next(g), k + 1)
  <2> SUFFICES ASSUME NEW T \in SUBSET S, Cardinality(T) <= k + 1
               PROVE  next(g)[T] = OneMore(f, next(g), T)
    OBVIOUS
  <2>1. CASE T = {}
    BY <2>1 DEF OneMore
  <2>2. CASE T # {}
    <3> DEFINE U == T \ {Pick(T)}
    <3>1. Pick(T) \in T /\ U \in SUBSET S
      BY <2>2, PickType
    <3>2. Cardinality(U) <= k
      BY <3>1, <1>0, Smaller
    <3>3. g[U] = next(g)[U]
      BY <1>1, <3>1, <3>2
    <3> QED BY <2>2, <3>3 DEF OneMore
  <2> QED BY <2>1, <2>2
<1>2. wrong = {}
  <2> SUFFICES ASSUME wrong # {} PROVE FALSE
    OBVIOUS
  <2>1. PICK k \in wrong : \A n \in wrong : k <= n
    <3>1. wrong \subseteq Nat
      OBVIOUS
    <3> HIDE DEF wrong
    <3> QED BY <3>1, LeastNatural
  <2>2. k # 0
    <3>1. right([T \in SUBSET S |-> 0], 0)
      BY <1>0, FS_EmptySet DEF OneMore
    <3> QED BY <3>1
  <2>3. k - 1 \in Nat /\ k - 1 \notin wrong
    BY <2>1, <2>2
  <2>4. PICK g : right(g, k - 1)
    BY <2>3
  <2>5. right(next(g), (k - 1) + 1)
    BY <1>1, <2>3, <2>4
  <2>6. right(next(g), k)
    <3>1. (k - 1) + 1 = k
      BY <2>1
    <3> HIDE DEF right, next
    <3> QED BY <2>5, <3>1
  <2>7. k \in Nat /\ ~ \E gg : right(gg, k)
    BY <2>1
  <2> HIDE DEF right, next
  <2> QED BY <2>6, <2>7
<1>3. PICK g : right(g, Cardinality(S))
  BY <1>0, <1>2
<1>4. \A T \in SUBSET S : g[T] = OneMore(f, g, T)
  BY <1>0, <1>3, FS_Subset
<1>5. Totals(f, S, next(g))
  <2> SUFFICES ASSUME NEW T \in SUBSET S
               PROVE  OneMore(f, g, T) = OneMore(f, next(g), T)
    BY DEF Totals
  <2>1. CASE T = {}
    BY <2>1 DEF OneMore
  <2>2. CASE T # {}
    <3>1. T \ {Pick(T)} \in SUBSET S
      OBVIOUS
    <3> QED BY <2>2, <3>1, <1>4 DEF OneMore
  <2> QED BY <2>1, <2>2
<1> QED BY <1>5

\* They do not depend on the set whose subsets they are the totals of.
LEMMA TotalsUnique ==
    ASSUME NEW f, NEW S, IsFiniteSet(S), NEW R \in SUBSET S,
           NEW g, Totals(f, S, g), NEW h, Totals(f, R, h)
    PROVE  g[R] = h[R]
<1> DEFINE Bad == {T \in SUBSET R : g[T] # h[T]}
<1> SUFFICES ASSUME Bad # {} PROVE FALSE
  OBVIOUS
<1>0. IsFiniteSet(R)
  BY FS_Subset
<1>1. PICK T \in Bad : IsFiniteSet(T) /\ \A U \in Bad : Cardinality(T) <= Cardinality(U)
  <2>1. Bad \subseteq SUBSET R
    OBVIOUS
  <2> HIDE DEF Bad
  <2> QED BY <1>0, <2>1, SmallestSubset
<1>2. g[T] = OneMore(f, g, T) /\ h[T] = OneMore(f, h, T)
  BY DEF Totals
<1>3. T # {}
  BY <1>2 DEF OneMore
<1> DEFINE U == T \ {Pick(T)}
<1>4. U \in SUBSET R /\ Cardinality(U) < Cardinality(T) /\ Cardinality(T) \in Nat /\ Cardinality(U) \in Nat
  BY <1>1, <1>3, PickType, Smaller, FS_CardinalityType
<1>5. g[U] = h[U]
  BY <1>1, <1>4
<1> QED BY <1>2, <1>3, <1>5 DEF OneMore

-----------------------------------------------------------------------------
(* Sums. *)

\* Nothing adds up to zero.
LEMMA SumEmpty ==
    ASSUME NEW f
    PROVE  SumFunctionOnSet(f, {}) = 0
<1>1. \E g : Totals(f, {}, g)
  BY TotalsExist, FS_EmptySet
<1> QED BY <1>1, SumIsTotal DEF Totals, OneMore

\* The sum takes some element first.
LEMMA SumPick ==
    ASSUME NEW f, NEW S, IsFiniteSet(S), S # {}
    PROVE  SumFunctionOnSet(f, S) = f[Pick(S)] + SumFunctionOnSet(f, S \ {Pick(S)})
<1> DEFINE R == S \ {Pick(S)}
           g == CHOOSE g : Totals(f, S, g)
           h == CHOOSE h : Totals(f, R, h)
<1>1. Totals(f, S, g)
  BY TotalsExist
<1>2. IsFiniteSet(R)
  BY FS_Subset
<1>3. Totals(f, R, h)
  BY <1>2, TotalsExist
<1>4. SumFunctionOnSet(f, S) = g[S] /\ SumFunctionOnSet(f, R) = h[R]
  BY SumIsTotal
<1> HIDE DEF g, h
<1>5. g[S] = f[Pick(S)] + g[R]
  BY <1>1 DEF Totals, OneMore
<1>6. g[R] = h[R]
  BY <1>1, <1>3, TotalsUnique
<1> QED BY <1>4, <1>5, <1>6

\* Over integers the sum is one.
LEMMA SumInt ==
    ASSUME NEW f, NEW S, IsFiniteSet(S), \A x \in S : f[x] \in Int
    PROVE  SumFunctionOnSet(f, S) \in Int
<1> DEFINE Bad == {T \in SUBSET S : SumFunctionOnSet(f, T) \notin Int}
<1> SUFFICES ASSUME Bad # {} PROVE FALSE
  OBVIOUS
<1>1. PICK T \in Bad : IsFiniteSet(T) /\ \A U \in Bad : Cardinality(T) <= Cardinality(U)
  <2>1. Bad \subseteq SUBSET S
    OBVIOUS
  <2> HIDE DEF Bad
  <2> QED BY <2>1, SmallestSubset
<1>2. T # {}
  BY SumEmpty
<1> DEFINE c == Pick(T)
           U == T \ {c}
<1>3. c \in T
  BY <1>2, PickType
<1> HIDE DEF c
<1>4. U \in SUBSET S /\ IsFiniteSet(U) /\ Cardinality(U) < Cardinality(T)
  BY <1>1, <1>3, Smaller
<1>5. Cardinality(T) \in Nat /\ Cardinality(U) \in Nat
  BY <1>1, <1>4, FS_CardinalityType
<1>6. U \notin Bad
  BY <1>1, <1>4, <1>5
<1>7. SumFunctionOnSet(f, T) = f[c] + SumFunctionOnSet(f, U)
  BY <1>1, <1>2, SumPick DEF c
<1> QED BY <1>3, <1>4, <1>6, <1>7

\* Any element of the set can be taken out of its sum first.
LEMMA SumTakeOut ==
    ASSUME NEW f, NEW S, IsFiniteSet(S), \A x \in S : f[x] \in Int, NEW a \in S
    PROVE  SumFunctionOnSet(f, S) = f[a] + SumFunctionOnSet(f, S \ {a})
<1> DEFINE right(T, x) ==
               SumFunctionOnSet(f, T) = f[x] + SumFunctionOnSet(f, T \ {x})
           Bad == {T \in SUBSET S : \E x \in T : ~ right(T, x)}
<1> SUFFICES ASSUME Bad # {} PROVE FALSE
  OBVIOUS
<1>1. PICK T \in Bad : IsFiniteSet(T) /\ \A U \in Bad : Cardinality(T) <= Cardinality(U)
  <2>1. Bad \subseteq SUBSET S
    OBVIOUS
  <2> HIDE DEF Bad
  <2> QED BY <2>1, SmallestSubset
<1>2. PICK b \in T : ~ right(T, b)
  OBVIOUS
<1> DEFINE c == Pick(T)
<1>3. c \in T /\ right(T, c)
  BY <1>1, <1>2, PickType, SumPick
<1> HIDE DEF c
<1>4. c # b
  BY <1>2, <1>3
<1> DEFINE U == T \ {c}
           V == T \ {b}
<1>5. /\ U \in SUBSET S /\ IsFiniteSet(U) /\ Cardinality(U) < Cardinality(T)
      /\ V \in SUBSET S /\ IsFiniteSet(V) /\ Cardinality(V) < Cardinality(T)
      /\ Cardinality(U) \in Nat /\ Cardinality(T) \in Nat /\ Cardinality(V) \in Nat
  BY <1>1, <1>2, <1>3, Smaller, FS_CardinalityType
<1>6. right(U, b) /\ right(V, c)
  <2>1. U \notin Bad /\ V \notin Bad
    <3> DEFINE n(W) == Cardinality(W)
    <3>1. /\ \A W \in Bad : n(T) <= n(W)
          /\ n(T) \in Nat /\ n(U) \in Nat /\ n(V) \in Nat /\ n(U) < n(T) /\ n(V) < n(T)
      BY <1>1, <1>5
    <3> HIDE DEF n, Bad, U, V
    <3> QED BY <3>1
  <2> QED BY <2>1, <1>2, <1>3, <1>4, <1>5
<1>7. U \ {b} = V \ {c}
  OBVIOUS
<1>8. SumFunctionOnSet(f, U \ {b}) \in Int
  BY <1>5, FS_Subset, SumInt
<1>9. f[b] \in Int /\ f[c] \in Int
  BY <1>2, <1>3
<1>10. SumFunctionOnSet(f, T) = f[b] + SumFunctionOnSet(f, V)
  <2> DEFINE w == SumFunctionOnSet(f, U \ {b})
             u == SumFunctionOnSet(f, U)
             v == SumFunctionOnSet(f, V)
  <2>1. /\ SumFunctionOnSet(f, T) = f[c] + u
        /\ u = f[b] + w
        /\ v = f[c] + w
    BY <1>3, <1>6, <1>7
  <2> HIDE DEF u, v, w
  <2>2. w \in Int
    BY <1>8 DEF w
  <2>3. f[c] + (f[b] + w) = f[b] + (f[c] + w)
    BY <1>9, <2>2
  <2>4. SumFunctionOnSet(f, T) = f[b] + v
    BY <2>1, <2>3
  <2> QED BY <2>4 DEF v
<1> QED BY <1>2, <1>10

\* Functions that agree on the set have the same sum.
LEMMA SumSame ==
    ASSUME NEW f, NEW g, NEW S, IsFiniteSet(S), \A x \in S : f[x] = g[x]
    PROVE  SumFunctionOnSet(f, S) = SumFunctionOnSet(g, S)
<1> DEFINE Bad == {T \in SUBSET S : SumFunctionOnSet(f, T) # SumFunctionOnSet(g, T)}
<1> SUFFICES ASSUME Bad # {} PROVE FALSE
  OBVIOUS
<1>1. PICK T \in Bad : IsFiniteSet(T) /\ \A U \in Bad : Cardinality(T) <= Cardinality(U)
  <2>1. Bad \subseteq SUBSET S
    OBVIOUS
  <2> HIDE DEF Bad
  <2> QED BY <2>1, SmallestSubset
<1>2. T # {}
  BY SumEmpty
<1> DEFINE c == Pick(T)
           U == T \ {c}
<1>3. c \in T
  BY <1>2, PickType
<1>4. /\ SumFunctionOnSet(f, T) = f[c] + SumFunctionOnSet(f, U)
      /\ SumFunctionOnSet(g, T) = g[c] + SumFunctionOnSet(g, U)
  BY <1>1, <1>2, SumPick
<1> HIDE DEF c
<1>5. U \in SUBSET S /\ IsFiniteSet(U) /\ Cardinality(U) < Cardinality(T)
  BY <1>1, <1>3, Smaller
<1>6. Cardinality(T) \in Nat /\ Cardinality(U) \in Nat
  BY <1>1, <1>5, FS_CardinalityType
<1>7. U \notin Bad
  BY <1>1, <1>5, <1>6
<1> QED BY <1>3, <1>4, <1>5, <1>7

\* Zeros add up to zero.
LEMMA SumZeros ==
    ASSUME NEW f, NEW S, IsFiniteSet(S), \A x \in S : f[x] = 0
    PROVE  SumFunctionOnSet(f, S) = 0
<1> DEFINE Bad == {T \in SUBSET S : SumFunctionOnSet(f, T) # 0}
<1> SUFFICES ASSUME Bad # {} PROVE FALSE
  OBVIOUS
<1>1. PICK T \in Bad : IsFiniteSet(T) /\ \A U \in Bad : Cardinality(T) <= Cardinality(U)
  <2>1. Bad \subseteq SUBSET S
    OBVIOUS
  <2> HIDE DEF Bad
  <2> QED BY <2>1, SmallestSubset
<1>2. T # {}
  BY SumEmpty
<1> DEFINE c == Pick(T)
           U == T \ {c}
<1>3. c \in T
  BY <1>2, PickType
<1>4. SumFunctionOnSet(f, T) = f[c] + SumFunctionOnSet(f, U)
  BY <1>1, <1>2, SumPick
<1> HIDE DEF c
<1>5. U \in SUBSET S /\ IsFiniteSet(U) /\ Cardinality(U) < Cardinality(T)
  BY <1>1, <1>3, Smaller
<1>6. Cardinality(T) \in Nat /\ Cardinality(U) \in Nat
  BY <1>1, <1>5, FS_CardinalityType
<1>7. U \notin Bad
  BY <1>1, <1>5, <1>6
<1> QED BY <1>3, <1>4, <1>5, <1>7

\* The sum of naturals is one, and no smaller than any of them.
LEMMA SumNat ==
    ASSUME NEW f, NEW S, IsFiniteSet(S), \A x \in S : f[x] \in Nat
    PROVE  /\ SumFunctionOnSet(f, S) \in Nat
           /\ \A x \in S : f[x] <= SumFunctionOnSet(f, S)
<1> DEFINE Bad == {T \in SUBSET S : SumFunctionOnSet(f, T) \notin Nat}
<1>0. Bad = {}
  <2> SUFFICES ASSUME Bad # {} PROVE FALSE
    OBVIOUS
  <2>1. PICK T \in Bad : IsFiniteSet(T) /\ \A U \in Bad : Cardinality(T) <= Cardinality(U)
    <3>1. Bad \subseteq SUBSET S
      OBVIOUS
    <3> HIDE DEF Bad
    <3> QED BY <3>1, SmallestSubset
  <2>2. T # {}
    BY SumEmpty
  <2> DEFINE c == Pick(T)
             U == T \ {c}
  <2>3. c \in T
    BY <2>2, PickType
  <2>4. SumFunctionOnSet(f, T) = f[c] + SumFunctionOnSet(f, U)
    BY <2>1, <2>2, SumPick
  <2> HIDE DEF c
  <2>5. U \in SUBSET S /\ IsFiniteSet(U) /\ Cardinality(U) < Cardinality(T)
    BY <2>1, <2>3, Smaller
  <2>6. Cardinality(T) \in Nat /\ Cardinality(U) \in Nat
    BY <2>1, <2>5, FS_CardinalityType
  <2>7. U \notin Bad
    BY <2>1, <2>5, <2>6
  <2> QED BY <2>3, <2>4, <2>5, <2>7
<1>1. \A T \in SUBSET S : SumFunctionOnSet(f, T) \in Nat
  BY <1>0
<1>2. ASSUME NEW x \in S PROVE f[x] <= SumFunctionOnSet(f, S)
  <2>1. SumFunctionOnSet(f, S) = f[x] + SumFunctionOnSet(f, S \ {x})
    BY SumTakeOut
  <2>2. SumFunctionOnSet(f, S \ {x}) \in Nat
    BY <1>1
  <2> QED BY <2>1, <2>2
<1> QED BY <1>1, <1>2

\* Naturals that add up to nothing are all zero.
LEMMA SumNatZero ==
    ASSUME NEW f, NEW S, IsFiniteSet(S), \A x \in S : f[x] \in Nat,
           SumFunctionOnSet(f, S) = 0
    PROVE  \A x \in S : f[x] = 0
BY SumNat

\* Functions that differ at one element have sums that differ as much.
LEMMA SumUpdate ==
    ASSUME NEW f, NEW g, NEW S, IsFiniteSet(S), NEW a \in S,
           \A x \in S : f[x] \in Int /\ g[x] \in Int,
           \A x \in S \ {a} : g[x] = f[x]
    PROVE  SumFunctionOnSet(g, S) = SumFunctionOnSet(f, S) + g[a] - f[a]
<1> DEFINE R == S \ {a}
           r == SumFunctionOnSet(f, R)
<1>1. IsFiniteSet(R)
  BY FS_Subset
<1>2. SumFunctionOnSet(g, R) = r
  BY <1>1, SumSame
<1>3. r \in Int
  BY <1>1, SumInt
<1>4. SumFunctionOnSet(f, S) = f[a] + r /\ SumFunctionOnSet(g, S) = g[a] + r
  BY <1>2, SumTakeOut
<1> QED BY <1>3, <1>4

\* Functions that differ at two elements have sums that differ as much.
LEMMA SumUpdateTwo ==
    ASSUME NEW f, NEW g, NEW S, IsFiniteSet(S), NEW a \in S, NEW b \in S, a # b,
           \A x \in S : f[x] \in Int /\ g[x] \in Int,
           \A x \in S \ {a, b} : g[x] = f[x]
    PROVE  SumFunctionOnSet(g, S) =
               SumFunctionOnSet(f, S) + (g[a] - f[a]) + (g[b] - f[b])
<1> DEFINE h == [x \in S |-> IF x = a THEN g[a] ELSE f[x]]
<1>1. SumFunctionOnSet(h, S) = SumFunctionOnSet(f, S) + h[a] - f[a]
  BY SumUpdate
<1>2. SumFunctionOnSet(g, S) = SumFunctionOnSet(h, S) + g[b] - h[b]
  BY SumUpdate
<1>3. SumFunctionOnSet(f, S) \in Int
  BY SumInt
<1> QED BY <1>1, <1>2, <1>3

\* A sum of sums is the sum of the two.
LEMMA SumOfTwo ==
    ASSUME NEW f, NEW g, NEW h, NEW S, IsFiniteSet(S),
           \A x \in S : f[x] \in Int /\ g[x] \in Int /\ h[x] = f[x] + g[x]
    PROVE  SumFunctionOnSet(h, S) = SumFunctionOnSet(f, S) + SumFunctionOnSet(g, S)
<1> DEFINE Bad == {T \in SUBSET S :
               SumFunctionOnSet(h, T) # SumFunctionOnSet(f, T) + SumFunctionOnSet(g, T)}
<1> SUFFICES ASSUME Bad # {} PROVE FALSE
  OBVIOUS
<1>1. PICK T \in Bad : IsFiniteSet(T) /\ \A U \in Bad : Cardinality(T) <= Cardinality(U)
  <2>1. Bad \subseteq SUBSET S
    OBVIOUS
  <2> HIDE DEF Bad
  <2> QED BY <2>1, SmallestSubset
<1>2. T # {}
  <2> SUFFICES ASSUME T = {} PROVE FALSE
    OBVIOUS
  <2>1. /\ SumFunctionOnSet(f, T) = 0 /\ SumFunctionOnSet(g, T) = 0
        /\ SumFunctionOnSet(h, T) = 0
    BY SumEmpty
  <2> QED BY <2>1
<1> DEFINE c == Pick(T)
           U == T \ {c}
<1>3. c \in T
  BY <1>2, PickType
<1>4. /\ SumFunctionOnSet(f, T) = f[c] + SumFunctionOnSet(f, U)
      /\ SumFunctionOnSet(g, T) = g[c] + SumFunctionOnSet(g, U)
      /\ SumFunctionOnSet(h, T) = h[c] + SumFunctionOnSet(h, U)
  BY <1>1, <1>2, SumPick
<1> HIDE DEF c
<1>5. U \in SUBSET S /\ IsFiniteSet(U) /\ Cardinality(U) < Cardinality(T)
  BY <1>1, <1>3, Smaller
<1>6. Cardinality(T) \in Nat /\ Cardinality(U) \in Nat
  BY <1>1, <1>5, FS_CardinalityType
<1>7. U \notin Bad
  BY <1>1, <1>5, <1>6
<1>8. SumFunctionOnSet(f, U) \in Int /\ SumFunctionOnSet(g, U) \in Int
  BY <1>5, SumInt
<1> QED BY <1>3, <1>4, <1>5, <1>7, <1>8

\* The sum of multiples is the multiple of the sum.
LEMMA SumOfMultiples ==
    ASSUME NEW k \in Int, NEW f, NEW h, NEW S, IsFiniteSet(S),
           \A x \in S : f[x] \in Int /\ h[x] = k * f[x]
    PROVE  SumFunctionOnSet(h, S) = k * SumFunctionOnSet(f, S)
<1> DEFINE Bad == {T \in SUBSET S : SumFunctionOnSet(h, T) # k * SumFunctionOnSet(f, T)}
<1> SUFFICES ASSUME Bad # {} PROVE FALSE
  OBVIOUS
<1>1. PICK T \in Bad : IsFiniteSet(T) /\ \A U \in Bad : Cardinality(T) <= Cardinality(U)
  <2>1. Bad \subseteq SUBSET S
    OBVIOUS
  <2> HIDE DEF Bad
  <2> QED BY <2>1, SmallestSubset
<1>2. T # {}
  <2> SUFFICES ASSUME T = {} PROVE FALSE
    OBVIOUS
  <2>1. SumFunctionOnSet(f, T) = 0 /\ SumFunctionOnSet(h, T) = 0
    BY SumEmpty
  <2> QED BY <2>1
<1> DEFINE c == Pick(T)
           U == T \ {c}
<1>3. c \in T
  BY <1>2, PickType
<1>4. /\ SumFunctionOnSet(f, T) = f[c] + SumFunctionOnSet(f, U)
      /\ SumFunctionOnSet(h, T) = h[c] + SumFunctionOnSet(h, U)
  BY <1>1, <1>2, SumPick
<1> HIDE DEF c
<1>5. U \in SUBSET S /\ IsFiniteSet(U) /\ Cardinality(U) < Cardinality(T)
  BY <1>1, <1>3, Smaller
<1>6. Cardinality(T) \in Nat /\ Cardinality(U) \in Nat
  BY <1>1, <1>5, FS_CardinalityType
<1>7. SumFunctionOnSet(h, U) = k * SumFunctionOnSet(f, U)
  BY <1>1, <1>5, <1>6
<1>8. SumFunctionOnSet(f, U) \in Int /\ f[c] \in Int /\ h[c] = k * f[c]
  BY <1>3, <1>5, SumInt
<1>9. k * (f[c] + SumFunctionOnSet(f, U)) = k * f[c] + k * SumFunctionOnSet(f, U)
  BY <1>8
<1>10. SumFunctionOnSet(h, T) # k * SumFunctionOnSet(f, T)
  BY <1>1
<1> QED BY <1>4, <1>7, <1>8, <1>9, <1>10
=============================================================================

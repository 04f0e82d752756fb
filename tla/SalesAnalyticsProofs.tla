------------------------- MODULE SalesAnalyticsProofs -------------------------
(***************************************************************************)
(* Proofs of the invariants of the analytics: MarketStatistics,            *)
(* OwnerActivity, LegacyAnalytics, ParcelPages, SaleListing,               *)
(* NeighborhoodPages, Comparables, MapEncoding and Search.                 *)
(*                                                                         *)
(* Requests only read, so each of them is a consequence of the type        *)
(* invariant of the table: it says of any finite table what the code       *)
(* computes from it.  Most of them compare sums, counts, extremes or ranks *)
(* that two queries take over sets of rows.  Those are recursive functions *)
(* on sets; the first part proves what is needed of them, by way of a      *)
(* minimal subset for which it would fail.                                 *)
(***************************************************************************)
EXTENDS MapEncoding, Search, FiniteSetTheorems, SequenceTheorems, WellFoundedInduction, TLAPS

\* The element a fold takes first.
Some(s) == CHOOSE x \in s : TRUE

\* g is the recursive function by which MapThenSumSet sums f over subsets of S.
IsFold(g, f, S) ==
    g = [s \in SUBSET S |-> IF s = {} THEN 0 ELSE f[Some(s)] + g[s \ {Some(s)}]]

SumOf(f, S) == MapThenSumSet(LAMBDA x : f[x], S)

-----------------------------------------------------------------------------
(* Induction over the subsets of a finite set.                              *)

\* A set of subsets of a finite set has a minimal member.
LEMMA MinimalSubset ==
    ASSUME NEW S, IsFiniteSet(S), NEW B, B \subseteq SUBSET S, B # {}
    PROVE  \E T \in B : \A U \in B : U \subseteq T => U = T
<1> DEFINE R == StrictSubsetOrdering(S)
<1>1. B \subseteq FiniteSubsetsOf(S)
  BY FS_FiniteSubsetsOfFinite
<1>2. IsWellFoundedOn(R, FiniteSubsetsOf(S))
  BY FS_StrictSubsetOrderingWellFounded
<1>3. PICK T \in B : \A U \in B : ~(<<U, T>> \in R)
  <2> HIDE DEF R
  <2> QED BY <1>1, <1>2, WFMin
<1>4. \A U \in B : U \subseteq T => U = T
  BY <1>3 DEF StrictSubsetOrdering
<1> QED BY <1>4

\* It is an element.
LEMMA SomeElement == ASSUME NEW s, s # {} PROVE Some(s) \in s
BY DEF Some

-----------------------------------------------------------------------------
(* Sums.                                                                    *)

\* The equation of the recursive function, subset by subset.
LEMMA FoldValue ==
    ASSUME NEW S, NEW f, NEW g, IsFold(g, f, S), NEW s, s \subseteq S
    PROVE  g[s] = IF s = {} THEN 0 ELSE f[Some(s)] + g[s \ {Some(s)}]
BY DEF IsFold

\* Folds over two sets agree on the subsets of both.
LEMMA FoldsAgree ==
    ASSUME NEW S, NEW T, NEW f, NEW g, NEW h, IsFiniteSet(S), IsFold(g, f, S), IsFold(h, f, T),
           NEW s, s \subseteq S, s \subseteq T
    PROVE  g[s] = h[s]
<1> DEFINE B == {u \in SUBSET S : u \subseteq T /\ g[u] # h[u]}
<1> SUFFICES ASSUME g[s] # h[s] PROVE FALSE
  OBVIOUS
<1>1. B \subseteq SUBSET S /\ s \in B
  OBVIOUS
<1>2. PICK u \in B : \A v \in B : v \subseteq u => v = u
  <2> HIDE DEF B
  <2> QED BY <1>1, MinimalSubset
<1>3. u \subseteq S /\ u \subseteq T /\ g[u] # h[u]
  OBVIOUS
<1>4. CASE u = {}
  BY <1>3, <1>4, FoldValue
<1>5. CASE u # {}
  <2> DEFINE v == u \ {Some(u)}
  <2>1. v \subseteq u /\ v # u
    BY <1>5, SomeElement
  <2>2. g[v] = h[v]
    BY <1>2, <1>3, <2>1
  <2>3. g[u] = f[Some(u)] + g[v]
    BY <1>3, <1>5, FoldValue
  <2>4. h[u] = f[Some(u)] + h[v]
    <3>1. IsFold(h, f, T) /\ u \subseteq T
      BY <1>3
    <3> QED BY <1>5, <3>1, FoldValue
  <2> QED BY <1>3, <2>2, <2>3, <2>4
<1> QED BY <1>4, <1>5

\* There is one: of the subsets for which there is none a minimal one would have
\* one, put together from those of its own subsets.
LEMMA FoldExists ==
    ASSUME NEW S, IsFiniteSet(S), NEW f
    PROVE  \E g : IsFold(g, f, S)
<1> DEFINE G(s) == CHOOSE g : IsFold(g, f, s)
           B == {s \in SUBSET S : ~ \E g : IsFold(g, f, s)}
<1> SUFFICES ASSUME ~ \E g : IsFold(g, f, S) PROVE FALSE
  OBVIOUS
<1>1. B \subseteq SUBSET S /\ B # {}
  OBVIOUS
<1>2. PICK T \in B : \A U \in B : U \subseteq T => U = T
  <2> HIDE DEF B
  <2> QED BY <1>1, MinimalSubset
<1>3. \A s \in SUBSET T : s # T => IsFold(G(s), f, s)
  BY <1>2
<1> DEFINE V == [s \in SUBSET T |-> IF s = {} THEN 0
                                    ELSE f[Some(s)] + G(s \ {Some(s)})[s \ {Some(s)}]]
<1> HIDE DEF G
<1>4. \A s \in SUBSET T : s # T => V[s] = G(s)[s]
  <2> SUFFICES ASSUME NEW s \in SUBSET T, s # T PROVE V[s] = G(s)[s]
    OBVIOUS
  <2>1. G(s)[s] = IF s = {} THEN 0 ELSE f[Some(s)] + G(s)[s \ {Some(s)}]
    BY <1>3, FoldValue
  <2>2. CASE s = {}
    BY <2>1, <2>2
  <2>3. CASE s # {}
    <3> DEFINE v == s \ {Some(s)}
    <3>1. v \subseteq T /\ v # T /\ v \subseteq s
      BY SomeElement
    <3>2. IsFiniteSet(s)
      BY FS_Subset, <1>2
    <3>3. G(s)[v] = G(v)[v]
      BY <1>3, <3>1, <3>2, FoldsAgree
    <3> QED BY <2>1, <2>3, <3>3
  <2> QED BY <2>2, <2>3
<1>5. IsFold(V, f, T)
  <2>1. \A s \in SUBSET T : s # {} => V[s] = f[Some(s)] + V[s \ {Some(s)}]
    <3> SUFFICES ASSUME NEW s \in SUBSET T, s # {}
                 PROVE  V[s] = f[Some(s)] + V[s \ {Some(s)}]
      OBVIOUS
    <3>1. s \ {Some(s)} \in SUBSET T /\ s \ {Some(s)} # T
      BY SomeElement
    <3> QED BY <1>4, <3>1
  <2>2. V[{}] = 0
    OBVIOUS
  <2>3. V = [s \in SUBSET T |-> V[s]]
    OBVIOUS
  <2> HIDE DEF V
  <2>4. \A s \in SUBSET T : V[s] = IF s = {} THEN 0 ELSE f[Some(s)] + V[s \ {Some(s)}]
    BY <2>1, <2>2
  <2> QED BY <2>3, <2>4 DEF IsFold
<1> QED BY <1>2, <1>5

\* What MapThenSumSet sums up is the value of any such function.
LEMMA SumIsFold ==
    ASSUME NEW S, IsFiniteSet(S), NEW f, NEW g, IsFold(g, f, S)
    PROVE  SumOf(f, S) = g[S]
<1> DEFINE iter == CHOOSE iter : iter = [s \in SUBSET S |->
                        IF s = {} THEN 0 ELSE f[CHOOSE x \in s : TRUE] + iter[s \ {CHOOSE x \in s : TRUE}]]
<1>1. IsFold(iter, f, S)
  BY DEF IsFold, Some
<1>2. SumOf(f, S) = iter[S]
  BY DEF SumOf, MapThenSumSet, MapThenFoldSet
<1> QED BY <1>1, <1>2, FoldsAgree

\* The sum over no elements.
LEMMA SumEmpty == ASSUME NEW f PROVE SumOf(f, {}) = 0
<1>1. IsFiniteSet({})
  BY FS_EmptySet
<1>2. PICK g : IsFold(g, f, {})
  BY <1>1, FoldExists
<1> QED BY <1>1, <1>2, SumIsFold, FoldValue

\* The equation of a sum.
LEMMA SumStep ==
    ASSUME NEW S, IsFiniteSet(S), S # {}, NEW f
    PROVE  SumOf(f, S) = f[Some(S)] + SumOf(f, S \ {Some(S)})
<1> DEFINE T == S \ {Some(S)}
<1>1. PICK g : IsFold(g, f, S)
  BY FoldExists
<1>2. IsFiniteSet(T)
  BY FS_Subset
<1>3. PICK h : IsFold(h, f, T)
  BY <1>2, FoldExists
<1>4. T \subseteq S
  OBVIOUS
<1> HIDE DEF T
<1>5. g[T] = h[T]
  BY <1>1, <1>3, <1>4, FoldsAgree
<1>6. SumOf(f, S) = g[S] /\ SumOf(f, T) = h[T]
  BY <1>1, <1>2, <1>3, SumIsFold
<1>7. g[S] = f[Some(S)] + g[T]
  BY <1>1, FoldValue DEF T
<1> QED BY <1>5, <1>6, <1>7 DEF T

\* A sum of integers is one.
LEMMA SumType ==
    ASSUME NEW S, IsFiniteSet(S), NEW f, \A x \in S : f[x] \in Int
    PROVE  SumOf(f, S) \in Int
<1> DEFINE B == {T \in SUBSET S : SumOf(f, T) \notin Int}
<1> SUFFICES ASSUME SumOf(f, S) \notin Int PROVE FALSE
  OBVIOUS
<1>1. B \subseteq SUBSET S /\ B # {}
  OBVIOUS
<1>2. PICK T \in B : \A U \in B : U \subseteq T => U = T
  <2> HIDE DEF B
  <2> QED BY <1>1, MinimalSubset
<1>3. T # {} /\ IsFiniteSet(T) /\ T \subseteq S
  <2>1. T # {}
    BY SumEmpty
  <2> QED BY <2>1, FS_Subset
<1>4. SumOf(f, T) = f[Some(T)] + SumOf(f, T \ {Some(T)})
  BY <1>3, SumStep
<1>5. Some(T) \in T
  BY <1>3, SomeElement
<1>6. SumOf(f, T \ {Some(T)}) \in Int
  BY <1>2, <1>3, <1>5
<1> QED BY <1>3, <1>4, <1>5, <1>6

\* Any element may be taken first.
LEMMA SumTake ==
    ASSUME NEW S, IsFiniteSet(S), NEW f, \A x \in S : f[x] \in Int, NEW y \in S
    PROVE  SumOf(f, S) = f[y] + SumOf(f, S \ {y})
<1> DEFINE B == {T \in SUBSET S : \E z \in T : SumOf(f, T) # f[z] + SumOf(f, T \ {z})}
<1> SUFFICES ASSUME SumOf(f, S) # f[y] + SumOf(f, S \ {y}) PROVE FALSE
  OBVIOUS
<1>1. B \subseteq SUBSET S /\ B # {}
  OBVIOUS
<1>2. PICK T \in B : \A U \in B : U \subseteq T => U = T
  <2> HIDE DEF B
  <2> QED BY <1>1, MinimalSubset
<1>3. PICK z \in T : SumOf(f, T) # f[z] + SumOf(f, T \ {z})
  OBVIOUS
<1> DEFINE x == Some(T)
<1>4. T # {} /\ IsFiniteSet(T) /\ T \subseteq S /\ x \in T
  BY FS_Subset, SomeElement
<1>5. SumOf(f, T) = f[x] + SumOf(f, T \ {x})
  BY <1>4, SumStep
<1>6. z # x
  BY <1>3, <1>5
<1> HIDE DEF x
<1>7. T \ {x} \in SUBSET S /\ T \ {x} # T /\ T \ {z} \in SUBSET S /\ T \ {z} # T
  BY <1>4
<1>8. SumOf(f, T \ {x}) = f[z] + SumOf(f, (T \ {x}) \ {z})
  BY <1>2, <1>4, <1>6, <1>7
<1>9. SumOf(f, T \ {z}) = f[x] + SumOf(f, (T \ {z}) \ {x})
  BY <1>2, <1>4, <1>6, <1>7
<1>10. (T \ {x}) \ {z} = (T \ {z}) \ {x}
  OBVIOUS
<1>11. IsFiniteSet((T \ {z}) \ {x}) /\ (T \ {z}) \ {x} \subseteq S
  BY <1>4, FS_Subset
<1>12. SumOf(f, (T \ {z}) \ {x}) \in Int
  BY <1>11, SumType
<1>13. f[x] \in Int /\ f[z] \in Int
  BY <1>4
<1> DEFINE rest == SumOf(f, (T \ {z}) \ {x})
<1>14. rest \in Int
  BY <1>12
<1>15. SumOf(f, T) = f[x] + (f[z] + rest)
  BY <1>5, <1>8, <1>10
<1>16. f[z] + SumOf(f, T \ {z}) = f[z] + (f[x] + rest)
  BY <1>9
<1> HIDE DEF rest
<1>17. f[x] + (f[z] + rest) = f[z] + (f[x] + rest)
  BY <1>13, <1>14
<1> QED BY <1>3, <1>15, <1>16, <1>17

\* A sum is over the elements, whatever the function is elsewhere.
LEMMA SumSame ==
    ASSUME NEW S, IsFiniteSet(S), NEW f, NEW g, \A x \in S : f[x] = g[x]
    PROVE  SumOf(f, S) = SumOf(g, S)
<1> DEFINE B == {T \in SUBSET S : SumOf(f, T) # SumOf(g, T)}
<1> SUFFICES ASSUME SumOf(f, S) # SumOf(g, S) PROVE FALSE
  OBVIOUS
<1>1. B \subseteq SUBSET S /\ B # {}
  OBVIOUS
<1>2. PICK T \in B : \A U \in B : U \subseteq T => U = T
  <2> HIDE DEF B
  <2> QED BY <1>1, MinimalSubset
<1>3. T # {} /\ IsFiniteSet(T) /\ T \subseteq S
  <2>1. T # {}
    BY SumEmpty
  <2> QED BY <2>1, FS_Subset
<1>4. SumOf(f, T) = f[Some(T)] + SumOf(f, T \ {Some(T)})
  BY <1>3, SumStep
<1>5. SumOf(g, T) = g[Some(T)] + SumOf(g, T \ {Some(T)})
  BY <1>3, SumStep
<1>6. Some(T) \in T
  BY <1>3, SomeElement
<1>7. SumOf(f, T \ {Some(T)}) = SumOf(g, T \ {Some(T)})
  BY <1>2, <1>3, <1>6
<1> QED BY <1>2, <1>3, <1>4, <1>5, <1>6, <1>7

\* The sum over two parts.
LEMMA SumUnion ==
    ASSUME NEW S, IsFiniteSet(S), NEW T, IsFiniteSet(T), S \cap T = {},
           NEW f, \A x \in S \cup T : f[x] \in Int
    PROVE  SumOf(f, S \cup T) = SumOf(f, S) + SumOf(f, T)
<1> DEFINE B == {U \in SUBSET S : SumOf(f, U \cup T) # SumOf(f, U) + SumOf(f, T)}
<1> SUFFICES ASSUME SumOf(f, S \cup T) # SumOf(f, S) + SumOf(f, T) PROVE FALSE
  OBVIOUS
<1>1. B \subseteq SUBSET S /\ B # {}
  OBVIOUS
<1>2. PICK U \in B : \A V \in B : V \subseteq U => V = U
  <2> HIDE DEF B
  <2> QED BY <1>1, MinimalSubset
<1>3. IsFiniteSet(U) /\ U \subseteq S
  BY FS_Subset
<1>4. SumOf(f, T) \in Int
  BY SumType
<1>5. U # {}
  BY <1>4, SumEmpty
<1>6. PICK x \in U : TRUE
  BY <1>5
<1> DEFINE V == U \ {x}
<1>7. SumOf(f, V \cup T) = SumOf(f, V) + SumOf(f, T)
  BY <1>2, <1>3, <1>6
<1>8. SumOf(f, U) = f[x] + SumOf(f, V)
  BY <1>3, SumTake
<1>9. (U \cup T) \ {x} = V \cup T /\ IsFiniteSet(U \cup T)
  BY <1>3, <1>6, FS_Union
<1>10. SumOf(f, U \cup T) = f[x] + SumOf(f, V \cup T)
  <2>1. SumOf(f, U \cup T) = f[x] + SumOf(f, (U \cup T) \ {x})
    BY <1>3, <1>6, <1>9, SumTake
  <2> QED BY <1>9, <2>1
<1>11. SumOf(f, V) \in Int /\ f[x] \in Int
  BY <1>3, <1>6, SumType, FS_Subset
<1> QED BY <1>2, <1>4, <1>7, <1>8, <1>10, <1>11

\* The sum over one element.
LEMMA SumOne == ASSUME NEW x, NEW f, f[x] \in Int PROVE SumOf(f, {x}) = f[x]
<1>1. IsFiniteSet({x})
  BY FS_Singleton
<1>2. SumOf(f, {x}) = f[x] + SumOf(f, {x} \ {x})
  BY <1>1, SumTake
<1> QED BY <1>2, SumEmpty

\* Larger values have the larger sum.
LEMMA SumOrdered ==
    ASSUME NEW S, IsFiniteSet(S), NEW f, NEW g,
           \A x \in S : f[x] \in Int /\ g[x] \in Int /\ f[x] <= g[x]
    PROVE  SumOf(f, S) <= SumOf(g, S)
<1> DEFINE B == {T \in SUBSET S : ~(SumOf(f, T) <= SumOf(g, T))}
<1> SUFFICES ASSUME ~(SumOf(f, S) <= SumOf(g, S)) PROVE FALSE
  OBVIOUS
<1>1. B \subseteq SUBSET S /\ B # {}
  OBVIOUS
<1>2. PICK T \in B : \A U \in B : U \subseteq T => U = T
  <2> HIDE DEF B
  <2> QED BY <1>1, MinimalSubset
<1>3. T # {} /\ IsFiniteSet(T) /\ T \subseteq S
  <2>1. T # {}
    BY SumEmpty
  <2> QED BY <2>1, FS_Subset
<1>4. PICK x \in T : TRUE
  BY <1>3
<1> DEFINE U == T \ {x}
<1>5. SumOf(f, T) = f[x] + SumOf(f, U)
  BY <1>3, SumTake
<1>6. SumOf(g, T) = g[x] + SumOf(g, U)
  BY <1>3, SumTake
<1>7. SumOf(f, U) <= SumOf(g, U)
  BY <1>2, <1>3, <1>4
<1>8. SumOf(f, U) \in Int
  BY <1>3, SumType, FS_Subset
<1>9. SumOf(g, U) \in Int
  BY <1>3, SumType, FS_Subset
<1>10. f[x] \in Int /\ g[x] \in Int /\ f[x] <= g[x]
  BY <1>3
<1> HIDE DEF U
<1> QED BY <1>2, <1>5, <1>6, <1>7, <1>8, <1>9, <1>10

\* A sum of equal numbers.
LEMMA SumOfEquals ==
    ASSUME NEW S, IsFiniteSet(S), NEW f, NEW v \in Int, \A x \in S : f[x] = v
    PROVE  SumOf(f, S) = v * Cardinality(S)
<1> DEFINE B == {U \in SUBSET S : SumOf(f, U) # v * Cardinality(U)}
<1> SUFFICES ASSUME SumOf(f, S) # v * Cardinality(S) PROVE FALSE
  OBVIOUS
<1>1. B \subseteq SUBSET S /\ B # {}
  OBVIOUS
<1>2. PICK U \in B : \A V \in B : V \subseteq U => V = U
  <2> HIDE DEF B
  <2> QED BY <1>1, MinimalSubset
<1>3. U # {}
  <2>1. v * Cardinality({}) = 0
    BY FS_EmptySet
  <2> QED BY <1>2, <2>1, SumEmpty
<1>4. PICK x \in U : TRUE
  BY <1>3
<1> DEFINE V == U \ {x}
<1>5. SumOf(f, V) = v * Cardinality(V)
  BY <1>2, <1>4
<1>6. IsFiniteSet(U) /\ IsFiniteSet(V) /\ \A y \in U : f[y] \in Int
  BY <1>2, FS_Subset
<1>7. Cardinality(V) = Cardinality(U) - 1 /\ Cardinality(U) \in Nat
  BY <1>6, FS_RemoveElement, FS_CardinalityType
<1>8. SumOf(f, U) = v + SumOf(f, V)
  <2>1. SumOf(f, U) = f[x] + SumOf(f, V)
    BY <1>6, SumTake
  <2> QED BY <1>2, <2>1
<1>9. \A n \in Nat : v + v * (n - 1) = v * n
  OBVIOUS
<1> QED BY <1>2, <1>5, <1>7, <1>8, <1>9

\* A sum of zeros.
LEMMA SumOfZeros ==
    ASSUME NEW S, IsFiniteSet(S), NEW f, \A x \in S : f[x] = 0
    PROVE  SumOf(f, S) = 0
BY SumOfEquals, FS_CardinalityType

\* A sum of ones counts.
LEMMA SumOfOnes ==
    ASSUME NEW S, IsFiniteSet(S), NEW f, \A x \in S : f[x] = 1
    PROVE  SumOf(f, S) = Cardinality(S)
BY SumOfEquals, FS_CardinalityType

\* A sum of naturals is at least each part of it.
LEMMA SumNat ==
    ASSUME NEW S, IsFiniteSet(S), NEW f, \A x \in S : f[x] \in Nat
    PROVE  /\ SumOf(f, S) \in Nat
           /\ \A T \in SUBSET S : SumOf(f, T) <= SumOf(f, S)
           /\ \A x \in S : f[x] <= SumOf(f, S)
<1>1. \A T \in SUBSET S : SumOf(f, T) \in Nat
  <2> SUFFICES ASSUME NEW T \in SUBSET S PROVE SumOf(f, T) \in Nat
    OBVIOUS
  <2> DEFINE zero == [x \in T |-> 0]
  <2>1. IsFiniteSet(T) /\ SumOf(f, T) \in Int
    <3>1. IsFiniteSet(T) /\ \A x \in T : f[x] \in Int
      BY FS_Subset
    <3> QED BY <3>1, SumType
  <2>2. SumOf(zero, T) = 0
    <3>1. \A x \in T : zero[x] = 0
      OBVIOUS
    <3> HIDE DEF zero
    <3> QED BY <2>1, <3>1, SumOfZeros
  <2>3. \A x \in T : zero[x] \in Int /\ f[x] \in Int /\ zero[x] <= f[x]
    OBVIOUS
  <2> HIDE DEF zero
  <2>4. SumOf(zero, T) <= SumOf(f, T)
    BY <2>1, <2>3, SumOrdered
  <2> QED BY <2>1, <2>2, <2>4
<1>2. \A T \in SUBSET S : SumOf(f, T) <= SumOf(f, S)
  <2> SUFFICES ASSUME NEW T \in SUBSET S PROVE SumOf(f, T) <= SumOf(f, S)
    OBVIOUS
  <2> DEFINE rest == S \ T
  <2>1. IsFiniteSet(T) /\ IsFiniteSet(rest) /\ T \cap rest = {} /\ S = T \cup rest
    BY FS_Subset
  <2>2. \A x \in T \cup rest : f[x] \in Int
    OBVIOUS
  <2>3. SumOf(f, rest) \in Nat /\ SumOf(f, T) \in Nat
    BY <1>1
  <2> HIDE DEF rest
  <2>4. SumOf(f, T \cup rest) = SumOf(f, T) + SumOf(f, rest)
    BY <2>1, <2>2, SumUnion
  <2> QED BY <2>1, <2>3, <2>4
<1>3. \A x \in S : f[x] <= SumOf(f, S)
  <2> SUFFICES ASSUME NEW x \in S PROVE f[x] <= SumOf(f, S)
    OBVIOUS
  <2>1. SumOf(f, {x}) = f[x]
    BY SumOne
  <2> QED BY <1>2, <2>1
<1> QED BY <1>1, <1>2, <1>3

\* A sum by groups: k says which group an element is in.
LEMMA SumByGroup ==
    ASSUME NEW S, IsFiniteSet(S), NEW f, \A x \in S : f[x] \in Int,
           NEW C, IsFiniteSet(C), NEW k, \A x \in S : k[x] \in C
    PROVE  SumOf(f, S) = SumOf([c \in C |-> SumOf(f, {x \in S : k[x] = c})], C)
<1> DEFINE F == [c \in C |-> SumOf(f, {x \in S : k[x] = c})]
           In(D) == {x \in S : k[x] \in D}
           B == {D \in SUBSET C : SumOf(f, In(D)) # SumOf(F, D)}
<1>1. In(C) = S
  OBVIOUS
<1> SUFFICES ASSUME SumOf(f, In(C)) # SumOf(F, C) PROVE FALSE
  BY <1>1
<1>2. B \subseteq SUBSET C /\ B # {}
  OBVIOUS
<1>3. PICK D \in B : \A E \in B : E \subseteq D => E = D
  <2> HIDE DEF B
  <2> QED BY <1>2, MinimalSubset
<1>4. D # {}
  <2>1. In({}) = {}
    OBVIOUS
  <2> HIDE DEF In, F
  <2> QED BY <1>3, <2>1, SumEmpty
<1>5. PICK c \in D : TRUE
  BY <1>4
<1> DEFINE E == D \ {c}
           One == {x \in S : k[x] = c}
<1>6. SumOf(f, In(E)) = SumOf(F, E)
  BY <1>3, <1>5
<1>7. In(D) = One \cup In(E) /\ One \cap In(E) = {}
  BY <1>5
<1>8. IsFiniteSet(One) /\ IsFiniteSet(In(E)) /\ IsFiniteSet(D)
  BY <1>3, FS_Subset
<1>9. \A x \in One \cup In(E) : f[x] \in Int
  OBVIOUS
<1>10. \A d \in D : F[d] \in Int
  <2> SUFFICES ASSUME NEW d \in D PROVE SumOf(f, {x \in S : k[x] = d}) \in Int
    BY <1>3
  <2> DEFINE X == {x \in S : k[x] = d}
  <2>1. IsFiniteSet(X) /\ \A x \in X : f[x] \in Int
    BY FS_Subset
  <2> QED BY <2>1, SumType
<1>11. F[c] = SumOf(f, One)
  BY <1>3
<1> HIDE DEF F, In, One
<1>12. SumOf(f, In(D)) = SumOf(f, One) + SumOf(f, In(E))
  <2>1. SumOf(f, One \cup In(E)) = SumOf(f, One) + SumOf(f, In(E))
    BY <1>7, <1>8, <1>9, SumUnion
  <2> QED BY <1>7, <2>1
<1>13. SumOf(F, D) = F[c] + SumOf(F, E)
  BY <1>8, <1>10, SumTake
<1>14. SumOf(f, In(D)) # SumOf(F, D)
  BY <1>3 DEF In
<1> QED BY <1>6, <1>11, <1>12, <1>13, <1>14

\* A sum may be taken over other elements, one for each.
LEMMA SumReindexed ==
    ASSUME NEW S, IsFiniteSet(S), NEW f, \A x \in S : f[x] \in Int, NEW g, NEW h,
           \A x \in S : g[h[x]] = f[x], \A x, y \in S : h[x] = h[y] => x = y
    PROVE  SumOf(f, S) = SumOf(g, {h[x] : x \in S})
<1> DEFINE Im(U) == {h[x] : x \in U}
           B == {U \in SUBSET S : SumOf(f, U) # SumOf(g, Im(U))}
<1> SUFFICES ASSUME SumOf(f, S) # SumOf(g, Im(S)) PROVE FALSE
  OBVIOUS
<1>1. B \subseteq SUBSET S /\ B # {}
  OBVIOUS
<1>2. PICK U \in B : \A V \in B : V \subseteq U => V = U
  <2> HIDE DEF B
  <2> QED BY <1>1, MinimalSubset
<1>3. U # {}
  <2>1. Im({}) = {}
    OBVIOUS
  <2> HIDE DEF Im
  <2> QED BY <1>2, <2>1, SumEmpty
<1>4. PICK x \in U : TRUE
  BY <1>3
<1> DEFINE V == U \ {x}
<1>5. SumOf(f, V) = SumOf(g, Im(V))
  BY <1>2, <1>4
<1>6. IsFiniteSet(U) /\ \A y \in U : f[y] \in Int
  BY <1>2, FS_Subset
<1>7. Im(U) \ {h[x]} = Im(V) /\ h[x] \in Im(U)
  BY <1>2, <1>4
<1>8. IsFiniteSet(Im(U))
  <2> DEFINE m == [y \in U |-> h[y]]
  <2>1. m \in Surjection(U, Im(U))
    BY DEF Surjection
  <2> HIDE DEF m, Im
  <2> QED BY <1>6, <2>1, FS_Surjection
<1>9. \A z \in Im(U) : g[z] \in Int
  BY <1>2
<1>10. SumOf(f, U) # SumOf(g, Im(U))
  BY <1>2
<1>11. f[x] = g[h[x]]
  BY <1>2
<1> HIDE DEF Im
<1>12. SumOf(f, U) = f[x] + SumOf(f, V)
  BY <1>6, SumTake
<1>13. SumOf(g, Im(U)) = g[h[x]] + SumOf(g, Im(V))
  <2>1. SumOf(g, Im(U)) = g[h[x]] + SumOf(g, Im(U) \ {h[x]})
    BY <1>7, <1>8, <1>9, SumTake
  <2> QED BY <1>7, <2>1
<1> QED BY <1>5, <1>10, <1>11, <1>12, <1>13

\* A common factor.
LEMMA SumScaled ==
    ASSUME NEW S, IsFiniteSet(S), NEW f, \A x \in S : f[x] \in Int, NEW k \in Int,
           NEW g, \A x \in S : g[x] = k * f[x]
    PROVE  SumOf(g, S) = k * SumOf(f, S)
<1> DEFINE B == {U \in SUBSET S : SumOf(g, U) # k * SumOf(f, U)}
<1> SUFFICES ASSUME SumOf(g, S) # k * SumOf(f, S) PROVE FALSE
  OBVIOUS
<1>1. B \subseteq SUBSET S /\ B # {}
  OBVIOUS
<1>2. PICK U \in B : \A V \in B : V \subseteq U => V = U
  <2> HIDE DEF B
  <2> QED BY <1>1, MinimalSubset
<1>3. U # {}
  <2>1. k * 0 = 0
    OBVIOUS
  <2> QED BY <1>2, <2>1, SumEmpty
<1>4. PICK x \in U : TRUE
  BY <1>3
<1> DEFINE V == U \ {x}
<1>5. SumOf(g, V) = k * SumOf(f, V)
  BY <1>2, <1>4
<1>6. IsFiniteSet(U) /\ \A y \in U : f[y] \in Int /\ g[y] \in Int
  BY <1>2, FS_Subset
<1>7. SumOf(f, U) = f[x] + SumOf(f, V)
  BY <1>6, SumTake
<1>8. SumOf(g, U) = g[x] + SumOf(g, V)
  BY <1>6, SumTake
<1>9. IsFiniteSet(V) /\ \A y \in V : f[y] \in Int
  BY <1>6, FS_Subset
<1>10. SumOf(f, V) \in Int /\ f[x] \in Int
  BY <1>6, <1>9, SumType
<1>11. \A a, b \in Int : k * (a + b) = k * a + k * b
  OBVIOUS
<1> HIDE DEF V
<1> QED BY <1>2, <1>5, <1>7, <1>8, <1>10, <1>11

\* The sizes of two sets that share nothing add up.
LEMMA CountUnion ==
    ASSUME NEW S, IsFiniteSet(S), NEW T, IsFiniteSet(T), S \cap T = {}
    PROVE  Cardinality(S \cup T) = Cardinality(S) + Cardinality(T)
<1>1. Cardinality(S \cup T) = Cardinality(S) + Cardinality(T) - Cardinality(S \cap T)
  BY FS_Union
<1>2. Cardinality(S \cap T) = 0
  BY FS_EmptySet
<1>3. Cardinality(S) \in Nat /\ Cardinality(T) \in Nat
  BY FS_CardinalityType
<1> QED BY <1>1, <1>2, <1>3

-----------------------------------------------------------------------------
(* Images, extremes.                                                        *)

\* A finite set has a finite image, which is no larger.
LEMMA FiniteImage ==
    ASSUME NEW S, IsFiniteSet(S), NEW f
    PROVE  IsFiniteSet({f[x] : x \in S}) /\ Cardinality({f[x] : x \in S}) <= Cardinality(S)
<1> DEFINE T == {f[x] : x \in S}
           m == [x \in S |-> f[x]]
<1>1. m \in Surjection(S, T)
  BY DEF Surjection
<1> HIDE DEF m, T
<1>2. IsFiniteSet(T) /\ Cardinality(T) <= Cardinality(S)
  BY <1>1, FS_Surjection
<1> QED BY <1>2 DEF T

\* Of finitely many values one is the largest.
LEMMA LargestValue ==
    ASSUME NEW S, IsFiniteSet(S), S # {}, NEW f, \A x \in S : f[x] \in Int
    PROVE  \E x \in S : \A y \in S : f[y] <= f[x]
<1> DEFINE Up(x) == {y \in S : f[y] >= f[x]}
           B == {Up(x) : x \in S}
<1>1. B \subseteq SUBSET S /\ B # {}
  OBVIOUS
<1>2. PICK U \in B : \A V \in B : V \subseteq U => V = U
  <2> HIDE DEF B
  <2> QED BY <1>1, MinimalSubset
<1>3. PICK x \in S : U = Up(x)
  BY <1>2
<1>4. ASSUME NEW y \in S, ~(f[y] <= f[x]) PROVE FALSE
  <2>1. Up(y) \subseteq Up(x) /\ x \in Up(x) /\ x \notin Up(y)
    BY <1>4
  <2>2. Up(y) \in B
    OBVIOUS
  <2> QED BY <1>2, <1>3, <2>1, <2>2
<1> QED BY <1>4

\* The maximum of a finite set of integers.
LEMMA MaxMember ==
    ASSUME NEW S, IsFiniteSet(S), S # {}, S \subseteq Int
    PROVE  Max(S) \in S /\ \A x \in S : x <= Max(S)
<1> DEFINE f == [x \in S |-> x]
<1>1. \A x \in S : f[x] \in Int
  OBVIOUS
<1>2. PICK m \in S : \A x \in S : f[x] <= f[m]
  <2> HIDE DEF f
  <2> QED BY <1>1, LargestValue
<1>3. \E y \in S : \A x \in S : y >= x
  BY <1>2
<1> QED BY <1>3 DEF Max

\* The minimum of a finite set of integers.
LEMMA MinMember ==
    ASSUME NEW S, IsFiniteSet(S), S # {}, S \subseteq Int
    PROVE  Min(S) \in S /\ \A x \in S : Min(S) <= x
<1> DEFINE f == [x \in S |-> -x]
<1>1. \A x \in S : f[x] \in Int
  OBVIOUS
<1>2. PICK m \in S : \A x \in S : f[x] <= f[m]
  <2> HIDE DEF f
  <2> QED BY <1>1, LargestValue
<1>3. \E y \in S : \A x \in S : y <= x
  BY <1>2
<1> QED BY <1>3 DEF Min

\* The minimum of two integers.
LEMMA MinOfTwo ==
    ASSUME NEW a \in Int, NEW b \in Int
    PROVE  Min({a, b}) = IF a <= b THEN a ELSE b
<1>1. IsFiniteSet({a, b})
  <2>1. IsFiniteSet({a}) /\ {a, b} = {a} \cup {b}
    BY FS_Singleton
  <2> QED BY <2>1, FS_AddElement
<1>2. Min({a, b}) \in {a, b} /\ \A x \in {a, b} : Min({a, b}) <= x
  BY <1>1, MinMember
<1> QED BY <1>2

-----------------------------------------------------------------------------
(* The table.                                                               *)

TypeOK == /\ sales \subseteq Sale /\ IsFiniteSet(sales)
          /\ anchor \in Day \cup {NULL}

\* What is assumed of a row.
LEMMA RowType ==
    ASSUME NEW s \in Sale
    PROVE  /\ s.parcel \in Parcel /\ s.date \in Day /\ s.date \in Int /\ s.price \in Nat
           /\ s.id \in Int /\ s.price \in Int
<1>1. s.parcel \in Parcel /\ s.date \in Day /\ s.price \in Nat
  BY StatisticsAssumption
<1>2. s.id \in Int /\ s.date \in Int
  BY <1>1, StatisticsAssumption
<1>3. s.price \in Int
  BY <1>1
<1> QED BY <1>1, <1>2, <1>3

\* A set of dates of rows has a newest.
LEMMA NewestDate ==
    ASSUME NEW rows, rows \subseteq Sale, IsFiniteSet(rows), rows # {}
    PROVE  LET dates == {s.date : s \in rows}
           IN Max(dates) \in dates /\ \A s \in rows : s.date <= Max(dates)
<1> DEFINE date == [s \in rows |-> s.date]
           dates == {s.date : s \in rows}
<1>1. dates = {date[s] : s \in rows}
  OBVIOUS
<1>2. IsFiniteSet({date[s] : s \in rows})
  <2> HIDE DEF date
  <2> QED BY FiniteImage
<1>3. IsFiniteSet(dates) /\ dates # {}
  BY <1>1, <1>2
<1>4. dates \subseteq Int
  BY RowType
<1>5. \A s \in rows : s.date \in dates
  OBVIOUS
<1> HIDE DEF dates, date
<1>6. Max(dates) \in dates /\ \A d \in dates : d <= Max(dates)
  BY <1>3, <1>4, MaxMember
<1> QED BY <1>5, <1>6 DEF dates

\* The table starts out empty, with no date cached.
LEMMA InitTypeOK == Init => TypeOK
BY FS_EmptySet DEF Init, TypeOK

\* Rows come and go one by one, and the date is read off a row.
LEMMA NextTypeOK == TypeOK /\ [Next]_vars => TypeOK'
<1> SUFFICES ASSUME TypeOK, [Next]_vars PROVE TypeOK'
  OBVIOUS
<1>1. CASE ReadAnchor
  <2> DEFINE rows == {r \in sales : MarketSaleCriteria(r, FALSE, FALSE)}
  <2>1. LatestSaleDate = IF {s.date : s \in rows} = {} THEN NULL ELSE Max({s.date : s \in rows})
    BY DEF LatestSaleDate
  <2>2. rows \subseteq Sale /\ IsFiniteSet(rows)
    BY FS_Subset DEF TypeOK
  <2> HIDE DEF rows
  <2>3. LatestSaleDate \in Day \cup {NULL}
    <3>1. CASE rows = {}
      BY <2>1, <3>1
    <3>2. CASE rows # {}
      <4>1. Max({s.date : s \in rows}) \in {s.date : s \in rows}
        BY <2>2, <3>2, NewestDate
      <4> QED BY <2>1, <2>2, <4>1, RowType
    <3> QED BY <3>1, <3>2
  <2> QED BY <1>1, <2>3 DEF ReadAnchor, TypeOK
<1>2. ASSUME NEW s \in Sale, Store(s) PROVE TypeOK'
  <2>1. IsFiniteSet(sales \cup {s})
    BY FS_AddElement DEF TypeOK
  <2> QED BY <1>2, <2>1 DEF Store, TypeOK
<1>3. ASSUME NEW s \in Sale, Prune(s) PROVE TypeOK'
  <2>1. IsFiniteSet(sales \ {s})
    BY FS_RemoveElement DEF TypeOK
  <2> QED BY <1>3, <2>1 DEF Prune, TypeOK
<1>4. CASE UNCHANGED vars
  BY <1>4 DEF vars, TypeOK
<1> QED BY <1>1, <1>2, <1>3, <1>4 DEF Next

\* The table holds finitely many of the rows it may hold, and the cached date is
\* none or a day (cached_latest_sale_date).
THEOREM TableTypes == Spec => []TypeOK
BY InitTypeOK, NextTypeOK, PTL DEF Spec

-----------------------------------------------------------------------------
(* Criteria and filters.                                                    *)

\* Only foreclosures are let in by include_distress.
LEMMA DistressAddsForeclosures ==
    ASSUME NEW s
    PROVE  MarketSale(s, FALSE, FALSE) <=> MarketSale(s, FALSE, TRUE) /\ s.validity # Foreclosure
BY StatisticsAssumption DEF MarketSale, MarketSaleCriteria

\* A filter over all days leaves the parcels to decide.
LEMMA PassesAllDays ==
    ASSUME NEW parcels, NEW s \in Sale
    PROVE  Passes(WithParcels(parcels), s) <=> s.parcel \in parcels
<1>1. Min(Day) <= s.date /\ s.date <= Max(Day)
  <2>1. s.date \in Day /\ Day # {} /\ IsFiniteSet(Day) /\ Day \subseteq Int
    BY StatisticsAssumption
  <2>2. Min(Day) <= s.date
    BY <2>1, MinMember
  <2>3. s.date <= Max(Day)
    BY <2>1, MaxMember
  <2> QED BY <2>2, <2>3
<1> QED BY <1>1 DEF Passes, WithParcels, AllDays

\* The rows of the sales list over all days.
LEMMA Listing ==
    ASSUME TypeOK, NEW parcels
    PROVE  MarketSaleRows(WithParcels(parcels)) =
               {s \in sales : MarketSale(s, FALSE, FALSE) /\ SingleParcel(s) /\ s.parcel \in parcels}
BY PassesAllDays DEF MarketSaleRows, TypeOK

\* What it takes to be one of them.
LEMMA ListedSale ==
    ASSUME TypeOK, NEW parcels, NEW s
    PROVE  s \in MarketSaleRows(WithParcels(parcels)) <=>
               /\ s \in sales /\ MarketSale(s, FALSE, FALSE) /\ SingleParcel(s)
               /\ s.parcel \in parcels
BY Listing

-----------------------------------------------------------------------------
(* Flips.                                                                   *)

\* What is said of flips, of distressed sales and of stale parcels agrees.
LEMMA FlipsAgree == TypeOK => FlipsAreListedResales
<1> SUFFICES ASSUME TypeOK PROVE FlipsAreListedResales
  OBVIOUS
<1> DEFINE listed == MarketSaleRows(WithParcels(Parcel))
           Copied(s) == \E r \in sales : r # s /\ r.parcel = s.parcel /\ SameDeal(r, s)
           OddDeal(s) == \E r \in sales : /\ r.parcel # s.parcel /\ SameDeal(r, s)
                                          /\ ~ MarketSale(r, FALSE, TRUE)
           Between(b, s) == {r \in sales : r.parcel = b.parcel /\ b.date < r.date /\ r.date < s.date}
<1>1. \A s : s \in listed <=> s \in sales /\ MarketSale(s, FALSE, FALSE) /\ SingleParcel(s)
  BY Listing, RowType DEF TypeOK
<1>2. \A s : s \in FlipSides <=> /\ s \in sales /\ MarketSale(s, FALSE, TRUE)
                                 /\ \A r \in sales : MarketSale(r, FALSE, TRUE) /\ SameDeal(r, s) => r = s
  BY DEF FlipSides, Counted
<1>3. \A s \in sales : s.date \in Int /\ s.parcel \in Parcel /\ s \in Sale
  BY RowType DEF TypeOK
<1> HIDE DEF listed
<1>4. ASSUME NEW s \in listed PROVE s \in FlipSides \/ Copied(s)
  BY <1>1, <1>2, DistressAddsForeclosures DEF SingleParcel
<1>5. \A b, s \in listed : Resold(b, s) => <<b, s>> \in Flips \/ Copied(b) \/ Copied(s)
  BY <1>4 DEF Flips
<1>6. ASSUME NEW s \in FlipSides PROVE s \in listed \/ s.validity = Foreclosure \/ OddDeal(s)
  BY <1>1, <1>2, DistressAddsForeclosures DEF SingleParcel
<1>7. \A flip \in Flips : \A s \in {flip[1], flip[2]} :
          s \in listed \/ s.validity = Foreclosure \/ OddDeal(s)
  BY <1>6 DEF Flips
<1>8. ASSUME NEW flip \in Flips, flip[2].seller = flip[1].buyer, Between(flip[1], flip[2]) = {}
      PROVE  flip \in HoldPairs(flip[1].buyer)
  <2>1. PICK b \in FlipSides, s \in FlipSides : flip = <<b, s>> /\ Resold(b, s)
    BY DEF Flips
  <2>2. b \in Buys(b.buyer) /\ s \in Sells(b.buyer) /\ b.parcel = s.parcel /\ b.date < s.date
    BY <1>2, <1>8, <2>1 DEF Buys, Sells, Resold
  <2>3. \A c \in Buys(b.buyer) : c.parcel = s.parcel /\ c.date < s.date => c.date <= b.date
    BY <1>2, <1>3, <1>8, <2>1, <2>2 DEF Buys
  <2> QED BY <2>1, <2>2, <2>3 DEF HoldPairs
<1>9. \A s \in DistressedSales : s \in listed \/ s.validity = Foreclosure \/ ~ SingleParcel(s)
  BY <1>1, DistressAddsForeclosures DEF DistressedSales
<1>10. ASSUME NEW flip \in Flips, flip[1].parcel \in DOMAIN StaleParcels
       PROVE  Today - flip[2].date >= MinUnsold
  <2>1. PICK b \in FlipSides, s \in FlipSides : flip = <<b, s>> /\ Resold(b, s)
    BY DEF Flips
  <2> DEFINE rows == {r \in sales : r.parcel = b.parcel}
             last == Max({r.date : r \in rows})
  <2>2. s \in rows /\ rows \subseteq Sale /\ IsFiniteSet(rows)
    BY <1>2, <2>1, FS_Subset DEF Resold, TypeOK
  <2>3. Today - last >= MinUnsold
    BY <1>10, <2>1 DEF StaleParcels
  <2> HIDE DEF rows
  <2>4. last \in {r.date : r \in rows} /\ s.date <= last
    BY <2>2, NewestDate
  <2>5. last \in Int /\ s.date \in Int
    BY <2>2, <2>4, RowType
  <2> HIDE DEF last
  <2>6. Today \in Int /\ MinUnsold \in Int
    BY LegacyAssumption, ListingAssumption
  <2> QED BY <2>1, <2>3, <2>4, <2>5, <2>6
<1> QED BY <1>5, <1>7, <1>8, <1>9, <1>10 DEF FlipsAreListedResales, listed

\* Flips, distressed sales, stale parcels, the sales list and hold periods of the
\* owners' profiles agree, for every table and every parameter of the queries.
THEOREM FlipsListed == Spec => []FlipsAreListedResales
BY TableTypes, FlipsAgree, PTL

\* The sums of the model are those the lemmas above are about.
LEMMA SumOverIs == ASSUME NEW value PROVE SumOver(value) = SumOf(value, DOMAIN value)
BY DEF SumOver, SumOf

-----------------------------------------------------------------------------
(* Dwellings.                                                               *)

\* What is assumed of the dwellings of a parcel.
LEMMA CardType ==
    ASSUME NEW p \in Parcel
    PROVE  /\ IsFiniteSet(Dwelling[p])
           /\ \A c, d \in Dwelling[p] : c.card = d.card => c = d
           /\ \A c \in Dwelling[p] :
                /\ c.card \in Int /\ c.sqft \in Nat \cup {NULL} /\ c.beds \in Nat \cup {NULL}
                /\ c.full \in Nat \cup {NULL} /\ c.half \in Nat \cup {NULL}
                /\ c.year \in Nat \cup {NULL}
BY PagesAssumption

\* NULL is distinct from every value of a column.
LEMMA NullIsNoNumber == NULL \notin Int /\ NULL \notin Nat /\ NULL \notin Sale /\ NULL # 0
BY StatisticsAssumption

\* What SUM returns.
LEMMA SqlSumType ==
    ASSUME NEW cards, IsFiniteSet(cards), NEW field, \A c \in cards : c[field] \in Nat \cup {NULL}
    PROVE  SqlSum(cards, field) \in Nat \cup {NULL}
<1> DEFINE known == {c \in cards : c[field] # NULL}
           value == [c \in known |-> c[field]]
<1>1. SqlSum(cards, field) = IF known = {} THEN NULL ELSE SumOver(value)
  BY DEF SqlSum
<1>2. IsFiniteSet(known) /\ DOMAIN value = known /\ \A c \in known : value[c] \in Nat
  BY FS_Subset
<1> HIDE DEF known, value
<1>3. SumOver(value) \in Nat
  BY <1>2, SumOverIs, SumNat
<1> QED BY <1>1, <1>3

\* Sums in SQL leave the missing values out, Python counts them as 0.
LEMMA TotalIsSqlSum ==
    ASSUME NEW cards, IsFiniteSet(cards), NEW field, \A c \in cards : c[field] \in Nat \cup {NULL}
    PROVE  Total(cards, field) = Coalesce(SqlSum(cards, field))
<1> DEFINE known == {c \in cards : c[field] # NULL}
           rest == {c \in cards : c[field] = NULL}
           value == [c \in known |-> c[field]]
           each == [c \in cards |-> Coalesce(c[field])]
           zero == [c \in rest |-> 0]
<1>1. Total(cards, field) = SumOf(each, cards)
  BY SumOverIs DEF Total
<1>2. SqlSum(cards, field) = IF known = {} THEN NULL ELSE SumOf(value, known)
  <2>1. SumOver(value) = SumOf(value, known)
    BY SumOverIs
  <2> QED BY <2>1 DEF SqlSum
<1>3. IsFiniteSet(known) /\ IsFiniteSet(rest) /\ known \cap rest = {} /\ cards = known \cup rest
  BY FS_Subset
<1>4. \A c \in known : value[c] = each[c] /\ value[c] \in Nat
  BY DEF Coalesce
<1>5. \A c \in rest : each[c] = 0
  BY DEF Coalesce
<1>6. \A c \in known \cup rest : each[c] \in Int
  <2>1. \A c \in cards : Coalesce(c[field]) \in Int
    BY DEF Coalesce
  <2> QED BY <2>1
<1> HIDE DEF known, rest, value, each
<1>7. SumOf(each, cards) = SumOf(each, known) + SumOf(each, rest)
  BY <1>3, <1>6, SumUnion
<1>8. SumOf(each, known) = SumOf(value, known)
  BY <1>3, <1>4, SumSame
<1>9. SumOf(each, rest) = 0
  BY <1>3, <1>5, SumOfZeros
<1>10. SumOf(value, known) \in Nat
  BY <1>3, <1>4, SumNat
<1>11. SumOf(each, cards) = SumOf(value, known)
  BY <1>7, <1>8, <1>9, <1>10
<1>12. CASE known = {}
  BY <1>1, <1>2, <1>11, <1>12, SumEmpty DEF Coalesce
<1>13. CASE known # {}
  BY <1>1, <1>2, <1>10, <1>11, <1>13, NullIsNoNumber DEF Coalesce
<1> QED BY <1>12, <1>13

\* One dwelling ranks first, in the order of the query and by Python's key.
LEMMA OneRanksFirst ==
    ASSUME NEW cards, IsFiniteSet(cards), cards # {},
           \A c, d \in cards : c.card = d.card => c = d,
           \A c \in cards : c.card \in Int /\ c.sqft \in Nat \cup {NULL}
    PROVE  \E c \in cards :
              /\ \A d \in cards : \/ Coalesce(c.sqft) > Coalesce(d.sqft)
                                  \/ Coalesce(c.sqft) = Coalesce(d.sqft) /\ c.card <= d.card
              /\ FirstRanked(cards) = c /\ Primary(cards) = c
<1> DEFINE area == [c \in cards |-> Coalesce(c.sqft)]
           largest == {c \in cards : \A d \in cards : Coalesce(d.sqft) <= Coalesce(c.sqft)}
           minus == [c \in largest |-> -c.card]
           First(c) == \A d \in cards : \/ Coalesce(c.sqft) > Coalesce(d.sqft)
                                        \/ Coalesce(c.sqft) = Coalesce(d.sqft) /\ c.card <= d.card
<1>1. \A c \in cards : Coalesce(c.sqft) \in Int /\ c.card \in Int
  BY DEF Coalesce
<1>2. \E x \in cards : \A y \in cards : area[y] <= area[x]
  <2>1. \A x \in cards : area[x] \in Int
    BY <1>1
  <2> HIDE DEF area
  <2> QED BY <2>1, LargestValue
<1>3. largest # {} /\ IsFiniteSet(largest) /\ \A c \in largest : minus[c] \in Int
  <2>1. largest # {}
    BY <1>2
  <2>2. \A c \in largest : minus[c] \in Int
    BY <1>1
  <2> QED BY <2>1, <2>2, FS_Subset
<1>4. PICK c \in largest : \A d \in largest : minus[d] <= minus[c]
  <2> HIDE DEF largest, minus
  <2> QED BY <1>3, LargestValue
<1>5. \A d \in largest : -d.card <= -c.card /\ c.card <= d.card
  <2>1. \A d \in largest : -d.card <= -c.card
    BY <1>4
  <2>2. \A a, b \in Int : -a <= -b => b <= a
    OBVIOUS
  <2> QED BY <1>1, <2>1, <2>2
<1>6. c \in cards /\ First(c)
  BY <1>1, <1>5
<1>7. \A d \in cards : First(d) => d = c
  BY <1>1, <1>6
<1>8. \A d \in largest : (\A e \in largest : -e.card <= -d.card) => d = c
  BY <1>1, <1>5
<1>9. FirstRanked(cards) = c
  BY <1>6, <1>7 DEF FirstRanked
<1>10. Primary(cards) = c
  BY <1>4, <1>5, <1>8 DEF Primary
<1> QED BY <1>6, <1>9, <1>10

\* What the summary keeps of a parcel's dwellings.
LEMMA TotalsType ==
    ASSUME NEW p \in Parcel, NEW cards \in SUBSET Dwelling[p]
    PROVE  LET totals == DwellingTotals(cards)
           IN {totals.sqft, totals.beds, totals.baths, totals.year} \subseteq Nat \cup {NULL}
<1> DEFINE totals == DwellingTotals(cards)
<1>1. IsFiniteSet(cards)
  BY CardType, FS_Subset
<1>2. \A c \in cards : /\ c["sqft"] \in Nat \cup {NULL} /\ c["beds"] \in Nat \cup {NULL}
                       /\ c["full"] \in Nat \cup {NULL} /\ c["half"] \in Nat \cup {NULL}
  BY CardType
<1>3. SqlSum(cards, "sqft") \in Nat \cup {NULL}
  BY <1>1, <1>2, SqlSumType
<1>4. SqlSum(cards, "beds") \in Nat \cup {NULL}
  BY <1>1, <1>2, SqlSumType
<1>5. SqlSum(cards, "full") \in Nat \cup {NULL}
  BY <1>1, <1>2, SqlSumType
<1>6. SqlSum(cards, "half") \in Nat \cup {NULL}
  BY <1>1, <1>2, SqlSumType
<1>7. totals.baths \in Nat \cup {NULL}
  <2>1. Coalesce(SqlSum(cards, "full")) \in Nat /\ Coalesce(SqlSum(cards, "half")) \in Nat
    BY <1>5, <1>6 DEF Coalesce
  <2>2. \A a, b \in Nat : 2 * a + b \in Nat
    OBVIOUS
  <2> QED BY <2>1, <2>2 DEF DwellingTotals
<1>8. totals.year \in Nat \cup {NULL}
  <2>1. CASE cards = {}
    BY <2>1 DEF DwellingTotals
  <2>2. CASE cards # {}
    <3>1. FirstRanked(cards) \in cards
      BY <1>1, <2>2, CardType, OneRanksFirst
    <3> QED BY <2>2, <3>1, CardType DEF DwellingTotals
  <2> QED BY <2>1, <2>2
<1>9. totals.sqft \in Nat \cup {NULL} /\ totals.beds \in Nat \cup {NULL}
  BY <1>3, <1>4 DEF DwellingTotals
<1> QED BY <1>7, <1>8, <1>9

\* What the pages of a parcel say of its dwellings.
LEMMA DwellingsTold == DwellingsAgree
<1> SUFFICES ASSUME NEW p \in Parcel, NEW cards \in (SUBSET Dwelling[p]) \ {{}}
             PROVE  LET totals == DwellingTotals(cards)
                        facts == Facts(cards)
                    IN /\ facts.sqft = NonZero(totals.sqft) /\ facts.beds = NonZero(totals.beds)
                       /\ totals.baths = NULL \/ totals.baths = facts.baths
                       /\ totals.baths = NULL => facts.sqft = NULL
                       /\ totals.year = facts.year
                       /\ facts.year # NULL => BuiltYear(cards) = facts.year
  BY DEF DwellingsAgree
<1> DEFINE totals == DwellingTotals(cards)
           facts == Facts(cards)
<1>1. IsFiniteSet(cards) /\ cards # {}
  BY CardType, FS_Subset
<1>2. \A c \in cards : /\ c["sqft"] \in Nat \cup {NULL} /\ c["beds"] \in Nat \cup {NULL}
                       /\ c["full"] \in Nat \cup {NULL} /\ c["half"] \in Nat \cup {NULL}
  BY CardType
<1>3. \A v \in Nat \cup {NULL} : NonZero(Coalesce(v)) = NonZero(v)
  BY NullIsNoNumber DEF NonZero, Coalesce
<1>4. facts.sqft = NonZero(totals.sqft)
  <2>1. Total(cards, "sqft") = Coalesce(SqlSum(cards, "sqft"))
    BY <1>1, <1>2, TotalIsSqlSum
  <2>2. SqlSum(cards, "sqft") \in Nat \cup {NULL}
    BY <1>1, <1>2, SqlSumType
  <2> QED BY <1>3, <2>1, <2>2 DEF Facts, DwellingTotals
<1>5. facts.beds = NonZero(totals.beds)
  <2>1. Total(cards, "beds") = Coalesce(SqlSum(cards, "beds"))
    BY <1>1, <1>2, TotalIsSqlSum
  <2>2. SqlSum(cards, "beds") \in Nat \cup {NULL}
    BY <1>1, <1>2, SqlSumType
  <2> QED BY <1>3, <2>1, <2>2 DEF Facts, DwellingTotals
<1>6. facts.baths = 2 * Coalesce(SqlSum(cards, "full")) + Coalesce(SqlSum(cards, "half"))
  <2>1. Total(cards, "full") = Coalesce(SqlSum(cards, "full"))
    BY <1>1, <1>2, TotalIsSqlSum
  <2>2. Total(cards, "half") = Coalesce(SqlSum(cards, "half"))
    BY <1>1, <1>2, TotalIsSqlSum
  <2> QED BY <2>1, <2>2 DEF Facts
<1>7. totals.baths = NULL \/ totals.baths = facts.baths
  BY <1>6 DEF DwellingTotals
<1>8. totals.baths = NULL => facts.sqft = NULL
  <2>1. SqlSum(cards, "full") \in Nat \cup {NULL} /\ SqlSum(cards, "half") \in Nat \cup {NULL}
    BY <1>1, <1>2, SqlSumType
  <2>2. Coalesce(SqlSum(cards, "full")) \in Nat /\ Coalesce(SqlSum(cards, "half")) \in Nat
    BY <2>1 DEF Coalesce
  <2>3. \A a, b \in Nat : 2 * a + b \in Nat
    OBVIOUS
  <2>4. facts.baths # NULL
    BY <1>6, <2>2, <2>3, NullIsNoNumber
  <2>5. totals.baths = NULL => totals.sqft = NULL
    BY <1>6, <2>4 DEF DwellingTotals
  <2> QED BY <1>4, <2>5, NullIsNoNumber DEF NonZero
<1>9. PICK c \in cards :
          /\ \A d \in cards : \/ Coalesce(c.sqft) > Coalesce(d.sqft)
                              \/ Coalesce(c.sqft) = Coalesce(d.sqft) /\ c.card <= d.card
          /\ FirstRanked(cards) = c /\ Primary(cards) = c
  BY <1>1, CardType, OneRanksFirst
<1>10. totals.year = facts.year /\ facts.year = c.year
  BY <1>1, <1>9 DEF DwellingTotals, Facts
<1>11. facts.year # NULL => BuiltYear(cards) = facts.year
  <2> SUFFICES ASSUME facts.year # NULL PROVE BuiltYear(cards) = facts.year
    OBVIOUS
  <2> DEFINE dated == {d \in cards : d.year # NULL}
  <2>1. IsFiniteSet(dated) /\ dated \subseteq cards /\ c \in dated
    BY <1>1, <1>10, FS_Subset
  <2>2. BuiltYear(cards) = FirstRanked(dated).year
    BY <2>1 DEF BuiltYear
  <2> HIDE DEF dated
  <2>3. PICK d \in dated :
            /\ \A e \in dated : \/ Coalesce(d.sqft) > Coalesce(e.sqft)
                                \/ Coalesce(d.sqft) = Coalesce(e.sqft) /\ d.card <= e.card
            /\ FirstRanked(dated) = d
    <3>1. \A x, y \in dated : x.card = y.card => x = y
      BY <2>1, CardType
    <3>2. \A x \in dated : x.card \in Int /\ x.sqft \in Nat \cup {NULL}
      BY <2>1, CardType
    <3>3. dated # {}
      BY <2>1
    <3> QED BY <2>1, <3>1, <3>2, <3>3, OneRanksFirst
  <2>4. \A x \in {c, d} : Coalesce(x.sqft) \in Int /\ x.card \in Int
    BY <2>1, CardType DEF Coalesce
  <2>5. c.card = d.card
    BY <1>9, <2>1, <2>3, <2>4
  <2> QED BY <1>10, <2>1, <2>2, <2>3, <2>5, CardType
<1> QED BY <1>4, <1>5, <1>7, <1>8, <1>10, <1>11

-----------------------------------------------------------------------------
(* The last sale of a parcel.                                               *)

\* The last sale of the summary is the newest of the sales it ranks.
LEMMA LastSaleIsNewest ==
    ASSUME TypeOK, NEW p
    PROVE  /\ SummarySales(p) = {} <=> LastSale(p) = NULL
           /\ LastSale(p) # NULL => /\ LastSale(p) \in SummarySales(p)
                                    /\ LastSale(p) \in sales
                                    /\ \A s \in SummarySales(p) : s.date <= LastSale(p).date
<1> DEFINE rows == SummarySales(p)
           last == Max({s.date : s \in rows})
           onLast == {s \in rows : s.date = last}
           id == [s \in onLast |-> s.id]
<1>1. rows \subseteq sales /\ rows \subseteq Sale /\ IsFiniteSet(rows)
  BY FS_Subset DEF SummarySales, Counted, TypeOK
<1>2. CASE rows = {}
  BY <1>2 DEF LastSale
<1>3. CASE rows # {}
  <2> HIDE DEF rows
  <2>1. last \in {s.date : s \in rows} /\ \A s \in rows : s.date <= last
    BY <1>1, <1>3, NewestDate
  <2> HIDE DEF last
  <2>2. onLast # {} /\ IsFiniteSet(onLast)
    BY <1>1, <2>1, FS_Subset
  <2>3. \A s \in rows : s.date \in Int /\ s.id \in Int /\ s # NULL
    BY <1>1, RowType, NullIsNoNumber
  <2>4. \A s \in onLast : id[s] \in Int
    BY <2>3
  <2>5. PICK s \in onLast : \A r \in onLast : id[r] <= id[s]
    <3> HIDE DEF onLast, id
    <3> QED BY <2>2, <2>4, LargestValue
  <2>6. s \in rows /\ \A r \in rows : r.date < s.date \/ (r.date = s.date /\ r.id <= s.id)
    <3>1. s \in rows /\ s.date = last /\ \A r \in rows : r.date = last => r.id <= s.id
      BY <2>5
    <3> QED BY <2>1, <2>3, <3>1
  <2>7. LastSale(p) \in rows /\ \A r \in rows : r.date < LastSale(p).date \/
                                    (r.date = LastSale(p).date /\ r.id <= LastSale(p).id)
    BY <1>3, <2>6 DEF LastSale, rows
  <2>8. \A r \in rows : r.date <= LastSale(p).date
    BY <2>3, <2>7
  <2> QED BY <1>1, <1>3, <2>3, <2>7, <2>8 DEF rows
<1> QED BY <1>2, <1>3

\* A listed sale is one of the summary's, unless it is there twice.
LEMMA ListedInSummary ==
    ASSUME TypeOK, NEW parcels, NEW s \in MarketSaleRows(WithParcels(parcels))
    PROVE  \/ s \in SummarySales(s.parcel)
           \/ \E r \in sales : r # s /\ r.parcel = s.parcel /\ SameDeal(r, s)
<1>1. s \in sales /\ MarketSale(s, FALSE, FALSE) /\ SingleParcel(s)
  BY ListedSale
<1> QED BY <1>1 DEF SummarySales, Counted, SingleParcel

\* What is said of a parcel agrees.
LEMMA PagesAgree == TypeOK => PageAgreesWithSummary
<1> SUFFICES ASSUME TypeOK, NEW p \in Parcel
             PROVE  LET last == LastSale(p)
                        Copied(s) == \E r \in sales : r # s /\ r.parcel = p /\ SameDeal(r, s)
                    IN /\ last # NULL => [sale |-> last, title |-> "Sold"] \in SaleEvents(p)
                       /\ \A s \in MarketSaleRows(WithParcels({p})) :
                             Copied(s) \/ (last # NULL /\ s.date <= last.date)
  BY DwellingsTold DEF PageAgreesWithSummary
<1> DEFINE last == LastSale(p)
           Copied(s) == \E r \in sales : r # s /\ r.parcel = p /\ SameDeal(r, s)
<1>1. ASSUME last # NULL PROVE [sale |-> last, title |-> "Sold"] \in SaleEvents(p)
  <2>1. last \in sales /\ MarketSale(last, FALSE, FALSE) /\ last.parcel = p
    BY <1>1, LastSaleIsNewest DEF SummarySales, Counted
  <2>2. MarketSale(last, TRUE, FALSE)
    BY <2>1 DEF MarketSale, MarketSaleCriteria
  <2> QED BY <2>1, <2>2 DEF SaleEvents
<1>2. ASSUME NEW s \in MarketSaleRows(WithParcels({p}))
      PROVE  Copied(s) \/ (last # NULL /\ s.date <= last.date)
  <2>1. s.parcel = p
    <3> DEFINE one == {p}
    <3>1. s \in MarketSaleRows(WithParcels(one))
      OBVIOUS
    <3> HIDE DEF one
    <3>2. s.parcel \in one
      BY <3>1, ListedSale
    <3> QED BY <3>2 DEF one
  <2>2. Copied(s) \/ s \in SummarySales(p)
    BY <2>1, ListedInSummary
  <2> QED BY <2>2, LastSaleIsNewest
<1> QED BY <1>1, <1>2

\* The pages of a parcel agree: summary, profile and timeline on its dwellings,
\* whatever the county left empty, and on its last sale.
THEOREM DwellingsAndLastSaleAgree == Spec => []PageAgreesWithSummary
BY TableTypes, PagesAgree, PTL

-----------------------------------------------------------------------------
(* Comparable sales.                                                        *)

\* A product by a natural number keeps the order.
LEMMA ProductOrdered ==
    ASSUME NEW t \in Nat, NEW a \in Int, NEW b \in Int, a <= b
    PROVE  t * a <= t * b
OBVIOUS

\* What the integer quotient leaves over.
LEMMA Quotient ==
    ASSUME NEW t \in Nat \ {0}, NEW a \in Int
    PROVE  /\ a \div t \in Int
           /\ t * (a \div t) <= a /\ a < t * (a \div t) + t
OBVIOUS

\* Numbers that are t apart have different quotients by t.
LEMMA QuotientsApart ==
    ASSUME NEW t \in Nat \ {0}, NEW a \in Int, NEW b \in Int, b + t <= a
    PROVE  b \div t < a \div t
<1> DEFINE x == a \div t
           y == b \div t
<1>1. x \in Int /\ y \in Int /\ a < t * x + t /\ t * y <= b
  BY Quotient
<1> SUFFICES ASSUME x <= y PROVE FALSE
  BY <1>1
<1> HIDE DEF x, y
<1>2. t * x <= t * y
  BY <1>1, ProductOrdered
<1>3. t * x \in Int /\ t * y \in Int
  BY <1>1
<1> DEFINE tx == t * x
           ty == t * y
<1>4. tx \in Int /\ ty \in Int /\ tx <= ty /\ a < tx + t /\ ty <= b
  BY <1>1, <1>2, <1>3
<1> HIDE DEF tx, ty
<1> QED BY <1>4

\* The distance of two numbers, 0 where one is missing.
LEMMA GapType == ASSUME NEW a \in Nat \cup {NULL}, NEW b \in Nat \cup {NULL} PROVE Gap(a, b) \in Nat
BY DEF Gap

\* The newer of two sales of one home has the lower penalty, if it is newer by
\* more than the rounding of scores hides.
LEMMA NewerIsCloser ==
    ASSUME NEW p \in Parcel, HasHome(p), NEW s \in Sale, NEW r \in Sale, s.parcel = r.parcel,
           anchor \in Day \cup {NULL}, ByRadius(p) => Miles[p][s.parcel] \in Nat,
           Weight.day * (r.date - s.date) >= Weight.tenth
    PROVE  /\ Penalty(p, r) < Penalty(p, s)
           /\ Penalty(p, r) \in Int /\ Penalty(p, s) \in Int
<1> DEFINE home == Home(p)
           other == Home(s.parcel)
           size == Weight.sqft * ((100 * Gap(home.sqft, other.sqft)) \div home.sqft)
           age == Weight.year * Gap(home.year, other.year)
           rooms == Weight.room * (2 * Gap(home.beds, other.beds) + Gap(home.baths, other.baths))
           newest == Since + 2 * Year
           miles == IF ByRadius(p) THEN Weight.mile * Miles[p][s.parcel] ELSE 0
           Points(date) == size + age + rooms + Weight.day * (Since + 2 * Year - date) + miles
           half == Weight.tenth \div 2
<1>1. Penalty(p, s) = (Points(s.date) + half) \div Weight.tenth
  BY DEF Penalty
<1>2. Penalty(p, r) = (Points(r.date) + half) \div Weight.tenth
  BY DEF Penalty
<1>3. /\ Weight.sqft \in Nat /\ Weight.year \in Nat /\ Weight.room \in Nat /\ Weight.day \in Nat
      /\ Weight.mile \in Nat /\ Weight.tenth \in Nat \ {0}
  BY ComparablesAssumption
<1>4. s.date \in Int /\ r.date \in Int /\ s.parcel \in Parcel
  BY RowType
<1>5. ASSUME NEW q \in Parcel
      PROVE  /\ Home(q).sqft \in Nat \cup {NULL} /\ Home(q).beds \in Nat \cup {NULL}
             /\ Home(q).baths \in Nat \cup {NULL} /\ Home(q).year \in Nat \cup {NULL}
  <2>1. Dwelling[q] \in SUBSET Dwelling[q]
    OBVIOUS
  <2> QED BY <2>1, TotalsType DEF Home
<1>6. home.sqft \in Nat \ {0}
  BY <1>5, PagesAssumption DEF HasHome, Home
<1> HIDE DEF home, other
<1>7. /\ Gap(home.sqft, other.sqft) \in Nat /\ Gap(home.year, other.year) \in Nat
      /\ Gap(home.beds, other.beds) \in Nat /\ Gap(home.baths, other.baths) \in Nat
  BY <1>4, <1>5, GapType DEF home, other
<1>8. size \in Int
  <2>1. 100 * Gap(home.sqft, other.sqft) \in Int
    BY <1>7
  <2>2. (100 * Gap(home.sqft, other.sqft)) \div home.sqft \in Int
    BY <1>6, <2>1, Quotient
  <2> QED BY <1>3, <2>2
<1>9. age \in Int
  BY <1>3, <1>7
<1>10. rooms \in Int
  BY <1>3, <1>7
<1>11. newest \in Int /\ Since \in Int /\ Year \in Int
  <2>1. Since \in Int
    BY StatisticsAssumption, LegacyAssumption DEF Since
  <2> QED BY <2>1, StatisticsAssumption
<1>12. miles \in Int
  BY <1>3
<1>13. half \in Int
  BY <1>3
<1> HIDE DEF size, age, rooms, newest, miles, half
<1> DEFINE d == Weight.day
           ts == Since + 2 * Year - s.date
           tr == Since + 2 * Year - r.date
           ps == d * ts
           pr == d * tr
           gain == d * (r.date - s.date)
<1>19. ts = newest - s.date /\ tr = newest - r.date
  BY <1>4, <1>11 DEF newest
<1>14. ps \in Int /\ pr \in Int /\ gain \in Int
  <2> HIDE DEF ts, tr
  <2> QED BY <1>3, <1>4, <1>11, <1>19
<1>15. ps = pr + gain
  <2>1. d \in Int
    BY <1>3
  <2> HIDE DEF d
  <2>2. d * (newest - s.date) = d * (newest - r.date) + d * (r.date - s.date)
    BY <1>4, <1>11, <2>1
  <2> HIDE DEF ts, tr
  <2> QED BY <1>19, <2>2
<1>16. Weight.tenth <= gain
  BY <1>3, <1>14
<1>17. Points(s.date) = size + age + rooms + ps + miles /\ Points(r.date) = size + age + rooms + pr + miles
  OBVIOUS
<1> HIDE DEF ps, pr, gain, Points
<1>18. /\ Points(s.date) + half \in Int /\ Points(r.date) + half \in Int
       /\ (Points(r.date) + half) + Weight.tenth <= Points(s.date) + half
  BY <1>3, <1>8, <1>9, <1>10, <1>12, <1>13, <1>14, <1>15, <1>16, <1>17
<1> QED BY <1>1, <1>2, <1>3, <1>18, Quotient, QuotientsApart

\* Homes of about the size that match.
AlikeHome(p, q) ==
    /\ HasHome(q) /\ 100 * Gap(Area[q], Area[p]) <= SqftTolerance * Area[p]
    /\ Matches(Home(p), Home(q))

\* What is found for a parcel.
LEMMA FoundSale ==
    ASSUME TypeOK, NEW p \in Parcel, NEW s
    PROVE  s \in Found(p) <=>
              /\ s \in sales /\ s \in Sale /\ MarketSale(s, FALSE, FALSE) /\ SingleParcel(s)
              /\ s.parcel \in Parcel \ {p}
              /\ IF ByRadius(p) THEN Miles[p][s.parcel] # NULL /\ Miles[p][s.parcel] <= Radius
                 ELSE Hood[s.parcel] = Hood[p]
              /\ s.date >= Since /\ AlikeHome(p, s.parcel)
<1> DEFINE near == {q \in Parcel : Miles[p][q] # NULL /\ Miles[p][q] <= Radius}
           hood == {q \in Parcel : Hood[q] = Hood[p]}
<1>1. ASSUME NEW parcels
      PROVE  s \in Candidates(p, parcels) <=>
                /\ s \in sales /\ MarketSale(s, FALSE, FALSE) /\ SingleParcel(s)
                /\ s.parcel \in parcels \ {p}
                /\ s.date >= Since /\ AlikeHome(p, s.parcel)
  <2> DEFINE others == parcels \ {p}
  <2>1. s \in MarketSaleRows(WithParcels(others)) <=>
            s \in sales /\ MarketSale(s, FALSE, FALSE) /\ SingleParcel(s) /\ s.parcel \in others
    <3> HIDE DEF others
    <3> QED BY ListedSale
  <2> QED BY <2>1 DEF Candidates, AlikeHome
<1>2. s \in sales => s \in Sale /\ s.parcel \in Parcel
  BY RowType DEF TypeOK
<1>3. Found(p) = IF ByRadius(p) THEN Candidates(p, near) ELSE Candidates(p, hood)
  BY DEF Found, WithinRadius, InNeighborhood
<1>4. s.parcel \in Parcel => /\ s.parcel \in near <=> Miles[p][s.parcel] # NULL /\ Miles[p][s.parcel] <= Radius
                             /\ s.parcel \in hood <=> Hood[s.parcel] = Hood[p]
  OBVIOUS
<1> HIDE DEF near, hood
<1>5. CASE ByRadius(p)
  <2>1. s \in Candidates(p, near) <=>
            /\ s \in sales /\ MarketSale(s, FALSE, FALSE) /\ SingleParcel(s)
            /\ s.parcel \in near \ {p} /\ s.date >= Since /\ AlikeHome(p, s.parcel)
    BY <1>1
  <2> QED BY <1>2, <1>3, <1>4, <1>5, <2>1
<1>6. CASE ~ByRadius(p)
  <2>1. s \in Candidates(p, hood) <=>
            /\ s \in sales /\ MarketSale(s, FALSE, FALSE) /\ SingleParcel(s)
            /\ s.parcel \in hood \ {p} /\ s.date >= Since /\ AlikeHome(p, s.parcel)
    BY <1>1
  <2> QED BY <1>2, <1>3, <1>4, <1>6, <2>1
<1> QED BY <1>5, <1>6

\* What is shown as comparable to a parcel.
LEMMA CompsClosest == TypeOK => CompsAreClosest
<1> SUFFICES ASSUME TypeOK, NEW p \in Parcel, HasHome(p), NEW L \in Listed(p, Limit), NEW s \in L
             PROVE  /\ s \in MarketSaleRows(WithParcels(Parcel \ {p}))
                    /\ \/ Hood[s.parcel] = Hood[p]
                       \/ Miles[p][s.parcel] # NULL /\ Miles[p][s.parcel] <= Radius
                    /\ \A r \in MarketSaleRows(WithParcels({s.parcel})) :
                          Weight.day * (r.date - s.date) >= Weight.tenth => r \in L
  BY DEF CompsAreClosest
<1>1. s \in Found(p)
  BY DEF Listed
<1>2. s \in MarketSaleRows(WithParcels(Parcel \ {p}))
  <2> DEFINE others == Parcel \ {p}
  <2>1. /\ s \in sales /\ MarketSale(s, FALSE, FALSE) /\ SingleParcel(s)
        /\ s.parcel \in others
    BY <1>1, FoundSale
  <2> HIDE DEF others
  <2>2. s \in MarketSaleRows(WithParcels(others))
    BY <2>1, ListedSale
  <2> QED BY <2>2 DEF others
<1>3. Hood[s.parcel] = Hood[p] \/ (Miles[p][s.parcel] # NULL /\ Miles[p][s.parcel] <= Radius)
  BY <1>1, FoundSale
<1>4. ASSUME NEW r \in MarketSaleRows(WithParcels({s.parcel})),
             Weight.day * (r.date - s.date) >= Weight.tenth
      PROVE  r \in L
  <2>1. r \in sales /\ MarketSale(r, FALSE, FALSE) /\ SingleParcel(r) /\ r.parcel = s.parcel
    <3> DEFINE one == {s.parcel}
    <3>1. r \in MarketSaleRows(WithParcels(one))
      OBVIOUS
    <3> HIDE DEF one
    <3>2. r \in sales /\ MarketSale(r, FALSE, FALSE) /\ SingleParcel(r) /\ r.parcel \in one
      BY <3>1, ListedSale
    <3> QED BY <3>2 DEF one
  <2>2. r \in Sale /\ s \in Sale
    BY <1>1, <2>1, FoundSale DEF TypeOK
  <2>3. Penalty(p, r) < Penalty(p, s) /\ Penalty(p, r) \in Int /\ Penalty(p, s) \in Int
    <3>1. ByRadius(p) => Miles[p][s.parcel] \in Nat
      <4>1. Miles[p] \in [Parcel -> Nat \cup {NULL}] /\ s.parcel \in Parcel
        BY <1>1, FoundSale, ComparablesAssumption
      <4>2. ByRadius(p) => Miles[p][s.parcel] # NULL
        BY <1>1, FoundSale
      <4> QED BY <4>1, <4>2
    <3> QED BY <1>4, <2>1, <2>2, <3>1, NewerIsCloser DEF TypeOK
  <2>4. Since \in Int /\ s.date \in Int /\ r.date \in Int /\ Weight.day \in Nat /\ Weight.tenth \in Nat \ {0}
    <3>1. Since \in Int
      BY StatisticsAssumption, LegacyAssumption DEF Since, TypeOK
    <3> QED BY <2>2, <3>1, RowType, ComparablesAssumption
  <2>5. s.date < r.date
    <3> SUFFICES ASSUME r.date <= s.date PROVE FALSE
      BY <2>4
    <3>1. r.date - s.date \in Int /\ r.date - s.date <= 0
      BY <2>4
    <3>2. Weight.day * (r.date - s.date) <= Weight.day * 0
      BY <2>4, <3>1, ProductOrdered
    <3> DEFINE gain == Weight.day * (r.date - s.date)
    <3>3. gain \in Int /\ gain <= 0
      BY <2>4, <3>1, <3>2
    <3>4. gain >= Weight.tenth
      BY <1>4
    <3> HIDE DEF gain
    <3> QED BY <2>4, <3>3, <3>4
  <2>6. r \in Found(p)
    <3>1. s.date >= Since
      BY <1>1, FoundSale
    <3>2. r.date >= Since
      BY <2>4, <2>5, <3>1
    <3> QED BY <1>1, <2>1, <2>2, <3>2, FoundSale
  <2> QED BY <2>3, <2>6 DEF Listed
<1> QED BY <1>2, <1>3, <1>4

\* The comparables shown for a parcel are listed sales of other parcels nearby,
\* and no newer sale of a home that is shown is passed over.
THEOREM ComparablesClosest == Spec => []CompsAreClosest
BY TableTypes, CompsClosest, PTL

-----------------------------------------------------------------------------
(* Windows of the summary.                                                  *)

PriceOf == [s \in Sale |-> s.price]

\* A volume is a sum of prices.
LEMMA VolumeIs ==
    ASSUME NEW rows, rows \subseteq Sale, IsFiniteSet(rows)
    PROVE  Volume(rows) = SumOf(PriceOf, rows) /\ Volume(rows) \in Nat
<1> DEFINE price == [s \in rows |-> s.price]
<1>1. Volume(rows) = SumOf(price, rows)
  <2>1. SumOver(price) = SumOf(price, DOMAIN price)
    <3> HIDE DEF price
    <3> QED BY SumOverIs
  <2> QED BY <2>1 DEF Volume, Price
<1>2. \A s \in rows : price[s] = PriceOf[s] /\ PriceOf[s] \in Nat
  BY RowType DEF PriceOf
<1> HIDE DEF price
<1>3. SumOf(price, rows) = SumOf(PriceOf, rows)
  BY <1>2, SumSame
<1>4. SumOf(PriceOf, rows) \in Nat
  BY <1>2, SumNat
<1> QED BY <1>1, <1>3, <1>4

\* A window of days cuts no deal in two: its buckets are the sales that the
\* buckets of all days have in it.
LEMMA WindowRows ==
    ASSUME TypeOK, NEW parcels, NEW from \in Int, NEW to \in Int,
           NEW g, g.from = from, g.to = to, g.parcels = parcels
    PROVE  BucketRows(g) = {s \in BucketRows(WithParcels(parcels)) : from <= s.date /\ s.date <= to}
<1> DEFINE f == WithParcels(parcels)
<1>3. \A s \in sales : Passes(f, s) <=> s.parcel \in parcels
  BY PassesAllDays DEF TypeOK, f
<1>4. \A s : Passes(g, s) <=> s.parcel \in parcels /\ from <= s.date /\ s.date <= to
  BY DEF Passes
<1> DEFINE all == {s \in sales : MarketSale(s, FALSE, FALSE) /\ Passes(f, s)}
           some == {s \in sales : MarketSale(s, FALSE, FALSE) /\ Passes(g, s)}
<1>5. \A s : s \in some <=> s \in all /\ from <= s.date /\ s.date <= to
  BY <1>3, <1>4
<1> HIDE DEF all, some
<1>6. Counted(some) = {s \in Counted(all) : from <= s.date /\ s.date <= to}
  BY <1>5 DEF Counted, SameDeal
<1> QED BY <1>6 DEF BucketRows, all, some, f

\* The windows tile two years.
LEMMA WindowsTiled == TypeOK => WindowsTile
<1> SUFFICES ASSUME TypeOK, NEW parcels \in SUBSET Parcel, anchor # NULL
             PROVE  LET f == WithParcels(parcels)
                        both == {s \in BucketRows(f) : anchor - 2 * Year < s.date /\ s.date <= anchor}
                        m == Summary(f)
                    IN /\ m.current.count + m.prior.count = Cardinality(both)
                       /\ m.current.volume + m.prior.volume = Volume(both)
  BY DEF WindowsTile
<1> DEFINE f == WithParcels(parcels)
           Window(from, to) == BucketRows([f EXCEPT !.from = from, !.to = to])
           rows == BucketRows(f)
           both == {s \in rows : anchor - 2 * Year < s.date /\ s.date <= anchor}
           late == {s \in rows : anchor - (Year - 1) <= s.date /\ s.date <= anchor}
           early == {s \in rows : PriorEnd - (Year - 1) <= s.date /\ s.date <= PriorEnd}
           m == Summary(f)
<1>1. /\ m.current = Stats(Window(anchor - (Year - 1), anchor))
      /\ m.prior = Stats(Window(PriorEnd - (Year - 1), PriorEnd))
  BY DEF Summary
<1>2. anchor \in Int /\ Year \in Int /\ PriorEnd \in Int /\ PriorEnd = anchor - Year
  <2>1. anchor \in Int /\ Year \in Int
    BY StatisticsAssumption DEF TypeOK
  <2> QED BY <2>1 DEF PriorEnd
<1>12. ASSUME NEW from \in Int, NEW to \in Int
       PROVE  Window(from, to) = {s \in rows : from <= s.date /\ s.date <= to}
  <2> DEFINE g == [f EXCEPT !.from = from, !.to = to]
  <2>1. DOMAIN f = {"from", "to", "parcels"} /\ f.parcels = parcels
    BY DEF WithParcels
  <2> HIDE DEF f
  <2>2. g.from = from /\ g.to = to /\ g.parcels = parcels
    BY <2>1
  <2> HIDE DEF g
  <2>3. BucketRows(g) = {s \in BucketRows(WithParcels(parcels)) : from <= s.date /\ s.date <= to}
    BY <2>2, WindowRows
  <2> QED BY <2>3 DEF f, g
<1>3. Window(anchor - (Year - 1), anchor) = late
  <2> DEFINE from == anchor - (Year - 1)
  <2>1. from \in Int
    BY <1>2
  <2> HIDE DEF from, Window
  <2>2. Window(from, anchor) = {s \in rows : from <= s.date /\ s.date <= anchor}
    BY <1>2, <1>12, <2>1
  <2> QED BY <2>2 DEF from
<1>4. Window(PriorEnd - (Year - 1), PriorEnd) = early
  <2> DEFINE from == PriorEnd - (Year - 1)
  <2>1. from \in Int
    BY <1>2
  <2> HIDE DEF from, Window
  <2>2. Window(from, PriorEnd) = {s \in rows : from <= s.date /\ s.date <= PriorEnd}
    BY <1>2, <1>12, <2>1
  <2> QED BY <2>2 DEF from
<1>5. rows \subseteq sales /\ rows \subseteq Sale /\ IsFiniteSet(rows)
  BY FS_Subset DEF BucketRows, Counted, TypeOK
<1> HIDE DEF f, rows, Window
<1>6. \A s \in rows : s.date \in Int
  BY <1>5, RowType
<1>7. both = late \cup early /\ late \cap early = {}
  BY <1>2, <1>6
<1>8. /\ IsFiniteSet(both) /\ IsFiniteSet(late) /\ IsFiniteSet(early)
      /\ both \subseteq Sale /\ late \subseteq Sale /\ early \subseteq Sale
  BY <1>5, FS_Subset
<1> HIDE DEF both, late, early
<1>9. Cardinality(both) = Cardinality(late) + Cardinality(early)
  BY <1>7, <1>8, CountUnion
<1>10. Volume(both) = Volume(late) + Volume(early)
  <2>1. \A s \in late \cup early : PriceOf[s] \in Int
    BY <1>8, RowType DEF PriceOf
  <2>2. SumOf(PriceOf, late \cup early) = SumOf(PriceOf, late) + SumOf(PriceOf, early)
    BY <1>7, <1>8, <2>1, SumUnion
  <2>3. Volume(both) = SumOf(PriceOf, both)
    BY <1>8, VolumeIs
  <2> QED BY <1>7, <1>8, <2>2, <2>3, VolumeIs
<1>11. /\ m.current.count = Cardinality(late) /\ m.current.volume = Volume(late)
       /\ m.prior.count = Cardinality(early) /\ m.prior.volume = Volume(early)
  BY <1>1, <1>3, <1>4 DEF Stats
<1> QED BY <1>9, <1>10, <1>11 DEF both, rows, f

\* The two windows of the summary are adjacent years, and count between them what
\* the totals count in those days.
THEOREM WindowsAdjacent == Spec => []WindowsTile
BY TableTypes, WindowsTiled, PTL

-----------------------------------------------------------------------------
(* Deals of an owner: the pairs of day and price that rows came with.       *)

DealOf == [s \in Sale |-> <<s.date, s.price>>]
PriceOfDeal == [deal \in Day \X Nat |-> deal[2]]

DealsOf(rows) == {<<s.date, s.price>> : s \in rows}

\* The deals of finitely many rows are finitely many days and prices.
LEMMA DealsType ==
    ASSUME NEW rows, rows \subseteq Sale, IsFiniteSet(rows)
    PROVE  /\ DealsOf(rows) \subseteq Day \X Nat /\ IsFiniteSet(DealsOf(rows))
           /\ \A s \in rows : DealOf[s] \in DealsOf(rows) /\ DealOf[s] = <<s.date, s.price>>
           /\ \A d \in DealsOf(rows) : PriceOfDeal[d] = d[2] /\ d[2] \in Nat /\ d[1] \in Int
<1>1. DealsOf(rows) = {DealOf[s] : s \in rows}
  BY DEF DealsOf, DealOf
<1>2. IsFiniteSet({DealOf[s] : s \in rows})
  BY FiniteImage
<1>3. DealsOf(rows) \subseteq Day \X Nat
  BY RowType DEF DealsOf
<1>4. \A d \in DealsOf(rows) : PriceOfDeal[d] = d[2] /\ d[2] \in Nat
  BY <1>3 DEF PriceOfDeal
<1>5. \A d \in DealsOf(rows) : d[1] \in Int
  BY RowType DEF DealsOf
<1>6. \A s \in rows : DealOf[s] \in DealsOf(rows) /\ DealOf[s] = <<s.date, s.price>>
  BY DEF DealsOf, DealOf
<1> QED BY <1>1, <1>2, <1>3, <1>4, <1>5, <1>6

\* The money of rows is the sum over their deals.
LEMMA MoneyIs ==
    ASSUME NEW rows, rows \subseteq Sale, IsFiniteSet(rows)
    PROVE  Money(rows) = SumOf(PriceOfDeal, DealsOf(rows)) /\ Money(rows) \in Nat
<1> DEFINE deals == DealsOf(rows)
           value == [deal \in deals |-> deal[2]]
<1>1. Money(rows) = SumOf(value, deals)
  <2>1. SumOver(value) = SumOf(value, DOMAIN value)
    <3> HIDE DEF value
    <3> QED BY SumOverIs
  <2> QED BY <2>1 DEF Money, DealsOf
<1>2. IsFiniteSet(deals) /\ \A d \in deals : value[d] = PriceOfDeal[d] /\ PriceOfDeal[d] \in Nat
  BY DealsType
<1> HIDE DEF value, deals
<1>3. SumOf(value, deals) = SumOf(PriceOfDeal, deals)
  BY <1>2, SumSame
<1>4. SumOf(PriceOfDeal, deals) \in Nat
  BY <1>2, SumNat
<1> QED BY <1>1, <1>3, <1>4 DEF deals

\* The purchases and sales of an owner are rows of the table.
LEMMA BuysType ==
    ASSUME TypeOK, NEW o
    PROVE  /\ Buys(o) \subseteq Sale /\ Buys(o) \subseteq sales /\ IsFiniteSet(Buys(o))
           /\ Sells(o) \subseteq Sale /\ Sells(o) \subseteq sales /\ IsFiniteSet(Sells(o))
BY FS_Subset DEF Buys, Sells, TypeOK

\* The rows of a deal of the owner.
RowsOf(o, d) == {s \in Buys(o) : s.date = d[1] /\ s.price = d[2]}

Record(o, d) == [date |-> d[1], price |-> d[2], parcels |-> Cardinality(RowsOf(o, d))]

\* What a window over some of the deals adds up.
LEMMA WindowSums ==
    ASSUME TypeOK, NEW o, NEW D, D \subseteq DealsOf(Buys(o))
    PROVE  LET records == {Record(o, d) : d \in D}
               rows == {s \in Buys(o) : DealOf[s] \in D}
           IN /\ SumOver([deal \in records |-> deal.parcels]) = Cardinality(rows)
              /\ SumOver([deal \in records |-> deal.price]) = SumOf(PriceOfDeal, D)
<1> DEFINE record == [d \in D |-> Record(o, d)]
           size == [d \in D |-> Cardinality(RowsOf(o, d))]
           records == {Record(o, d) : d \in D}
           parcels == [deal \in records |-> deal.parcels]
           price == [deal \in records |-> deal.price]
           rows == {s \in Buys(o) : DealOf[s] \in D}
           one == [s \in rows |-> 1]
           By(d) == {s \in rows : DealOf[s] = d}
           bySize == [d \in D |-> SumOf(one, By(d))]
<1>1. IsFiniteSet(D) /\ D \subseteq Day \X Nat
  BY BuysType, DealsType, FS_Subset
<1>2. \A d \in D : d = <<d[1], d[2]>> /\ PriceOfDeal[d] = d[2] /\ d[2] \in Int
  BY <1>1 DEF PriceOfDeal
<1>3. records = {record[d] : d \in D}
  OBVIOUS
<1>4. \A d, e \in D : record[d] = record[e] => d = e
  <2> SUFFICES ASSUME NEW d \in D, NEW e \in D, Record(o, d) = Record(o, e) PROVE d = e
    OBVIOUS
  <2>1. Record(o, d).date = Record(o, e).date /\ Record(o, d).price = Record(o, e).price
    OBVIOUS
  <2>2. d[1] = e[1] /\ d[2] = e[2]
    BY <2>1 DEF Record
  <2> QED BY <1>2, <2>2
<1>5. \A d \in D : parcels[record[d]] = size[d] /\ price[record[d]] = PriceOfDeal[d]
  BY <1>2 DEF Record
<1>6. \A d \in D : IsFiniteSet(RowsOf(o, d)) /\ size[d] \in Int
  <2> SUFFICES ASSUME NEW d \in D
               PROVE  IsFiniteSet(RowsOf(o, d)) /\ Cardinality(RowsOf(o, d)) \in Int
    OBVIOUS
  <2>1. RowsOf(o, d) \subseteq Buys(o)
    BY DEF RowsOf
  <2>2. IsFiniteSet(RowsOf(o, d))
    BY <2>1, BuysType, FS_Subset
  <2> QED BY <2>2, FS_CardinalityType
<1>7. SumOver(parcels) = SumOf(parcels, records) /\ SumOver(price) = SumOf(price, records)
  <2>1. DOMAIN parcels = records /\ DOMAIN price = records
    OBVIOUS
  <2> HIDE DEF parcels, price, records
  <2> QED BY <2>1, SumOverIs
<1>8. IsFiniteSet(rows) /\ \A s \in rows : one[s] = 1 /\ DealOf[s] \in D
  BY BuysType, FS_Subset
<1>9. \A d \in D : By(d) = RowsOf(o, d)
  BY <1>2, BuysType DEF RowsOf, DealOf
<1> HIDE DEF record, size, records, parcels, price, rows, one
<1>10. SumOf(price, records) = SumOf(PriceOfDeal, D)
  <2>1. SumOf(PriceOfDeal, D) = SumOf(price, {record[d] : d \in D})
    BY <1>1, <1>2, <1>4, <1>5, SumReindexed
  <2> QED BY <1>3, <2>1
<1>11. SumOf(parcels, records) = SumOf(size, D)
  <2>1. SumOf(size, D) = SumOf(parcels, {record[d] : d \in D})
    BY <1>1, <1>4, <1>5, <1>6, SumReindexed
  <2> QED BY <1>3, <2>1
<1>12. Cardinality(rows) = SumOf(one, rows)
  BY <1>8, SumOfOnes
<1>13. SumOf(one, rows) = SumOf(bySize, D)
  <2>1. \A s \in rows : one[s] \in Int
    BY <1>8
  <2> QED BY <1>1, <1>8, <2>1, SumByGroup
<1>14. \A d \in D : bySize[d] = size[d]
  <2> SUFFICES ASSUME NEW d \in D PROVE SumOf(one, By(d)) = Cardinality(By(d))
    BY <1>9 DEF size
  <2>1. IsFiniteSet(By(d)) /\ \A s \in By(d) : one[s] = 1
    BY <1>8, FS_Subset
  <2> HIDE DEF By
  <2> QED BY <2>1, SumOfOnes
<1>15. SumOf(bySize, D) = SumOf(size, D)
  <2> HIDE DEF bySize
  <2> QED BY <1>1, <1>14, SumSame
<1> QED BY <1>7, <1>10, <1>11, <1>12, <1>13, <1>15 DEF records, rows, parcels, price

\* A window from a day counts the owner's rows in it, and the price of each deal.
WindowFrom(o, start) ==
    [start |-> start,
     count |-> Cardinality({s \in Buys(o) : InWindow(start, s.date)}),
     spent |-> SumOf(PriceOfDeal, {d \in DealsOf(Buys(o)) : InWindow(start, d[1])})]

\* The window that starts with a purchase, part by part.
LEMMA WindowIs ==
    ASSUME TypeOK, NEW o
    PROVE  Windows(o) = {WindowFrom(o, start) : start \in {s.date : s \in Buys(o)}}
<1> DEFINE Within(start) == {deal \in Deals(o) : InWindow(start, deal.date)}
           D(start) == {d \in DealsOf(Buys(o)) : InWindow(start, d[1])}
<1>1. Deals(o) = {Record(o, d) : d \in DealsOf(Buys(o))}
  BY DEF Deals, DealsOf, Record, RowsOf
<1>2. ASSUME NEW start
      PROVE  /\ SumOver([deal \in Within(start) |-> deal.parcels])
                  = Cardinality({s \in Buys(o) : InWindow(start, s.date)})
             /\ SumOver([deal \in Within(start) |-> deal.price]) = SumOf(PriceOfDeal, D(start))
  <2>1. \A d : Record(o, d).date = d[1]
    BY DEF Record
  <2>2. Within(start) = {Record(o, d) : d \in D(start)}
    BY <1>1, <2>1
  <2>3. {s \in Buys(o) : InWindow(start, s.date)} = {s \in Buys(o) : DealOf[s] \in D(start)}
    BY BuysType, DealsType DEF DealOf
  <2>4. D(start) \subseteq DealsOf(Buys(o))
    OBVIOUS
  <2> HIDE DEF D, Within
  <2> DEFINE records == {Record(o, d) : d \in D(start)}
             rows == {s \in Buys(o) : DealOf[s] \in D(start)}
  <2>5. /\ SumOver([deal \in records |-> deal.parcels]) = Cardinality(rows)
        /\ SumOver([deal \in records |-> deal.price]) = SumOf(PriceOfDeal, D(start))
    BY <2>4, WindowSums
  <2> QED BY <2>2, <2>3, <2>5
<1>3. Windows(o) = {[start |-> start,
                     count |-> SumOver([deal \in Within(start) |-> deal.parcels]),
                     spent |-> SumOver([deal \in Within(start) |-> deal.price])] :
                        start \in {s.date : s \in Buys(o)}}
  BY DEF Windows
<1> HIDE DEF Within
<1> QED BY <1>2, <1>3 DEF WindowFrom

\* What a window says of the deals in it.
LEMMA WindowParts ==
    ASSUME NEW o, NEW start
    PROVE  /\ WindowFrom(o, start).start = start
           /\ WindowFrom(o, start).count = Cardinality({s \in Buys(o) : InWindow(start, s.date)})
           /\ WindowFrom(o, start).spent =
                  SumOf(PriceOfDeal, {d \in DealsOf(Buys(o)) : InWindow(start, d[1])})
BY DEF WindowFrom

\* Of several windows that qualify one is reported, with as many purchases as
\* any of them.
LEMMA BiggestWave ==
    ASSUME TypeOK, NEW o, NEW v \in Qualifying(o)
    PROVE  \E w \in Waves(o) : w.count >= v.count
<1> DEFINE Q == Qualifying(o)
           Bought(start) == {s \in Buys(o) : InWindow(start, s.date)}
           starts == {s.date : s \in Buys(o)}
           count == [w \in Q |-> w.count]
           biggest == {w \in Q : \A u \in Q : u.count <= w.count}
           minus == [w \in biggest |-> -w.start]
<1>1. IsFiniteSet(starts) /\ starts \subseteq Int
  <2> DEFINE date == [s \in Buys(o) |-> s.date]
  <2>1. starts = {date[s] : s \in Buys(o)}
    OBVIOUS
  <2>2. IsFiniteSet({date[s] : s \in Buys(o)})
    <3> HIDE DEF date
    <3> QED BY BuysType, FiniteImage
  <2>3. starts \subseteq Int
    BY BuysType, RowType
  <2> QED BY <2>1, <2>2, <2>3
<1>2. IsFiniteSet(Q)
  <2> DEFINE window == [start \in starts |-> WindowFrom(o, start)]
             all == {window[start] : start \in starts}
  <2>1. Windows(o) = all
    BY WindowIs
  <2>2. IsFiniteSet(all)
    <3> HIDE DEF window, starts
    <3> QED BY <1>1, FiniteImage
  <2> HIDE DEF all
  <2> QED BY <2>1, <2>2, FS_Subset DEF Qualifying
<1>3. \A w \in Q : w.count \in Int /\ w.start \in Int
  <2> SUFFICES ASSUME NEW w \in Windows(o) PROVE w.count \in Int /\ w.start \in Int
    BY DEF Qualifying
  <2>3. PICK start \in starts : w = WindowFrom(o, start)
    BY WindowIs
  <2>1. w.start = start /\ w.count = Cardinality(Bought(start))
    BY <2>3, WindowParts
  <2>2. Cardinality(Bought(start)) \in Nat
    BY BuysType, FS_Subset, FS_CardinalityType
  <2> QED BY <1>1, <2>1, <2>2
<1>4. \A w \in Q : count[w] \in Int
  BY <1>3
<1>5. PICK x \in Q : \A y \in Q : count[y] <= count[x]
  <2>1. Q # {}
    OBVIOUS
  <2> HIDE DEF Q, count
  <2> QED BY <1>2, <1>4, <2>1, LargestValue
<1>6. biggest # {} /\ IsFiniteSet(biggest) /\ \A w \in biggest : minus[w] \in Int
  <2>1. x \in biggest
    BY <1>5
  <2>2. \A w \in biggest : minus[w] \in Int
    BY <1>3
  <2> QED BY <1>2, <2>1, <2>2, FS_Subset
<1>7. PICK w \in biggest : \A u \in biggest : minus[u] <= minus[w]
  <2> HIDE DEF biggest, minus
  <2> QED BY <1>6, LargestValue
<1>8. w \in Q /\ \A u \in Q : u.count < w.count \/ (u.count = w.count /\ u.start >= w.start)
  <2> SUFFICES ASSUME NEW u \in Q, ~(u.count < w.count)
               PROVE  u.count = w.count /\ u.start >= w.start
    OBVIOUS
  <2>1. u.count = w.count
    BY <1>3
  <2>2. u \in biggest
    BY <2>1
  <2>3. -u.start <= -w.start
    BY <1>7, <2>2
  <2>4. \A a, b \in Int : -a <= -b => a >= b
    OBVIOUS
  <2> QED BY <1>3, <2>1, <2>3, <2>4
<1>9. w \in Waves(o) /\ w.count >= v.count
  BY <1>3, <1>8 DEF Waves
<1> QED BY <1>9

\* Stretches of days with enough purchases are waves, or less busy than one.
LEMMA WaveBusiest == TypeOK => WaveIsBusiest
<1> SUFFICES ASSUME TypeOK, NEW o \in Owner, NEW d \in Day,
                    Cardinality({s \in Buys(o) : d <= s.date /\ s.date <= d + Span}) >= MinBuys
             PROVE  \E w \in Waves(o) :
                        w.count >= Cardinality({s \in Buys(o) : d <= s.date /\ s.date <= d + Span})
  BY DEF WaveIsBusiest
<1> DEFINE rows == {s \in Buys(o) : d <= s.date /\ s.date <= d + Span}
           dates == {s.date : s \in rows}
           first == Min(dates)
           window == {s \in Buys(o) : InWindow(first, s.date)}
<1>1. rows \subseteq Sale /\ IsFiniteSet(rows) /\ Cardinality(rows) \in Nat
  BY BuysType, FS_Subset, FS_CardinalityType
<1>2. MinBuys \in Nat \ {0} /\ Span \in Nat /\ d \in Int
  BY StatisticsAssumption, OwnerAssumption
<1>3. rows # {}
  BY <1>1, <1>2, FS_EmptySet
<1>4. IsFiniteSet(dates) /\ dates # {} /\ dates \subseteq Int
  <2> DEFINE date == [s \in rows |-> s.date]
  <2>1. dates = {date[s] : s \in rows}
    OBVIOUS
  <2>2. IsFiniteSet({date[s] : s \in rows})
    <3> HIDE DEF date, rows
    <3> QED BY <1>1, FiniteImage
  <2>3. dates \subseteq Int
    BY <1>1, RowType
  <2> QED BY <1>3, <2>1, <2>2, <2>3
<1>5. first \in dates /\ \A x \in dates : first <= x
  <2> HIDE DEF dates
  <2> QED BY <1>4, MinMember
<1>6. first \in Int /\ d <= first /\ \A s \in rows : first <= s.date
  BY <1>4, <1>5
<1>7. \A s \in rows : s.date \in Int /\ s.date <= d + Span
  BY <1>1, RowType
<1> HIDE DEF first
<1>8. \A s \in rows : InWindow(first, s.date)
  BY <1>2, <1>6, <1>7 DEF InWindow
<1>9. rows \subseteq window /\ IsFiniteSet(window)
  BY <1>8, BuysType, FS_Subset
<1>10. Cardinality(rows) <= Cardinality(window) /\ Cardinality(window) \in Nat
  <2> HIDE DEF rows, window
  <2> QED BY <1>9, FS_Subset, FS_CardinalityType
<1>11. PICK v \in Windows(o) : v.count = Cardinality(window)
  <2>1. first \in {s.date : s \in Buys(o)}
    BY <1>5
  <2>2. WindowFrom(o, first) \in Windows(o)
    BY <2>1, WindowIs
  <2> QED BY <2>2, WindowParts
<1>12. v \in Qualifying(o)
  BY <1>1, <1>2, <1>10, <1>11 DEF Qualifying
<1>13. PICK w \in Waves(o) : w.count >= v.count
  BY <1>12, BiggestWave
<1> HIDE DEF rows, window
<1>14. w.count \in Int
  <2>1. w \in Windows(o)
    BY DEF Waves, Qualifying
  <2>4. PICK start \in {s.date : s \in Buys(o)} : w = WindowFrom(o, start)
    BY <2>1, WindowIs
  <2>2. w.count = Cardinality({s \in Buys(o) : InWindow(start, s.date)})
    BY <2>4, WindowParts
  <2>3. Cardinality({s \in Buys(o) : InWindow(start, s.date)}) \in Nat
    BY BuysType, FS_Subset, FS_CardinalityType
  <2> QED BY <2>2, <2>3
<1>15. w.count >= Cardinality(rows)
  BY <1>1, <1>10, <1>11, <1>13, <1>14
<1> QED BY <1>15 DEF rows

\* The wave reported for an owner is the busiest stretch of days there is, and no
\* owner with enough purchases in some stretch is missed.
THEOREM WavesBusiest == Spec => []WaveIsBusiest
BY TableTypes, WaveBusiest, PTL

-----------------------------------------------------------------------------
(* Rankings.                                                                *)

\* The count of an entity is at least that of each of its spellings.
LEMMA MergedCount ==
    ASSUME NEW ranking, NEW F, F \subseteq DOMAIN ranking, IsFiniteSet(F),
           \A o \in F : ranking[o] \in Nat, NEW e \in DOMAIN Merged(ranking, F)
    PROVE  /\ Merged(ranking, F)[e] \in Nat
           /\ \A o \in F : Canonical[o] = e => ranking[o] <= Merged(ranking, F)[e]
<1> DEFINE one == {p \in F : Canonical[p] = e}
           value == [p \in one |-> ranking[p]]
<1>1. Merged(ranking, F)[e] = SumOver(value)
  BY DEF Merged
<1>2. IsFiniteSet(one) /\ DOMAIN value = one /\ \A p \in one : value[p] \in Nat /\ value[p] = ranking[p]
  BY FS_Subset
<1>3. \A o \in F : Canonical[o] = e => o \in one
  OBVIOUS
<1> HIDE DEF one, value
<1>4. SumOver(value) = SumOf(value, one)
  BY <1>2, SumOverIs
<1>5. SumOf(value, one) \in Nat
  BY <1>2, SumNat
<1>6. \A p \in one : value[p] <= SumOf(value, one)
  BY <1>2, SumNat
<1> QED BY <1>1, <1>2, <1>3, <1>4, <1>5, <1>6

\* The entities that head a merged ranking outrank every spelling of the others.
LEMMA HeadsOutrank ==
    ASSUME NEW ranking, IsFiniteSet(DOMAIN ranking), \A o \in DOMAIN ranking : ranking[o] \in Nat,
           NEW F \in Fetches(ranking), NEW H \in Heads(Merged(ranking, F)), NEW e \in H,
           NEW o \in DOMAIN ranking, Canonical[o] \notin H
    PROVE  Merged(ranking, F)[e] >= ranking[o]
<1> DEFINE merged == Merged(ranking, F)
<1>1. F \subseteq DOMAIN ranking /\ IsFiniteSet(F)
  BY FS_Subset DEF Fetches
<1>2. DOMAIN merged = {Canonical[q] : q \in F}
  BY DEF Merged
<1>3. e \in DOMAIN merged
  BY DEF Heads
<1>4. ASSUME NEW a \in DOMAIN merged
      PROVE  merged[a] \in Nat /\ \A q \in F : Canonical[q] = a => ranking[q] <= merged[a]
  BY <1>1, MergedCount
<1> HIDE DEF merged
<1>5. CASE o \in F
  <2>1. Canonical[o] \in DOMAIN merged \ H
    BY <1>2, <1>5
  <2>2. merged[e] >= merged[Canonical[o]]
    BY <2>1 DEF Heads, merged
  <2>3. ranking[o] <= merged[Canonical[o]]
    BY <1>4, <1>5, <2>1
  <2>4. merged[e] \in Nat /\ merged[Canonical[o]] \in Nat
    BY <1>3, <1>4, <2>1
  <2>5. merged[e] >= ranking[o]
    BY <2>2, <2>3, <2>4
  <2> QED BY <2>5 DEF merged
<1>6. CASE o \notin F
  <2>1. PICK q \in F : Canonical[q] = e
    BY <1>2, <1>3
  <2>2. ranking[q] >= ranking[o]
    BY <1>6 DEF Fetches
  <2>3. ranking[q] <= merged[e] /\ merged[e] \in Nat /\ ranking[q] \in Nat
    BY <1>1, <1>3, <1>4, <2>1
  <2>4. merged[e] >= ranking[o]
    BY <2>2, <2>3
  <2> QED BY <2>4 DEF merged
<1> QED BY <1>5, <1>6

\* What the rankings count.
LEMMA RankingType ==
    ASSUME TypeOK,
           NEW ranking \in {TopBuyers, TopSellers, NetSellers} \cup {TopOwners(n) : n \in Newests}
    PROVE  IsFiniteSet(DOMAIN ranking) /\ \A o \in DOMAIN ranking : ranking[o] \in Nat
<1> DEFINE buyer == [s \in sales |-> s.buyer]
           seller == [s \in sales |-> s.seller]
           parcel == [s \in sales |-> s.parcel]
           buyers == {buyer[s] : s \in sales}
           sellers == {seller[s] : s \in sales}
<1>1. IsFiniteSet(buyers) /\ IsFiniteSet(sellers)
  BY FiniteImage DEF TypeOK
<1>2. IsFiniteSet(Sold)
  <2>1. Sold = {parcel[s] : s \in sales}
    BY DEF Sold
  <2> HIDE DEF parcel
  <2> QED BY <2>1, FiniteImage DEF TypeOK
<1>3. ASSUME NEW rows, IsFiniteSet(rows)
      PROVE  OfMarketSales(rows) \in Nat /\ (OfMarketSales(rows) > 0 => rows # {})
  <2> DEFINE market == {s \in rows : MarketSale(s, TRUE, FALSE)}
  <2>1. IsFiniteSet(market)
    BY <1>3, FS_Subset
  <2>2. rows = {} => market = {}
    OBVIOUS
  <2>3. OfMarketSales(rows) = Cardinality(market)
    BY DEF OfMarketSales
  <2> HIDE DEF market
  <2> QED BY <2>1, <2>2, <2>3, FS_CardinalityType, FS_EmptySet
<1>4. \A p : (Buys(p) # {} => p \in buyers) /\ (Sells(p) # {} => p \in sellers)
  BY DEF Buys, Sells
<1> HIDE DEF buyers, sellers
<1>5. CASE ranking = TopBuyers
  <2>1. DOMAIN ranking \subseteq buyers
    BY <1>3, <1>4, <1>5, BuysType DEF TopBuyers
  <2>2. IsFiniteSet(DOMAIN ranking)
    BY <1>1, <2>1, FS_Subset
  <2> QED BY <1>3, <1>5, <2>2, BuysType DEF TopBuyers
<1>6. CASE ranking = TopSellers
  <2>1. DOMAIN ranking \subseteq sellers
    BY <1>3, <1>4, <1>6, BuysType DEF TopSellers
  <2>2. IsFiniteSet(DOMAIN ranking)
    BY <1>1, <2>1, FS_Subset
  <2> QED BY <1>3, <1>6, <2>2, BuysType DEF TopSellers
<1>7. CASE ranking = NetSellers
  <2>1. DOMAIN ranking \subseteq sellers
    BY <1>4, <1>7 DEF NetSellers
  <2>2. IsFiniteSet(DOMAIN ranking)
    BY <1>1, <2>1, FS_Subset
  <2>3. ASSUME NEW o \in DOMAIN ranking PROVE ranking[o] \in Nat
    <3>1. ranking[o] = NetSells(o) /\ NetSells(o) >= MinNet
      BY <1>7 DEF NetSellers
    <3>2. Cardinality(Sells(o)) \in Nat /\ Cardinality(Buys(o)) \in Nat /\ MinNet \in Nat
      BY BuysType, FS_CardinalityType, OwnerAssumption
    <3>3. NetSells(o) \in Int
      BY <3>2 DEF NetSells
    <3> QED BY <3>1, <3>2, <3>3
  <2> QED BY <2>2, <2>3
<1>8. CASE ranking \in {TopOwners(n) : n \in Newests}
  <2>1. PICK n \in Newests : ranking = TopOwners(n)
    BY <1>8
  <2> DEFINE holder == [p \in Sold |-> n[p].buyer]
             holders == {holder[p] : p \in Sold}
  <2>2. DOMAIN ranking = holders
    BY <2>1 DEF TopOwners
  <2>3. IsFiniteSet(holders)
    <3> HIDE DEF holder
    <3> QED BY <1>2, FiniteImage
  <2>4. ASSUME NEW o \in DOMAIN ranking PROVE ranking[o] \in Nat
    <3> DEFINE held == {p \in Sold : n[p].buyer = o}
    <3>1. ranking[o] = Cardinality(held)
      BY <2>1, <2>4 DEF TopOwners
    <3>2. IsFiniteSet(held)
      BY <1>2, FS_Subset
    <3> HIDE DEF held
    <3> QED BY <3>1, <3>2, FS_CardinalityType
  <2> QED BY <2>2, <2>3, <2>4
<1> QED BY <1>5, <1>6, <1>7, <1>8

\* So it is for every ranking.
LEMMA RankingsHold == TypeOK => HeadsOutrankOthers
BY RankingType, HeadsOutrank DEF HeadsOutrankOthers

\* Spellings may be merged after most were cut off: no entity that a ranking
\* returns counts less than a spelling of one that it does not.
THEOREM HeadsOutrankAlways == Spec => []HeadsOutrankOthers
BY TableTypes, RankingsHold, PTL

-----------------------------------------------------------------------------
(* Profiles.                                                                *)

\* What the years of a profile say was spent, each deal once.
LEMMA YearsAddUp ==
    ASSUME TypeOK, NEW o
    PROVE  SumOver([y \in DOMAIN Activity(o) |-> Activity(o)[y].spent])
              = SumOf(PriceOfDeal, DealsOf(Buys(o)))
<1> DEFINE years == DOMAIN Activity(o)
           spent == [y \in years |-> Activity(o)[y].spent]
           D == DealsOf(Buys(o))
           year == [d \in D |-> CalendarYear[d[1]]]
           rows == Buys(o) \cup Sells(o)
           In(y) == {s \in Buys(o) : CalendarYear[s.date] = y}
           byYear == [y \in years |-> SumOf(PriceOfDeal, {d \in D : year[d] = y})]
<1>1. years = {CalendarYear[s.date] : s \in rows}
  BY DEF Activity
<1>2. IsFiniteSet(years)
  <2> DEFINE yearOf == [s \in rows |-> CalendarYear[s.date]]
  <2>1. years = {yearOf[s] : s \in rows}
    BY <1>1
  <2>2. IsFiniteSet(rows)
    BY BuysType, FS_Union
  <2> HIDE DEF yearOf, years, rows
  <2> QED BY <2>1, <2>2, FiniteImage
<1>3. IsFiniteSet(D) /\ \A d \in D : PriceOfDeal[d] = d[2] /\ d[2] \in Int
  BY BuysType, DealsType
<1>4. \A d \in D : year[d] \in years
  BY <1>1 DEF DealsOf
<1>5. \A y \in years : spent[y] = byYear[y]
  <2> SUFFICES ASSUME NEW y \in years PROVE spent[y] = byYear[y]
    OBVIOUS
  <2>1. spent[y] = Money(In(y))
    BY <1>1 DEF Activity
  <2>2. In(y) \subseteq Sale /\ IsFiniteSet(In(y))
    BY BuysType, FS_Subset
  <2>3. DealsOf(In(y)) = {d \in D : year[d] = y}
    BY DEF DealsOf
  <2> HIDE DEF In, spent
  <2> QED BY <2>1, <2>2, <2>3, MoneyIs
<1>6. SumOf(PriceOfDeal, D) = SumOf(byYear, years)
  <2>1. \A d \in D : PriceOfDeal[d] \in Int
    BY <1>3
  <2> HIDE DEF D, years, year
  <2> QED BY <1>2, <1>3, <1>4, <2>1, SumByGroup
<1>7. SumOver(spent) = SumOf(spent, years)
  <2>1. DOMAIN spent = years
    OBVIOUS
  <2> HIDE DEF spent
  <2> QED BY <2>1, SumOverIs
<1> HIDE DEF spent, byYear, years
<1>8. SumOf(spent, years) = SumOf(byYear, years)
  BY <1>2, <1>5, SumSame
<1> QED BY <1>6, <1>7, <1>8 DEF spent, years

\* The deals of the query are those of the profile.
LEMMA DealsAddUp ==
    ASSUME TypeOK, NEW o
    PROVE  SumOver([deal \in Deals(o) |-> deal.price]) = SumOf(PriceOfDeal, DealsOf(Buys(o)))
<1> DEFINE D == DealsOf(Buys(o))
           records == {Record(o, d) : d \in D}
<1>1. Deals(o) = records
  BY DEF Deals, DealsOf, Record, RowsOf
<1>2. D \subseteq DealsOf(Buys(o))
  OBVIOUS
<1> HIDE DEF D
<1>3. SumOver([deal \in records |-> deal.price]) = SumOf(PriceOfDeal, D)
  BY <1>2, WindowSums
<1> QED BY <1>1, <1>3 DEF D

\* The price of a deal, divided by the number of its rows that are held, for each
\* of them, adds up to no more than the price.
LEMMA HoldingsWithinSpent ==
    ASSUME TypeOK, NEW o, NEW newest \in Newests
    PROVE  LET held == Holdings(o, newest)
           IN SumOver([s \in held |-> (60 * s.price) \div DealSize(s, held)])
                 <= 60 * SumOf(PriceOfDeal, DealsOf(Buys(o)))
<1> DEFINE held == Holdings(o, newest)
           part == [s \in held |-> (60 * s.price) \div DealSize(s, held)]
           C == DealsOf(held)
           D == DealsOf(Buys(o))
           Of(c) == {s \in held : DealOf[s] = c}
           parts == [c \in C |-> SumOf(part, Of(c))]
           sixty == [d \in D |-> 60 * d[2]]
<1>1. held \subseteq Buys(o) /\ held \subseteq Sale /\ IsFiniteSet(held)
  <2>1. held \subseteq Buys(o)
    BY DEF Holdings, Newests, Buys
  <2> QED BY <2>1, BuysType, FS_Subset
<1>2. C \subseteq D /\ IsFiniteSet(C) /\ IsFiniteSet(D)
  BY <1>1, BuysType, DealsType DEF DealsOf
<1>3. \A d \in D : PriceOfDeal[d] = d[2] /\ d[2] \in Nat
  BY BuysType, DealsType
<1>4. \A s \in held : DealOf[s] \in C /\ DealOf[s] = <<s.date, s.price>> /\ s.price \in Nat
  BY <1>1, DealsType, RowType
<1> HIDE DEF held, C, D
<1>5. ASSUME NEW c \in C
      PROVE  /\ IsFiniteSet(Of(c)) /\ Cardinality(Of(c)) \in Nat \ {0}
             /\ \A s \in Of(c) : part[s] = (60 * c[2]) \div Cardinality(Of(c))
  <2>1. IsFiniteSet(Of(c)) /\ Cardinality(Of(c)) \in Nat
    BY <1>1, FS_Subset, FS_CardinalityType
  <2>2. PICK s \in held : c = <<s.date, s.price>>
    BY DEF C, DealsOf
  <2>3. s \in Of(c)
    BY <1>4, <2>2
  <2>4. Cardinality(Of(c)) # 0
    <3> HIDE DEF Of
    <3> QED BY <2>1, <2>3, FS_EmptySet
  <2>5. ASSUME NEW r \in Of(c) PROVE part[r] = (60 * c[2]) \div Cardinality(Of(c))
    <3>1. r \in held /\ c = <<r.date, r.price>>
      BY <1>4
    <3>2. {t \in held : t.date = r.date /\ t.price = r.price} = Of(c)
      BY <1>4, <3>1
    <3>3. DealSize(r, held) = Cardinality(Of(c))
      BY <3>2 DEF DealSize
    <3> HIDE DEF Of
    <3> QED BY <3>1, <3>3
  <2> QED BY <2>1, <2>4, <2>5
<1>6. ASSUME NEW c \in C PROVE parts[c] \in Int /\ parts[c] <= sixty[c]
  <2> DEFINE n == Cardinality(Of(c))
             q == (60 * c[2]) \div n
  <2>1. n \in Nat \ {0} /\ c[2] \in Nat /\ 60 * c[2] \in Int
    BY <1>2, <1>3, <1>5
  <2> HIDE DEF n
  <2>2. q \in Int /\ n * q <= 60 * c[2]
    BY <2>1, Quotient
  <2>3. \A s \in Of(c) : part[s] = q
    BY <1>5 DEF n
  <2>4. parts[c] = SumOf(part, Of(c)) /\ sixty[c] = 60 * c[2]
    BY <1>2
  <2> HIDE DEF q, part, parts, sixty, Of
  <2>5. SumOf(part, Of(c)) = q * n
    BY <1>5, <2>2, <2>3, SumOfEquals DEF n
  <2>6. q * n = n * q /\ q * n \in Int
    BY <2>1, <2>2
  <2> QED BY <2>1, <2>2, <2>4, <2>5, <2>6
<1>7. \A s \in held : part[s] \in Int
  <2> SUFFICES ASSUME NEW s \in held PROVE part[s] \in Int
    OBVIOUS
  <2> DEFINE c == DealOf[s]
             n == Cardinality(Of(c))
  <2>1. c \in C /\ s \in Of(c) /\ c[2] \in Nat
    BY <1>2, <1>3, <1>4
  <2> HIDE DEF c, part
  <2>2. part[s] = (60 * c[2]) \div n /\ n \in Nat \ {0}
    BY <1>5, <2>1
  <2> HIDE DEF n
  <2> QED BY <2>1, <2>2
<1>8. SumOver(part) = SumOf(part, held)
  <2>1. DOMAIN part = held
    OBVIOUS
  <2> HIDE DEF part
  <2> QED BY <2>1, SumOverIs
<1>9. SumOf(part, held) = SumOf(parts, C)
  <2>1. \A s \in held : DealOf[s] \in C
    BY <1>4
  <2> HIDE DEF part
  <2> QED BY <1>1, <1>2, <1>7, <2>1, SumByGroup
<1>10. \A d \in D : sixty[d] \in Nat /\ PriceOfDeal[d] \in Int /\ sixty[d] = 60 * PriceOfDeal[d]
  BY <1>3
<1> HIDE DEF part, parts, sixty
<1>11. SumOf(parts, C) <= SumOf(sixty, C)
  <2>1. \A c \in C : parts[c] \in Int /\ sixty[c] \in Int /\ parts[c] <= sixty[c]
    BY <1>2, <1>6, <1>10
  <2> QED BY <1>2, <2>1, SumOrdered
<1>12. SumOf(sixty, C) <= SumOf(sixty, D)
  <2>1. \A d \in D : sixty[d] \in Nat
    BY <1>10
  <2>2. \A T \in SUBSET D : SumOf(sixty, T) <= SumOf(sixty, D)
    BY <1>2, <2>1, SumNat
  <2> QED BY <1>2, <2>2
<1>13. SumOf(sixty, D) = 60 * SumOf(PriceOfDeal, D)
  BY <1>2, <1>10, SumScaled
<1>14. SumOf(parts, C) \in Int /\ SumOf(sixty, C) \in Int /\ SumOf(sixty, D) \in Int
  <2>1. SumOf(parts, C) \in Int
    BY <1>2, <1>6, SumType
  <2>2. \A c \in C : sixty[c] \in Int
    BY <1>2, <1>10
  <2>3. SumOf(sixty, C) \in Int
    BY <1>2, <2>2, SumType
  <2>4. SumOf(sixty, D) \in Int
    BY <1>2, <1>10, SumType
  <2> QED BY <2>1, <2>3, <2>4
<1>15. SumOver(part) <= 60 * SumOf(PriceOfDeal, D)
  BY <1>8, <1>9, <1>11, <1>12, <1>13, <1>14
<1> QED BY <1>15 DEF part, held, D

\* Finitely many owners buy under an address.
LEMMA BuyersFinite == ASSUME TypeOK, NEW m PROVE IsFiniteSet(BuyersAt(m))
<1> DEFINE buyer == [s \in sales |-> s.buyer]
           buyers == {buyer[s] : s \in sales}
<1>1. IsFiniteSet(buyers)
  <2> HIDE DEF buyer
  <2> QED BY FiniteImage DEF TypeOK
<1>2. BuyersAt(m) \subseteq buyers
  BY DEF BuyersAt, Addresses, Buys
<1> HIDE DEF buyers
<1> QED BY <1>1, <1>2, FS_Subset

\* Sharing an address is mutual: an owner is one of as many as any other at it.
LEMMA SharingIsMutual ==
    ASSUME TypeOK, NEW o \in Owner, NEW p \in Sharing(o)
    PROVE  o \in Sharing(p)
<1>1. PICK m \in Addresses(o) \cap Addresses(p) : Cardinality(BuyersAt(m) \ {o}) <= MaxOwners
  BY DEF Sharing, SharedAddresses
<1>2. p \in Owner /\ p # o /\ o \in BuyersAt(m) /\ p \in BuyersAt(m)
  BY <1>1 DEF BuyersAt, Sharing
<1>3. /\ Cardinality(BuyersAt(m) \ {o}) = Cardinality(BuyersAt(m)) - 1
      /\ Cardinality(BuyersAt(m) \ {p}) = Cardinality(BuyersAt(m)) - 1
  BY <1>2, BuyersFinite, FS_RemoveElement
<1>4. m \in SharedAddresses(p, o)
  BY <1>1, <1>3 DEF SharedAddresses
<1> QED BY <1>2, <1>4 DEF Sharing

\* An owner shares addresses with finitely many.
LEMMA SharingFinite == ASSUME TypeOK, NEW o \in Owner PROVE IsFiniteSet(Sharing(o))
<1> DEFINE buyer == [s \in sales |-> s.buyer]
           buyers == {buyer[s] : s \in sales}
<1>1. IsFiniteSet(buyers)
  <2> HIDE DEF buyer
  <2> QED BY FiniteImage DEF TypeOK
<1>2. Sharing(o) \subseteq buyers
  BY DEF Sharing, SharedAddresses, Addresses, Buys
<1> HIDE DEF buyers
<1> QED BY <1>1, <1>2, FS_Subset

\* Who is related to an owner lists the owner too, unless the list is full of
\* others that come before it.
LEMMA RelatedEachOther ==
    ASSUME TypeOK, NEW o \in Owner, NEW p \in UNION RelatedOwners(o), NEW H \in RelatedOwners(p),
           o \notin H
    PROVE  /\ Cardinality(H) = MaxRelated
           /\ \A q \in H : SharedPurchases(p, q) >= SharedPurchases(p, o)
<1>1. p \in Sharing(o) /\ p \in Owner
  BY DEF RelatedOwners, Sharing
<1>2. o \in Sharing(p) \ H /\ H \subseteq Sharing(p)
  BY <1>1, SharingIsMutual DEF RelatedOwners
<1>3. \A q \in H : SharedPurchases(p, q) >= SharedPurchases(p, o)
  BY <1>2 DEF RelatedOwners
<1> DEFINE n == Cardinality(Sharing(p))
<1>4. Cardinality(H) < n /\ n \in Nat
  <2>1. IsFiniteSet(Sharing(p))
    BY <1>1, SharingFinite
  <2>2. Cardinality(H) <= n /\ (Cardinality(H) = n => H = Sharing(p))
    BY <1>2, <2>1, FS_Subset
  <2>3. IsFiniteSet(H)
    BY <1>2, <2>1, FS_Subset
  <2>4. n \in Nat /\ Cardinality(H) \in Nat
    BY <2>1, <2>3, FS_CardinalityType
  <2> HIDE DEF n
  <2> QED BY <1>2, <2>2, <2>4
<1>5. Cardinality(H) = Min({MaxRelated, n})
  BY DEF RelatedOwners
<1>6. Cardinality(H) = MaxRelated
  <2> HIDE DEF n
  <2>1. MaxRelated \in Int /\ n \in Int
    BY <1>4, OwnerAssumption
  <2>2. Min({MaxRelated, n}) = IF MaxRelated <= n THEN MaxRelated ELSE n
    BY <2>1, MinOfTwo
  <2> QED BY <1>4, <1>5, <2>1, <2>2
<1> QED BY <1>3, <1>6

\* What is said of an owner agrees.
LEMMA ProfilesHold == TypeOK => ProfilesAgree
<1> SUFFICES ASSUME TypeOK, NEW o \in Owner
             PROVE  LET bought == Buys(o)
                        spent == SumOver([y \in DOMAIN Activity(o) |-> Activity(o)[y].spent])
                    IN /\ spent = SumOver([deal \in Deals(o) |-> deal.price])
                       /\ \A w \in Windows(o) :
                             (\A s \in bought : InWindow(w.start, s.date)) => w.spent = spent
                       /\ \A newest \in Newests :
                             LET held == Holdings(o, newest)
                             IN SumOver([s \in held |-> (60 * s.price) \div DealSize(s, held)]) <= 60 * spent
                       /\ \A p \in UNION RelatedOwners(o) : \A H \in RelatedOwners(p) :
                             \/ o \in H
                             \/ /\ Cardinality(H) = MaxRelated
                                /\ \A q \in H : SharedPurchases(p, q) >= SharedPurchases(p, o)
  BY DEF ProfilesAgree
<1> DEFINE spent == SumOver([y \in DOMAIN Activity(o) |-> Activity(o)[y].spent])
<1>1. spent = SumOf(PriceOfDeal, DealsOf(Buys(o)))
  BY YearsAddUp
<1>2. spent = SumOver([deal \in Deals(o) |-> deal.price])
  BY <1>1, DealsAddUp
<1>3. ASSUME NEW w \in Windows(o), \A s \in Buys(o) : InWindow(w.start, s.date)
      PROVE  w.spent = spent
  <2>1. PICK start \in {s.date : s \in Buys(o)} : w = WindowFrom(o, start)
    BY WindowIs
  <2>2. w.start = start /\ w.spent = SumOf(PriceOfDeal, {d \in DealsOf(Buys(o)) : InWindow(start, d[1])})
    BY <2>1, WindowParts
  <2>3. {d \in DealsOf(Buys(o)) : InWindow(start, d[1])} = DealsOf(Buys(o))
    BY <1>3, <2>2 DEF DealsOf
  <2> QED BY <1>1, <2>2, <2>3
<1>4. ASSUME NEW newest \in Newests
      PROVE  LET held == Holdings(o, newest)
             IN SumOver([s \in held |-> (60 * s.price) \div DealSize(s, held)]) <= 60 * spent
  BY <1>1, HoldingsWithinSpent
<1>5. \A p \in UNION RelatedOwners(o) : \A H \in RelatedOwners(p) :
         \/ o \in H
         \/ /\ Cardinality(H) = MaxRelated
            /\ \A q \in H : SharedPurchases(p, q) >= SharedPurchases(p, o)
  BY RelatedEachOther
<1> HIDE DEF spent
<1> QED BY <1>2, <1>3, <1>4, <1>5 DEF spent

\* What is said of an owner agrees: years, waves and holdings on what was spent,
\* and of two related owners each has the other on its page, or as many others
\* as a page lists who come before it there.
THEOREM ProfilesAgreeAlways == Spec => []ProfilesAgree
BY TableTypes, ProfilesHold, PTL

-----------------------------------------------------------------------------
(* Ranks: before[s] are the elements that a strict total order has before s. *)

StrictOrder(before, S) ==
    /\ \A s \in S : before[s] \subseteq S \ {s}
    /\ \A r, s \in S : r \in before[s] => before[r] \subseteq before[s]
    /\ \A r, s \in S : r = s \/ r \in before[s] \/ s \in before[r]

\* A strict part is smaller.
LEMMA StrictPart ==
    ASSUME NEW S, IsFiniteSet(S), NEW T, T \subseteq S, T # S
    PROVE  Cardinality(T) < Cardinality(S)
<1>1. IsFiniteSet(T) /\ Cardinality(T) <= Cardinality(S) /\ Cardinality(T) # Cardinality(S)
  BY FS_Subset
<1>2. Cardinality(T) \in Nat /\ Cardinality(S) \in Nat
  BY <1>1, FS_CardinalityType
<1> QED BY <1>1, <1>2

\* In a finite set the number of elements before an element tells it from all
\* others, and takes every value there is.
LEMMA Ranks ==
    ASSUME NEW S, IsFiniteSet(S), NEW before, StrictOrder(before, S)
    PROVE  /\ \A s \in S : Cardinality(before[s]) \in 0 .. Cardinality(S) - 1
           /\ \A s \in S : IsFiniteSet(before[s])
           /\ \A r, s \in S : Cardinality(before[r]) = Cardinality(before[s]) => r = s
           /\ \A i \in 0 .. Cardinality(S) - 1 : \E s \in S : Cardinality(before[s]) = i
           /\ \A r, s \in S : r \in before[s] => Cardinality(before[r]) < Cardinality(before[s])
<1> DEFINE n == Cardinality(S)
           rank == [s \in S |-> Cardinality(before[s])]
<1>0. n \in Nat
  BY FS_CardinalityType
<1>1. \A s \in S : IsFiniteSet(before[s])
  BY FS_Subset DEF StrictOrder
<1>2. \A s \in S : Cardinality(before[s]) \in 0 .. n - 1
  <2> SUFFICES ASSUME NEW s \in S PROVE Cardinality(before[s]) \in 0 .. n - 1
    OBVIOUS
  <2>1. before[s] \subseteq S /\ before[s] # S
    BY DEF StrictOrder
  <2>2. Cardinality(before[s]) < n
    BY <2>1, StrictPart
  <2>3. Cardinality(before[s]) \in Nat
    BY <1>1, FS_CardinalityType
  <2> QED BY <1>0, <2>2, <2>3
<1>3. \A r, s \in S : r \in before[s] => Cardinality(before[r]) < Cardinality(before[s])
  <2> SUFFICES ASSUME NEW r \in S, NEW s \in S, r \in before[s]
               PROVE  Cardinality(before[r]) < Cardinality(before[s])
    OBVIOUS
  <2>1. before[r] \subseteq before[s] /\ before[r] # before[s]
    BY DEF StrictOrder
  <2> QED BY <1>1, <2>1, StrictPart
<1>4. \A r, s \in S : Cardinality(before[r]) = Cardinality(before[s]) => r = s
  <2> SUFFICES ASSUME NEW r \in S, NEW s \in S, Cardinality(before[r]) = Cardinality(before[s]), r # s
               PROVE  FALSE
    OBVIOUS
  <2>1. Cardinality(before[r]) \in Int
    BY <1>2, <1>0
  <2>2. r \in before[s] \/ s \in before[r]
    BY DEF StrictOrder
  <2> QED BY <1>3, <2>1, <2>2
<1>5. \A i \in 0 .. n - 1 : \E s \in S : Cardinality(before[s]) = i
  <2>1. rank \in Injection(S, 0 .. n - 1)
    BY <1>2, <1>4 DEF Injection, IsInjective
  <2>2. IsFiniteSet(0 .. n - 1) /\ Cardinality(0 .. n - 1) = n
    <3>1. IsFiniteSet(0 .. n - 1) /\ Cardinality(0 .. n - 1) = IF 0 > n - 1 THEN 0 ELSE (n - 1) - 0 + 1
      BY <1>0, FS_Interval
    <3> HIDE DEF n
    <3> QED BY <1>0, <3>1
  <2>3. rank \in Surjection(S, 0 .. n - 1)
    <3> HIDE DEF rank
    <3> QED BY <2>1, <2>2, FS_Injection
  <2>4. \A i \in 0 .. n - 1 : \E s \in S : rank[s] = i
    <3> HIDE DEF rank
    <3> QED BY <2>3 DEF Surjection
  <2> QED BY <2>4
<1> QED BY <1>1, <1>2, <1>3, <1>4, <1>5

-----------------------------------------------------------------------------
(* Pages of the sales list.                                                 *)

Value == Int \cup {NULL}

\* The columns that the list is sorted by hold numbers or nothing.
LEMMA ColumnType ==
    ASSUME TypeOK, NEW sort \in DOMAIN SortColumns, NEW s \in sales
    PROVE  SortColumns[sort][s] \in Value
<1>1. s \in Sale /\ s.date \in Int /\ s.price \in Int /\ s.parcel \in Parcel
  BY RowType DEF TypeOK
<1>2. Area[s.parcel] \in Nat \cup {NULL}
  BY <1>1, StatisticsAssumption DEF Parcel, Range
<1>3. PricePerSqft(sales)[s] \in Value
  <2>1. CASE Area[s.parcel] = NULL \/ Area[s.parcel] = 0
    BY <2>1 DEF PricePerSqft, Value
  <2>2. CASE ~(Area[s.parcel] = NULL \/ Area[s.parcel] = 0)
    <3> DEFINE area == Area[s.parcel]
               price == s.price
    <3>1. area \in Nat \ {0} /\ price \in Int
      BY <1>1, <1>2, <2>2
    <3>2. PricePerSqft(sales)[s] = price \div area
      BY <2>2 DEF PricePerSqft
    <3> HIDE DEF area, price
    <3>3. price \div area \in Int
      BY <3>1
    <3> QED BY <3>2, <3>3 DEF Value
  <2> QED BY <2>1, <2>2
<1>4. Price(sales)[s] \in Value
  BY <1>1 DEF Price, Value
<1>5. sort \in {"sale_date", "sale_price", "price_per_sqft", "living_sqft"}
  BY DEF SortColumns
<1> HIDE DEF Value
<1>6. CASE sort = "sale_date"
  BY <1>1, <1>6 DEF SortColumns, Value
<1>7. CASE sort = "sale_price"
  BY <1>4, <1>7 DEF SortColumns
<1>8. CASE sort = "price_per_sqft"
  BY <1>3, <1>8 DEF SortColumns
<1>9. CASE sort = "living_sqft"
  BY <1>2, <1>9 DEF SortColumns, Value
<1> QED BY <1>5, <1>6, <1>7, <1>8, <1>9

\* Ordered is a strict total order, for the ids break every tie.
LEMMA OrderedStrictly ==
    ASSUME NEW rows, rows \subseteq Sale, NEW column, \A s \in rows : column[s] \in Value, NEW order
    PROVE  StrictOrder([s \in rows |-> {r \in rows : Ordered(column, order, r, s)}], rows)
<1> DEFINE before == [s \in rows |-> {r \in rows : Ordered(column, order, r, s)}]
<1>1. \A s \in rows : s.id \in Int /\ column[s] \in Int \cup {NULL}
  BY RowType DEF Value
<1>2. \A r, s \in rows : r.id = s.id => r = s
  BY StatisticsAssumption
<1>3. NULL \notin Int
  BY NullIsNoNumber
<1>4. \A s \in rows : ~ Ordered(column, order, s, s)
  BY <1>1, <1>3 DEF Ordered, Precedes
<1>5. \A q, r, s \in rows :
        Ordered(column, order, q, r) /\ Ordered(column, order, r, s) => Ordered(column, order, q, s)
  <2>1. CASE order = "asc"
    BY <1>1, <1>3, <2>1 DEF Ordered, Precedes
  <2>2. CASE order # "asc"
    BY <1>1, <1>3, <2>2 DEF Ordered, Precedes
  <2> QED BY <2>1, <2>2
<1>6. \A r, s \in rows : r = s \/ Ordered(column, order, r, s) \/ Ordered(column, order, s, r)
  <2>1. CASE order = "asc"
    BY <1>1, <1>2, <1>3, <2>1 DEF Ordered, Precedes
  <2>2. CASE order # "asc"
    BY <1>1, <1>2, <1>3, <2>2 DEF Ordered, Precedes
  <2> QED BY <2>1, <2>2
<1>7. \A r, s \in rows : r \in before[s] <=> Ordered(column, order, r, s)
  OBVIOUS
<1>8. \A s \in rows : before[s] \subseteq rows
  OBVIOUS
<1> HIDE DEF before
<1>9. \A s \in rows : before[s] \subseteq rows \ {s}
  BY <1>4, <1>7, <1>8
<1>10. \A r, s \in rows : r \in before[s] => before[r] \subseteq before[s]
  BY <1>5, <1>7, <1>8
<1>11. StrictOrder(before, rows)
  BY <1>6, <1>7, <1>9, <1>10 DEF StrictOrder
<1> QED BY <1>11 DEF before

\* Elements before, the element, and elements after it make up the set.
LEMMA BeforeAndAfter ==
    ASSUME NEW S, IsFiniteSet(S), NEW before, StrictOrder(before, S), NEW s \in S
    PROVE  LET after == {r \in S : s \in before[r]}
           IN /\ IsFiniteSet(after)
              /\ Cardinality(after) \in Nat /\ Cardinality(before[s]) \in Nat
              /\ Cardinality(S) = Cardinality(before[s]) + 1 + Cardinality(after)
<1> DEFINE after == {r \in S : s \in before[r]}
           upTo == before[s] \cup {s}
<1>1. before[s] \subseteq S \ {s} /\ after \cap upTo = {} /\ S = upTo \cup after
  <2>1. before[s] \subseteq S \ {s}
    BY DEF StrictOrder
  <2>2. s \notin after
    BY DEF StrictOrder
  <2>3. \A r \in before[s] : r \notin after
    BY <2>1 DEF StrictOrder
  <2>4. \A r \in S : r \in upTo \/ r \in after
    BY DEF StrictOrder
  <2> QED BY <2>1, <2>2, <2>3, <2>4
<1>2. IsFiniteSet(after) /\ IsFiniteSet(before[s]) /\ IsFiniteSet(upTo)
  BY <1>1, FS_Subset
<1>3. Cardinality(after) \in Nat /\ Cardinality(before[s]) \in Nat
  BY <1>2, FS_CardinalityType
<1>4. Cardinality(upTo) = Cardinality(before[s]) + 1
  BY <1>1, <1>2, FS_AddElement
<1> HIDE DEF after, upTo
<1>5. Cardinality(S) = Cardinality(upTo) + Cardinality(after)
  <2>1. upTo \cap after = {}
    BY <1>1
  <2> QED BY <1>1, <1>2, <2>1, CountUnion
<1> QED BY <1>2, <1>3, <1>4, <1>5 DEF after

\* A row of a list has one position, the number of rows before it.
LEMMA OnePosition ==
    ASSUME NEW rows, rows \subseteq Sale, IsFiniteSet(rows),
           NEW column, \A s \in rows : column[s] \in Value, NEW order, NEW s \in rows
    PROVE  Positions(rows, column, order, s) = {Cardinality({r \in rows : Ordered(column, order, r, s)})}
<1> DEFINE before == [t \in rows |-> {r \in rows : Ordered(column, order, r, t)}]
           later == {r \in rows : Ordered(column, order, s, r)}
           b == Cardinality(before[s])
           a == Cardinality(later)
           n == Cardinality(rows)
<1>1. StrictOrder(before, rows)
  <2> HIDE DEF Value
  <2> QED BY OrderedStrictly
<1>2. later = {r \in rows : s \in before[r]}
  OBVIOUS
<1>3. before[s] = {r \in rows : Ordered(column, order, r, s)}
  OBVIOUS
<1> HIDE DEF before, later
<1>4. a \in Nat /\ b \in Nat /\ n = b + 1 + a
  BY <1>1, <1>2, BeforeAndAfter
<1>5. Positions(rows, column, order, s) = b .. (n - 1 - a)
  BY <1>3 DEF Positions, later
<1> HIDE DEF a, b, n
<1>6. n - 1 - a = b /\ b \in Int
  BY <1>4
<1>7. b .. b = {b}
  BY <1>6
<1> QED BY <1>3, <1>5, <1>6, <1>7 DEF b

\* The page that a rank is on.
LEMMA PageOfRank ==
    ASSUME NEW P \in Nat \ {0}, NEW n \in Nat, NEW i \in 0 .. n - 1
    PROVE  \E k \in 1 .. (n + P - 1) \div P : (k - 1) * P <= i /\ i <= (k - 1) * P + P - 1
<1> DEFINE q == i \div P
           last == (n + P - 1) \div P
           lp == P * last
           qp == P * q
<1>1. q \in Int /\ qp <= i /\ i < qp + P
  BY Quotient
<1>2. last \in Int /\ lp <= n + P - 1 /\ n + P - 1 < lp + P
  <2> DEFINE m == n + P - 1
  <2>1. m \in Int
    OBVIOUS
  <2> HIDE DEF m
  <2>2. m \div P \in Int /\ P * (m \div P) <= m /\ m < P * (m \div P) + P
    BY <2>1, Quotient
  <2> QED BY <2>2 DEF m
<1>3. qp \in Int /\ lp \in Int
  BY <1>1, <1>2
<1> HIDE DEF q, last
<1>4. q >= 0
  <2> SUFFICES ASSUME q <= -1 PROVE FALSE
    BY <1>1
  <2>1. qp <= P * (-1)
    BY <1>1, ProductOrdered
  <2>2. P * (-1) = -P
    OBVIOUS
  <2> HIDE DEF qp
  <2> QED BY <1>1, <1>3, <2>1, <2>2
<1>5. q + 1 <= last
  <2> SUFFICES ASSUME last <= q PROVE FALSE
    BY <1>1, <1>2
  <2>1. lp <= qp
    BY <1>1, <1>2, ProductOrdered
  <2> HIDE DEF qp, lp
  <2>2. qp < n
    BY <1>1, <1>3
  <2>3. n <= lp
    BY <1>2, <1>3
  <2> QED BY <1>3, <2>1, <2>2, <2>3
<1>6. q + 1 \in 1 .. last
  BY <1>1, <1>2, <1>4, <1>5
<1>7. \E k \in 1 .. last : (k - 1) * P <= i /\ i <= (k - 1) * P + P - 1
  <2> DEFINE page == q + 1
  <2>1. page \in 1 .. last /\ page - 1 = q
    BY <1>1, <1>6
  <2> HIDE DEF page, qp
  <2>2. (page - 1) * P = qp
    <3>1. q * P = P * q
      BY <1>1
    <3> QED BY <2>1, <3>1 DEF qp
  <2>3. (page - 1) * P <= i /\ i <= (page - 1) * P + P - 1
    BY <1>1, <1>3, <2>2
  <2> QED BY <2>1, <2>3
<1> QED BY <1>7 DEF last

\* The ranks on a page.
LEMMA RanksOnPage ==
    ASSUME NEW P \in Nat \ {0}, NEW n \in Nat, NEW k \in 1 .. (n + P - 1) \div P
    PROVE  LET offset == (k - 1) * P
               ranks == {i \in 0 .. n - 1 : offset <= i /\ i <= offset + P - 1}
           IN /\ IsFiniteSet(ranks) /\ Cardinality(ranks) = Min({P, n - offset})
              /\ offset \in Nat /\ ranks \subseteq 0 .. n - 1
<1> DEFINE offset == (k - 1) * P
           last == (n + P - 1) \div P
           lp == P * last
           kp == P * k
           ranks == {i \in 0 .. n - 1 : offset <= i /\ i <= offset + P - 1}
           end == IF P <= n - offset THEN offset + P - 1 ELSE n - 1
<1>1. last \in Int /\ lp <= n + P - 1
  <2> DEFINE m == n + P - 1
  <2>1. m \in Int
    OBVIOUS
  <2> HIDE DEF m
  <2>2. m \div P \in Int /\ P * (m \div P) <= m
    BY <2>1, Quotient
  <2> QED BY <2>2 DEF m
<1>2. k \in Int /\ k <= last /\ k >= 1
  BY <1>1
<1> HIDE DEF last
<1>3. kp <= lp /\ kp \in Int /\ lp \in Int
  BY <1>1, <1>2, ProductOrdered
<1>4. offset = kp - P /\ offset \in Int
  BY <1>2
<1>5. offset >= 0
  <2>1. P * 1 <= P * k
    BY <1>2, ProductOrdered
  <2>2. P * 1 = P
    OBVIOUS
  <2> HIDE DEF offset, kp
  <2>3. P <= kp
    BY <2>1, <2>2 DEF kp
  <2> QED BY <1>3, <1>4, <2>3
<1>6. offset <= n - 1
  <2> HIDE DEF offset, kp, lp
  <2> QED BY <1>1, <1>3, <1>4
<1>7. ranks = offset .. end
  <2> HIDE DEF offset
  <2> QED BY <1>4, <1>5, <1>6
<1>8. end \in Int
  <2> HIDE DEF offset
  <2> QED BY <1>4
<1>9. IsFiniteSet(offset .. end) /\ Cardinality(offset .. end) = IF offset > end THEN 0 ELSE end - offset + 1
  <2> HIDE DEF offset, end
  <2> QED BY <1>4, <1>8, FS_Interval
<1>10. Min({P, n - offset}) = IF P <= n - offset THEN P ELSE n - offset
  <2> DEFINE rest == n - offset
  <2>1. rest \in Int
    <3> HIDE DEF offset
    <3> QED BY <1>4
  <2> HIDE DEF rest
  <2>2. Min({P, rest}) = IF P <= rest THEN P ELSE rest
    BY <2>1, MinOfTwo
  <2> QED BY <2>2 DEF rest
<1>11. (IF offset > end THEN 0 ELSE end - offset + 1) = IF P <= n - offset THEN P ELSE n - offset
  <2> HIDE DEF offset
  <2> QED BY <1>4, <1>5, <1>6
<1>12. Cardinality(ranks) = Min({P, n - offset}) /\ IsFiniteSet(ranks)
  BY <1>7, <1>9, <1>10, <1>11
<1>13. offset \in Nat
  BY <1>4, <1>5
<1> HIDE DEF end
<1> QED BY <1>12, <1>13

RankIn(rows, column, order, s) == Cardinality({r \in rows : Ordered(column, order, r, s)})

\* The rows of a page are those whose rank is on it, and as many.
LEMMA RowsOnPage ==
    ASSUME NEW rows, rows \subseteq Sale, IsFiniteSet(rows),
           NEW column, \A s \in rows : column[s] \in Value, NEW order,
           NEW k \in Int, NEW ranks, ranks \subseteq 0 .. Cardinality(rows) - 1, IsFiniteSet(ranks),
           ranks = {i \in 0 .. Cardinality(rows) - 1 :
                        (k - 1) * PageSize <= i /\ i <= (k - 1) * PageSize + PageSize - 1}
    PROVE  /\ OnPage(rows, column, order, k) = {s \in rows : RankIn(rows, column, order, s) \in ranks}
           /\ Cardinality(OnPage(rows, column, order, k)) = Cardinality(ranks)
<1> DEFINE before == [t \in rows |-> {r \in rows : Ordered(column, order, r, t)}]
           rank == [s \in rows |-> RankIn(rows, column, order, s)]
           offset == (k - 1) * PageSize
           n == Cardinality(rows)
           page == {s \in rows : rank[s] \in ranks}
<1>1. StrictOrder(before, rows)
  <2> HIDE DEF Value
  <2> QED BY OrderedStrictly
<1>2. \A s \in rows : rank[s] = Cardinality(before[s])
  BY DEF RankIn
<1>3. /\ \A s \in rows : rank[s] \in 0 .. n - 1
      /\ \A r, s \in rows : rank[r] = rank[s] => r = s
      /\ \A i \in 0 .. n - 1 : \E s \in rows : rank[s] = i
  <2> HIDE DEF before, rank, n
  <2>1. /\ \A s \in rows : Cardinality(before[s]) \in 0 .. n - 1
        /\ \A r, s \in rows : Cardinality(before[r]) = Cardinality(before[s]) => r = s
        /\ \A i \in 0 .. n - 1 : \E s \in rows : Cardinality(before[s]) = i
    BY <1>1, Ranks DEF n
  <2> QED BY <1>2, <2>1
<1>4. \A s \in rows : Positions(rows, column, order, s) = {rank[s]}
  <2> HIDE DEF Value
  <2> QED BY OnePosition DEF RankIn
<1>5. offset \in Int /\ n \in Nat /\ PageSize \in Nat
  <2>1. PageSize \in Nat
    BY ListingAssumption
  <2> QED BY <2>1, FS_CardinalityType
<1>6. OnPage(rows, column, order, k)
        = {s \in rows : Positions(rows, column, order, s) \cap (offset .. offset + PageSize - 1) # {}}
  BY DEF OnPage
<1> HIDE DEF rank, before
<1>7. \A s \in rows : Positions(rows, column, order, s) \cap (offset .. offset + PageSize - 1) # {}
                        <=> rank[s] \in ranks
  <2> SUFFICES ASSUME NEW s \in rows
               PROVE  {rank[s]} \cap (offset .. offset + PageSize - 1) # {} <=> rank[s] \in ranks
    BY <1>4
  <2>1. rank[s] \in 0 .. n - 1 /\ rank[s] \in Int
    BY <1>3, <1>5
  <2>2. rank[s] \in ranks <=> offset <= rank[s] /\ rank[s] <= offset + PageSize - 1
    BY <2>1
  <2> HIDE DEF offset
  <2>3. rank[s] \in offset .. offset + PageSize - 1
            <=> offset <= rank[s] /\ rank[s] <= offset + PageSize - 1
    BY <1>5, <2>1
  <2> QED BY <2>2, <2>3
<1>8. OnPage(rows, column, order, k) = page
  BY <1>6, <1>7
<1>9. Cardinality(page) = Cardinality(ranks)
  <2> DEFINE g == [s \in page |-> rank[s]]
  <2>1. g \in Bijection(page, ranks)
    <3>1. g \in Injection(page, ranks)
      BY <1>3 DEF Injection, IsInjective
    <3>2. \A i \in ranks : \E s \in page : g[s] = i
      BY <1>3
    <3> QED BY <3>1, <3>2 DEF Bijection, Surjection
  <2>2. IsFiniteSet(page)
    BY FS_Subset
  <2>3. ExistsBijection(page, ranks)
    <3> HIDE DEF g
    <3> QED BY <2>1 DEF ExistsBijection
  <2> HIDE DEF page, g
  <2> QED BY <2>2, <2>3, FS_Bijection
<1>10. page = {s \in rows : RankIn(rows, column, order, s) \in ranks}
  BY DEF rank
<1> QED BY <1>8, <1>9, <1>10

Paged(rows, column, order, total) ==
    LET page == [k \in 1 .. (total + PageSize - 1) \div PageSize |-> OnPage(rows, column, order, k)]
    IN /\ UNION Range(page) = rows
       /\ \A k \in DOMAIN page : Cardinality(page[k]) = Min({PageSize, total - (k - 1) * PageSize})

\* The pages of a list partition it.
LEMMA ListPaged ==
    ASSUME NEW rows, rows \subseteq Sale, IsFiniteSet(rows),
           NEW column, \A s \in rows : column[s] \in Value, NEW order,
           NEW total, total = Cardinality(rows)
    PROVE  Paged(rows, column, order, total)
<1> DEFINE n == total
           last == (n + PageSize - 1) \div PageSize
           page == [k \in 1 .. last |-> OnPage(rows, column, order, k)]
           Ranked(k) == {i \in 0 .. n - 1 :
                            (k - 1) * PageSize <= i /\ i <= (k - 1) * PageSize + PageSize - 1}
           rank == [s \in rows |-> RankIn(rows, column, order, s)]
<1>1. n \in Nat /\ PageSize \in Nat \ {0}
  BY FS_CardinalityType, ListingAssumption
<1>2. last \in Int
  <2> DEFINE m == n + PageSize - 1
  <2>1. m \in Int
    BY <1>1
  <2> HIDE DEF m
  <2>2. m \div PageSize \in Int
    BY <1>1, <2>1, Quotient
  <2> QED BY <2>2 DEF m
<1>3. \A k \in 1 .. last : /\ page[k] = {s \in rows : rank[s] \in Ranked(k)}
                           /\ Cardinality(page[k]) = Min({PageSize, n - (k - 1) * PageSize})
  <2> SUFFICES ASSUME NEW k \in 1 .. last
               PROVE  /\ OnPage(rows, column, order, k) = {s \in rows : rank[s] \in Ranked(k)}
                      /\ Cardinality(OnPage(rows, column, order, k)) = Min({PageSize, n - (k - 1) * PageSize})
    OBVIOUS
  <2>1. /\ IsFiniteSet(Ranked(k)) /\ Cardinality(Ranked(k)) = Min({PageSize, n - (k - 1) * PageSize})
        /\ Ranked(k) \subseteq 0 .. n - 1
    <3> HIDE DEF n
    <3> QED BY <1>1, RanksOnPage
  <2>2. k \in Int
    BY <1>2
  <2> DEFINE ranks == Ranked(k)
  <2>3. ranks = {i \in 0 .. Cardinality(rows) - 1 :
                    (k - 1) * PageSize <= i /\ i <= (k - 1) * PageSize + PageSize - 1}
    OBVIOUS
  <2>4. IsFiniteSet(ranks) /\ ranks \subseteq 0 .. Cardinality(rows) - 1
    BY <2>1
  <2> HIDE DEF ranks, Value, last
  <2>5. /\ OnPage(rows, column, order, k) = {s \in rows : RankIn(rows, column, order, s) \in ranks}
        /\ Cardinality(OnPage(rows, column, order, k)) = Cardinality(ranks)
    BY <2>2, <2>3, <2>4, RowsOnPage
  <2> QED BY <2>1, <2>5 DEF ranks
<1>4. \A s \in rows : \E k \in 1 .. last : rank[s] \in Ranked(k)
  <2> SUFFICES ASSUME NEW s \in rows PROVE \E k \in 1 .. last : rank[s] \in Ranked(k)
    OBVIOUS
  <2> DEFINE before == [t \in rows |-> {r \in rows : Ordered(column, order, r, t)}]
             i == rank[s]
  <2>1. StrictOrder(before, rows)
    <3> HIDE DEF Value
    <3> QED BY OrderedStrictly
  <2>2. i = Cardinality(before[s])
    BY DEF RankIn
  <2> HIDE DEF before
  <2>3. i \in 0 .. n - 1
    BY <2>1, <2>2, Ranks
  <2> HIDE DEF i, n
  <2>4. \E k \in 1 .. last : (k - 1) * PageSize <= i /\ i <= (k - 1) * PageSize + PageSize - 1
    BY <1>1, <2>3, PageOfRank
  <2> HIDE DEF last
  <2>5. \E k \in 1 .. last : i \in Ranked(k)
    BY <2>3, <2>4
  <2> QED BY <2>5 DEF i
<1> HIDE DEF rank, last, Ranked
<1>5. UNION Range(page) = rows
  <2>1. \A k \in 1 .. last : page[k] \subseteq rows
    BY <1>3
  <2>2. \A s \in rows : \E k \in 1 .. last : s \in page[k]
    BY <1>3, <1>4
  <2>3. Range(page) = {page[k] : k \in 1 .. last}
    BY DEF Range
  <2> HIDE DEF page
  <2> QED BY <2>1, <2>2, <2>3
<1> QED BY <1>3, <1>5 DEF last, Paged

\* The pages of the sales list.
LEMMA PagesTiled == TypeOK => PagesTile
<1> SUFFICES ASSUME TypeOK, NEW marketOnly \in BOOLEAN, NEW order \in {"asc", "desc"},
                    NEW sort \in DOMAIN SortColumns
             PROVE  LET rows == Selected(WithParcels(Parcel), marketOnly)
                        column == SortColumns[sort]
                        total == SalesCount(WithParcels(Parcel), marketOnly)
                        page == [k \in 1 .. (total + PageSize - 1) \div PageSize |->
                                    OnPage(rows, column, order, k)]
                    IN /\ UNION Range(page) = rows
                       /\ \A k \in DOMAIN page :
                             Cardinality(page[k]) = Min({PageSize, total - (k - 1) * PageSize})
  BY DEF PagesTile
<1> DEFINE rows == Selected(WithParcels(Parcel), marketOnly)
           column == SortColumns[sort]
<1>1. rows \subseteq sales
  BY DEF Selected, MarketSaleRows
<1>2. rows \subseteq Sale /\ IsFiniteSet(rows)
  BY <1>1, FS_Subset DEF TypeOK
<1>3. \A s \in rows : column[s] \in Value
  BY <1>1, ColumnType
<1> DEFINE total == SalesCount(WithParcels(Parcel), marketOnly)
<1>4. total = Cardinality(rows)
  BY DEF SalesCount
<1> HIDE DEF rows, column, Value, total
<1>5. Paged(rows, column, order, total)
  BY <1>2, <1>3, <1>4, ListPaged
<1> QED BY <1>5 DEF rows, column, total, Paged

\* The pages of the sales list, by any column and in either direction, show each
\* sale once, for every table, page size and number of ties.
THEOREM PagesTileAlways == Spec => []PagesTile
BY TableTypes, PagesTiled, PTL

-----------------------------------------------------------------------------
(* Medians.                                                                 *)

Under(f, V, v) == {s \in V : f[s] < v}
UpTo(f, V, v) == {s \in V : f[s] <= v}
Above(f, V, v) == {s \in V : f[s] > v}

\* v is the i-th of the values in order.
IsIth(f, V, i, v) == /\ v \in {f[s] : s \in V}
                     /\ Cardinality(Under(f, V, v)) < i /\ Cardinality(UpTo(f, V, v)) >= i

\* The elements on either side of a value.
LEMMA Sides ==
    ASSUME NEW V, IsFiniteSet(V), NEW f, \A s \in V : f[s] \in Int, NEW v \in Int
    PROVE  /\ Cardinality(V) \in Nat /\ Cardinality(Under(f, V, v)) \in Nat
           /\ Cardinality(UpTo(f, V, v)) \in Nat /\ Cardinality(Above(f, V, v)) \in Nat
           /\ Cardinality(V) = Cardinality(UpTo(f, V, v)) + Cardinality(Above(f, V, v))
           /\ \A w \in Int : w < v =>
                Cardinality(Above(f, V, w)) >= Cardinality(V) - Cardinality(Under(f, V, v))
           /\ \A w \in Int : w > v =>
                /\ Cardinality(Under(f, V, w)) >= Cardinality(UpTo(f, V, v))
                /\ Cardinality(Under(f, V, w)) \in Nat
<1> DEFINE below == Under(f, V, v)
           upTo == UpTo(f, V, v)
           above == Above(f, V, v)
           from == {s \in V : f[s] >= v}
<1>1. /\ IsFiniteSet(below) /\ IsFiniteSet(upTo) /\ IsFiniteSet(above) /\ IsFiniteSet(from)
      /\ \A w \in Int : IsFiniteSet(Under(f, V, w)) /\ IsFiniteSet(Above(f, V, w))
  BY FS_Subset DEF Under, UpTo, Above
<1>2. /\ Cardinality(V) \in Nat /\ Cardinality(below) \in Nat /\ Cardinality(upTo) \in Nat
      /\ Cardinality(above) \in Nat /\ Cardinality(from) \in Nat
      /\ \A w \in Int : Cardinality(Under(f, V, w)) \in Nat /\ Cardinality(Above(f, V, w)) \in Nat
  BY <1>1, FS_CardinalityType
<1>3. Cardinality(V) = Cardinality(upTo) + Cardinality(above)
  <2>1. upTo \cap above = {} /\ V = upTo \cup above
    BY DEF UpTo, Above
  <2> HIDE DEF upTo, above
  <2> QED BY <1>1, <2>1, CountUnion
<1>4. Cardinality(V) = Cardinality(below) + Cardinality(from)
  <2>1. below \cap from = {} /\ V = below \cup from
    BY DEF Under
  <2> HIDE DEF below, from
  <2> QED BY <1>1, <2>1, CountUnion
<1>5. \A w \in Int : w < v => Cardinality(Above(f, V, w)) >= Cardinality(V) - Cardinality(below)
  <2> SUFFICES ASSUME NEW w \in Int, w < v
               PROVE  Cardinality(Above(f, V, w)) >= Cardinality(V) - Cardinality(below)
    OBVIOUS
  <2>1. from \subseteq Above(f, V, w)
    BY DEF Above
  <2>2. Cardinality(from) <= Cardinality(Above(f, V, w))
    <3> HIDE DEF from
    <3> QED BY <1>1, <2>1, FS_Subset
  <2> HIDE DEF from, below
  <2> QED BY <1>2, <1>4, <2>2
<1>6. \A w \in Int : w > v => Cardinality(Under(f, V, w)) >= Cardinality(upTo)
  <2> SUFFICES ASSUME NEW w \in Int, w > v
               PROVE  Cardinality(Under(f, V, w)) >= Cardinality(upTo)
    OBVIOUS
  <2>1. upTo \subseteq Under(f, V, w)
    BY DEF Under, UpTo
  <2>2. Cardinality(upTo) <= Cardinality(Under(f, V, w))
    <3> HIDE DEF upTo
    <3> QED BY <1>1, <2>1, FS_Subset
  <2> QED BY <1>2, <2>2
<1> QED BY <1>2, <1>3, <1>5, <1>6

\* The numbers of the middle ones of n.
LEMMA Halved ==
    ASSUME NEW n \in Nat \ {0}
    PROVE  LET lo == (n + 1) \div 2
               hi == (n + 2) \div 2
           IN /\ lo \in 1 .. n /\ hi \in 1 .. n /\ lo <= hi
              /\ 2 * lo <= n + 1 /\ 2 * lo >= n /\ 2 * hi <= n + 2 /\ 2 * hi >= n + 1
OBVIOUS

\* The middle ones of the values are as in the definition of a median.
LEMMA MidwayValues ==
    ASSUME NEW value, NEW V, V = Valued(value), IsFiniteSet(V), V # {}, \A s \in V : value[s] \in Int,
           NEW a, NEW b, IsIth(value, V, (Cardinality(V) + 1) \div 2, a),
           IsIth(value, V, (Cardinality(V) + 2) \div 2, b)
    PROVE  IsTwiceMedian(a + b, value)
<1> DEFINE n == Cardinality(V)
           lo == (n + 1) \div 2
           hi == (n + 2) \div 2
           values == {value[s] : s \in V}
           Halves(v) == 2 * Cardinality(Under(value, V, v)) <= n /\ 2 * Cardinality(Above(value, V, v)) <= n
           middle == {v \in values : Halves(v)}
<1>1. n \in Nat \ {0}
  BY FS_CardinalityType, FS_EmptySet
<1>2. /\ lo \in Int /\ hi \in Int
      /\ 2 * lo <= n + 1 /\ 2 * lo >= n /\ 2 * hi <= n + 2 /\ 2 * hi >= n + 1
  BY <1>1, Halved
<1>3. IsFiniteSet(values) /\ values \subseteq Int
  BY FiniteImage
<1>4. a \in values /\ Cardinality(Under(value, V, a)) < lo /\ Cardinality(UpTo(value, V, a)) >= lo
  BY DEF IsIth
<1>5. b \in values /\ Cardinality(Under(value, V, b)) < hi /\ Cardinality(UpTo(value, V, b)) >= hi
  BY DEF IsIth
<1>6. a \in Int /\ b \in Int
  BY <1>3, <1>4, <1>5
<1> HIDE DEF lo, hi, n, values
<1>7. Halves(a)
  <2> DEFINE c == Cardinality(Under(value, V, a))
             d == Cardinality(UpTo(value, V, a))
             e == Cardinality(Above(value, V, a))
  <2>1. c \in Nat /\ d \in Nat /\ e \in Nat /\ n = d + e /\ c < lo /\ d >= lo
    BY <1>4, <1>6, Sides DEF n
  <2> HIDE DEF c, d, e
  <2>2. 2 * c <= n /\ 2 * e <= n
    BY <1>1, <1>2, <2>1
  <2> QED BY <2>2 DEF c, e
<1>8. Halves(b)
  <2> DEFINE c == Cardinality(Under(value, V, b))
             d == Cardinality(UpTo(value, V, b))
             e == Cardinality(Above(value, V, b))
  <2>1. c \in Nat /\ d \in Nat /\ e \in Nat /\ n = d + e /\ c < hi /\ d >= hi
    BY <1>5, <1>6, Sides DEF n
  <2> HIDE DEF c, d, e
  <2>2. 2 * c <= n /\ 2 * e <= n
    BY <1>1, <1>2, <2>1
  <2> QED BY <2>2 DEF c, e
<1>9. \A v \in middle : a <= v
  <2> SUFFICES ASSUME NEW v \in middle, v < a PROVE FALSE
    BY <1>3, <1>6
  <2> DEFINE c == Cardinality(Under(value, V, a))
             e == Cardinality(Above(value, V, v))
  <2>1. v \in Int
    BY <1>3
  <2>2. c \in Nat /\ e >= n - c /\ c < lo
    BY <1>4, <1>6, <2>1, Sides DEF n
  <2>3. e \in Nat
    BY <2>1, Sides
  <2>4. 2 * e <= n
    OBVIOUS
  <2> HIDE DEF c, e
  <2> QED BY <1>1, <1>2, <2>2, <2>3, <2>4
<1>10. \A v \in middle : v <= b
  <2> SUFFICES ASSUME NEW v \in middle, b < v PROVE FALSE
    BY <1>3, <1>6
  <2> DEFINE d == Cardinality(UpTo(value, V, b))
             e == Cardinality(Under(value, V, v))
  <2>1. v \in Int
    BY <1>3
  <2>2. d \in Nat /\ e \in Nat /\ e >= d /\ d >= hi
    BY <1>5, <1>6, <2>1, Sides
  <2>3. 2 * e <= n
    OBVIOUS
  <2> HIDE DEF d, e
  <2> QED BY <1>1, <1>2, <2>2, <2>3
<1>11. a \in middle /\ b \in middle
  BY <1>4, <1>5, <1>7, <1>8
<1>12. middle \subseteq Int /\ IsFiniteSet(middle)
  BY <1>3, FS_Subset
<1>13. IsTwiceMedian(a + b, value) <=> a + b = Min(middle) + Max(middle)
  BY DEF IsTwiceMedian, n, values, Under, Above
<1> HIDE DEF middle
<1>14. Min(middle) = a
  <2> DEFINE x == Min(middle)
  <2>1. x \in middle /\ x <= a
    BY <1>11, <1>12, MinMember
  <2> HIDE DEF x
  <2>2. x \in Int /\ a <= x
    BY <1>9, <1>12, <2>1
  <2>3. x = a
    BY <1>6, <2>1, <2>2
  <2> QED BY <2>3 DEF x
<1>15. Max(middle) = b
  <2> DEFINE x == Max(middle)
  <2>1. x \in middle /\ b <= x
    BY <1>11, <1>12, MaxMember
  <2> HIDE DEF x
  <2>2. x \in Int /\ x <= b
    BY <1>10, <1>12, <2>1
  <2>3. x = b
    BY <1>6, <2>1, <2>2
  <2> QED BY <2>3 DEF x
<1> QED BY <1>13, <1>14, <1>15

\* One row has each number of row_number(), and the rows with a value come first.
LEMMA NumberedRow ==
    ASSUME NEW rows, rows \subseteq Sale, IsFiniteSet(rows),
           NEW value, DOMAIN value = rows, \A s \in rows : value[s] \in Value,
           NEW i \in 1 .. Cardinality(Valued(value))
    PROVE  IsIth(value, Valued(value), i, value[RowNumbered(value)[i]])
<1> DEFINE V == Valued(value)
           n == Cardinality(V)
           before == [s \in rows |-> {r \in rows : RankedBefore(value, r, s)}]
           x == RowNumbered(value)[i]
<1>1. \A s \in rows : s.id \in Int /\ value[s] \in Int \cup {NULL}
  BY RowType DEF Value
<1>2. \A r, s \in rows : r.id = s.id => r = s
  BY StatisticsAssumption
<1>3. NULL \notin Int
  BY NullIsNoNumber
<1>4. \A s \in rows : ~ RankedBefore(value, s, s)
  BY <1>1, <1>3 DEF RankedBefore
<1>5. \A q, r, s \in rows :
        RankedBefore(value, q, r) /\ RankedBefore(value, r, s) => RankedBefore(value, q, s)
  BY <1>1, <1>3 DEF RankedBefore
<1>6. \A r, s \in rows : r = s \/ RankedBefore(value, r, s) \/ RankedBefore(value, s, r)
  BY <1>1, <1>2, <1>3 DEF RankedBefore
<1>7. \A r, s \in rows : r \in before[s] <=> RankedBefore(value, r, s)
  OBVIOUS
<1>8. \A s \in rows : before[s] \subseteq rows
  OBVIOUS
<1>9. \A s \in rows : before[s] = {r \in rows : RankedBefore(value, r, s)}
  OBVIOUS
<1>10. V \subseteq rows /\ IsFiniteSet(V) /\ \A s \in V : value[s] \in Int
  BY <1>1, FS_Subset DEF Valued
<1>11. n \in Nat
  BY <1>10, FS_CardinalityType
<1>12. n <= Cardinality(rows) /\ Cardinality(rows) \in Nat
  BY <1>10, FS_Subset, FS_CardinalityType
<1>13. \A s \in rows : s \in V <=> value[s] # NULL
  BY DEF Valued
<1> HIDE DEF before, V, Value
<1>14. StrictOrder(before, rows)
  <2>1. \A s \in rows : before[s] \subseteq rows \ {s}
    BY <1>4, <1>7, <1>8
  <2>2. \A r, s \in rows : r \in before[s] => before[r] \subseteq before[s]
    BY <1>5, <1>7, <1>8
  <2> QED BY <1>6, <1>7, <2>1, <2>2 DEF StrictOrder
<1>15. x \in rows /\ Cardinality(before[x]) = i - 1
  <2>1. i \in 1 .. Cardinality(rows) /\ i - 1 \in 0 .. Cardinality(rows) - 1
    BY <1>11, <1>12 DEF V
  <2>2. \E s \in rows : Cardinality(before[s]) = i - 1
    BY <1>14, <2>1, Ranks
  <2>3. x = CHOOSE s \in rows : Cardinality({r \in rows : RankedBefore(value, r, s)}) = i - 1
    BY <2>1 DEF RowNumbered
  <2>4. \E s \in rows : Cardinality({r \in rows : RankedBefore(value, r, s)}) = i - 1
    BY <1>9, <2>2
  <2> HIDE DEF x
  <2> QED BY <1>9, <2>3, <2>4
<1> HIDE DEF x
<1>16. IsFiniteSet(before[x]) /\ Cardinality(before[x]) \in Nat
  BY <1>14, <1>15, Ranks, FS_CardinalityType
<1>17. x \in V
  <2> SUFFICES ASSUME x \notin V PROVE FALSE
    OBVIOUS
  <2>1. value[x] = NULL
    BY <1>13, <1>15
  <2>2. \A s \in V : RankedBefore(value, s, x)
    BY <1>10, <1>13, <2>1 DEF RankedBefore
  <2>3. V \subseteq before[x]
    BY <1>7, <1>10, <1>15, <2>2
  <2>4. n <= Cardinality(before[x])
    BY <1>16, <2>3, FS_Subset
  <2> HIDE DEF n
  <2> QED BY <1>11, <1>15, <2>4 DEF n, V
<1>18. value[x] \in Int
  BY <1>10, <1>17
<1>19. Under(value, V, value[x]) \subseteq before[x]
  BY <1>3, <1>7, <1>10, <1>15, <1>17, <1>18 DEF Under, RankedBefore
<1>20. before[x] \cup {x} \subseteq UpTo(value, V, value[x])
  <2> SUFFICES ASSUME NEW r \in before[x] \cup {x} PROVE r \in V /\ value[r] <= value[x]
    BY DEF UpTo
  <2>1. CASE r = x
    BY <1>17, <1>18, <2>1
  <2>2. CASE r \in before[x]
    <3>1. r \in rows /\ RankedBefore(value, r, x) /\ value[x] # NULL
      BY <1>3, <1>7, <1>8, <1>15, <1>18, <2>2
    <3>2. value[r] # NULL /\ (value[r] < value[x] \/ value[r] = value[x])
      BY <3>1 DEF RankedBefore
    <3>3. value[r] \in Int
      BY <1>1, <3>1, <3>2
    <3> QED BY <1>13, <1>18, <3>1, <3>2, <3>3
  <2> QED BY <2>1, <2>2
<1>21. Cardinality(Under(value, V, value[x])) <= i - 1
  BY <1>15, <1>16, <1>19, FS_Subset
<1>22. Cardinality(UpTo(value, V, value[x])) >= i
  <2>1. IsFiniteSet(UpTo(value, V, value[x]))
    BY <1>10, FS_Subset DEF UpTo
  <2>2. Cardinality(before[x] \cup {x}) = i - 1 + 1 /\ IsFiniteSet(before[x] \cup {x})
    <3>1. x \notin before[x]
      BY <1>4, <1>7, <1>15
    <3> QED BY <1>15, <1>16, <3>1, FS_AddElement
  <2>3. Cardinality(before[x] \cup {x}) <= Cardinality(UpTo(value, V, value[x]))
    BY <1>20, <2>1, FS_Subset
  <2>4. i - 1 + 1 = i
    BY <1>11
  <2> QED BY <2>2, <2>3, <2>4
<1>23. Cardinality(Under(value, V, value[x])) < i
  <2>1. Cardinality(Under(value, V, value[x])) \in Nat
    BY <1>10, <1>18, Sides
  <2> QED BY <1>11, <1>21, <2>1
<1>24. value[x] \in {value[s] : s \in V}
  BY <1>17
<1> QED BY <1>22, <1>23, <1>24 DEF IsIth, V, x

\* The median by row numbers is one.
LEMMA MedianByRowNumber ==
    ASSUME NEW rows, rows \subseteq Sale, IsFiniteSet(rows),
           NEW value, DOMAIN value = rows, \A s \in rows : value[s] \in Value
    PROVE  IsTwiceMedian(TwiceMedian(value), value)
<1> DEFINE V == Valued(value)
           n == Cardinality(V)
           lo == (n + 1) \div 2
           hi == (n + 2) \div 2
<1>1. V \subseteq rows /\ IsFiniteSet(V) /\ \A s \in V : value[s] \in Int
  BY FS_Subset DEF Valued, Value
<1>2. CASE V = {}
  BY <1>2 DEF IsTwiceMedian, TwiceMedian
<1>3. CASE V # {}
  <2>1. n \in Nat \ {0}
    BY <1>1, <1>3, FS_CardinalityType, FS_EmptySet
  <2>2. lo \in 1 .. n /\ hi \in 1 .. n /\ lo <= hi
    BY <2>1, Halved
  <2>3. Min({lo, hi}) = lo /\ Max({lo, hi}) = hi
    <3>1. lo \in Int /\ hi \in Int
      BY <2>1, <2>2
    <3> HIDE DEF lo, hi
    <3>2. Min({lo, hi}) = lo
      BY <2>2, <3>1, MinOfTwo
    <3>3. Max({lo, hi}) = hi
      <4>1. IsFiniteSet({lo, hi})
        <5>1. IsFiniteSet({lo}) /\ {lo, hi} = {lo} \cup {hi}
          BY FS_Singleton
        <5> QED BY <5>1, FS_AddElement
      <4> DEFINE m == Max({lo, hi})
      <4>2. m \in {lo, hi} /\ \A y \in {lo, hi} : y <= m
        BY <3>1, <4>1, MaxMember
      <4> HIDE DEF m
      <4>3. m = hi
        BY <2>2, <3>1, <4>2
      <4> QED BY <4>3 DEF m
    <3> QED BY <3>2, <3>3
  <2> DEFINE a == value[RowNumbered(value)[lo]]
             b == value[RowNumbered(value)[hi]]
  <2>4. TwiceMedian(value) = a + b
    <3> HIDE DEF lo, hi
    <3>1. Middle(n) = {lo, hi}
      BY DEF Middle, lo, hi
    <3> QED BY <1>3, <2>3, <3>1 DEF TwiceMedian
  <2>5. IsIth(value, V, lo, a) /\ IsIth(value, V, hi, b)
    <3> HIDE DEF lo, hi, Value
    <3>1. \A i \in 1 .. n : IsIth(value, V, i, value[RowNumbered(value)[i]])
      BY NumberedRow
    <3> QED BY <2>2, <3>1
  <2> HIDE DEF a, b
  <2>6. IsTwiceMedian(a + b, value)
    BY <1>1, <1>3, <2>5, MidwayValues
  <2> QED BY <2>4, <2>6
<1> QED BY <1>2, <1>3

\* There is an i-th value.
LEMMA IthExists ==
    ASSUME NEW V, IsFiniteSet(V), NEW f, \A s \in V : f[s] \in Int, NEW i \in 1 .. Cardinality(V)
    PROVE  \E v \in {f[s] : s \in V} : IsIth(f, V, i, v)
<1> DEFINE n == Cardinality(V)
           values == {f[s] : s \in V}
           enough == {v \in values : Cardinality(UpTo(f, V, v)) >= i}
           v == Min(enough)
<1>1. n \in Nat /\ V # {} /\ IsFiniteSet(values) /\ values \subseteq Int
  BY FS_CardinalityType, FS_EmptySet, FiniteImage
<1>2. \A w \in values : IsFiniteSet(UpTo(f, V, w)) /\ Cardinality(UpTo(f, V, w)) \in Nat
  <2> SUFFICES ASSUME NEW w \in values
               PROVE  IsFiniteSet(UpTo(f, V, w)) /\ Cardinality(UpTo(f, V, w)) \in Nat
    OBVIOUS
  <2>1. IsFiniteSet(UpTo(f, V, w))
    BY FS_Subset DEF UpTo
  <2> QED BY <2>1, FS_CardinalityType
<1>3. enough # {}
  <2>1. PICK s \in V : \A t \in V : f[t] <= f[s]
    BY <1>1, LargestValue
  <2>2. UpTo(f, V, f[s]) = V
    BY <2>1 DEF UpTo
  <2>3. f[s] \in enough
    BY <1>1, <2>2
  <2> QED BY <2>3
<1>4. IsFiniteSet(enough) /\ enough \subseteq Int
  BY <1>1, FS_Subset
<1>5. v \in enough /\ \A w \in enough : v <= w
  <2> HIDE DEF enough
  <2> QED BY <1>3, <1>4, MinMember
<1>6. v \in values /\ v \in Int /\ Cardinality(UpTo(f, V, v)) >= i
  <2>1. \A w \in enough : w \in values /\ w \in Int /\ Cardinality(UpTo(f, V, w)) >= i
    BY <1>1
  <2> HIDE DEF enough, values
  <2> QED BY <1>5, <2>1
<1>7. \A w \in values : Cardinality(UpTo(f, V, w)) >= i => v <= w
  BY <1>5
<1> HIDE DEF v, enough
<1> DEFINE below == Under(f, V, v)
<1>8. Cardinality(below) < i
  <2>1. CASE below = {}
    BY <2>1, FS_EmptySet
  <2>2. CASE below # {}
    <3>1. IsFiniteSet(below) /\ below \subseteq V
      BY FS_Subset DEF Under
    <3>2. \A s \in below : f[s] \in Int
      BY <3>1
    <3> HIDE DEF below
    <3>3. PICK s \in below : \A t \in below : f[t] <= f[s]
      BY <2>2, <3>1, <3>2, LargestValue
    <3>4. f[s] < v /\ f[s] \in values
      BY <3>1, <3>3 DEF below, Under
    <3>5. UpTo(f, V, f[s]) = below
      <4>1. \A t \in V : f[t] <= f[s] => f[t] < v
        BY <1>6, <3>1, <3>4
      <4>2. \A t \in V : t \in below <=> f[t] < v
        BY DEF below, Under
      <4>3. \A t \in V : t \in below <=> f[t] <= f[s]
        BY <3>3, <4>1, <4>2
      <4> QED BY <3>1, <4>3 DEF UpTo
    <3>6. ~ Cardinality(UpTo(f, V, f[s])) >= i
      <4> DEFINE w == f[s]
      <4>1. w \in values /\ w \in Int /\ w < v
        BY <1>1, <3>4
      <4> HIDE DEF w, values
      <4>2. ~ v <= w
        BY <1>6, <4>1
      <4> QED BY <1>7, <4>1, <4>2 DEF w
    <3>7. Cardinality(below) \in Nat /\ i \in Int
      BY <1>1, <3>1, FS_CardinalityType
    <3> QED BY <3>5, <3>6, <3>7
  <2> QED BY <2>1, <2>2
<1> QED BY <1>6, <1>8 DEF IsIth

\* What sorting the values puts in the i-th place.
LEMMA SortedIs ==
    ASSUME NEW value, IsFiniteSet(DOMAIN value), \A s \in DOMAIN value : value[s] \in Int,
           NEW i \in 1 .. Cardinality(DOMAIN value)
    PROVE  IsIth(value, DOMAIN value, i, Sorted(value)[i]) /\ Sorted(value)[i] \in Int
<1> DEFINE V == DOMAIN value
           x == Sorted(value)[i]
<1>1. PICK v \in {value[s] : s \in V} : IsIth(value, V, i, v)
  BY IthExists
<1>2. Range(value) = {value[s] : s \in V}
  BY DEF Range
<1>3. x = CHOOSE w \in Range(value) : /\ Cardinality({s \in DOMAIN value : value[s] < w}) < i
                                      /\ Cardinality({s \in DOMAIN value : value[s] <= w}) >= i
  BY DEF Sorted
<1>4. \E w \in Range(value) : /\ Cardinality({s \in DOMAIN value : value[s] < w}) < i
                              /\ Cardinality({s \in DOMAIN value : value[s] <= w}) >= i
  BY <1>1, <1>2 DEF IsIth, Under, UpTo
<1> HIDE DEF x
<1>5. /\ x \in Range(value) /\ Cardinality({s \in DOMAIN value : value[s] < x}) < i
      /\ Cardinality({s \in DOMAIN value : value[s] <= x}) >= i
  BY <1>3, <1>4
<1>6. IsIth(value, DOMAIN value, i, x)
  BY <1>2, <1>5 DEF IsIth, Under, UpTo
<1>7. x \in Int
  BY <1>2, <1>5
<1> QED BY <1>6, <1>7 DEF x

\* The middle one of an odd number is both middle ones.
LEMMA Halving ==
    ASSUME NEW n \in Nat \ {0}
    PROVE  LET mid == n \div 2
               lo == (n + 1) \div 2
               hi == (n + 2) \div 2
           IN /\ lo \in 1 .. n /\ hi \in 1 .. n
              /\ n % 2 = 1 => lo = mid + 1 /\ hi = mid + 1
              /\ n % 2 # 1 => lo = mid /\ hi = mid + 1
OBVIOUS

\* The median of sorted values is one.
LEMMA MedianOfSorted ==
    ASSUME NEW value, IsFiniteSet(DOMAIN value), \A s \in DOMAIN value : value[s] \in Int
    PROVE  /\ IsTwiceMedian(TwiceMiddle(value), value)
           /\ DOMAIN value # {} => TwiceMiddle(value) \in Int
<1> DEFINE V == DOMAIN value
           n == Cardinality(V)
           mid == n \div 2
           lo == (n + 1) \div 2
           hi == (n + 2) \div 2
           a == Sorted(value)[lo]
           b == Sorted(value)[hi]
<1>1. Valued(value) = V
  BY NullIsNoNumber DEF Valued
<1>2. n \in Nat
  BY FS_CardinalityType
<1>3. CASE V = {}
  <2>1. n = 0
    BY <1>3, FS_EmptySet
  <2> QED BY <1>1, <1>3, <2>1 DEF IsTwiceMedian, TwiceMiddle
<1>4. CASE V # {}
  <2>1. n \in Nat \ {0}
    BY <1>2, <1>4, FS_EmptySet
  <2>2. /\ lo \in 1 .. n /\ hi \in 1 .. n
        /\ n % 2 = 1 => lo = mid + 1 /\ hi = mid + 1
        /\ n % 2 # 1 => lo = mid /\ hi = mid + 1
    <3> HIDE DEF n
    <3> QED BY <2>1, Halving
  <2>3. TwiceMiddle(value) = IF n % 2 = 1 THEN 2 * Sorted(value)[mid + 1]
                             ELSE Sorted(value)[mid] + Sorted(value)[mid + 1]
    <3>1. n # 0
      BY <2>1
    <3> QED BY <3>1 DEF TwiceMiddle
  <2> HIDE DEF mid, lo, hi
  <2>4. IsIth(value, V, lo, a) /\ a \in Int /\ IsIth(value, V, hi, b) /\ b \in Int
    BY <2>2, SortedIs
  <2>5. TwiceMiddle(value) = a + b
    <3>1. CASE n % 2 = 1
      <4>1. TwiceMiddle(value) = 2 * a /\ a = b
        BY <2>2, <2>3, <3>1
      <4> HIDE DEF a, b
      <4> QED BY <2>4, <4>1
    <3>2. CASE n % 2 # 1
      BY <2>2, <2>3, <3>2
    <3> QED BY <3>1, <3>2
  <2> HIDE DEF a, b, V
  <2>6. IsTwiceMedian(a + b, value)
    <3>1. V = Valued(value) /\ IsFiniteSet(V) /\ \A s \in V : value[s] \in Int
      BY <1>1 DEF V
    <3> QED BY <1>4, <2>4, <3>1, MidwayValues DEF lo, hi
  <2>7. a + b \in Int
    BY <2>4
  <2> QED BY <2>5, <2>6, <2>7
<1> QED BY <1>3, <1>4

-----------------------------------------------------------------------------

\* The medians of a group of sales.
LEMMA GroupMedians ==
    ASSUME TypeOK, NEW rows, rows \subseteq sales
    PROVE  /\ IsTwiceMedian(TwiceMedian(Price(rows)), Price(rows))
           /\ IsTwiceMedian(TwiceMedian(PricePerSqft(rows)), PricePerSqft(rows))
           /\ IsTwiceMedian(TwiceMiddle(Price(rows)), Price(rows))
           /\ HasMedians(StatsWithPpsf(rows), rows)
           /\ IsTwiceMedian(Stats(rows).twiceMedian, Price(rows))
<1>1. rows \subseteq Sale /\ IsFiniteSet(rows)
  BY FS_Subset DEF TypeOK
<1>2. DOMAIN Price(rows) = rows /\ \A s \in rows : Price(rows)[s] \in Int
  BY <1>1, RowType DEF Price
<1>3. DOMAIN PricePerSqft(rows) = rows /\ \A s \in rows : PricePerSqft(rows)[s] \in Value
  <2>1. "price_per_sqft" \in DOMAIN SortColumns /\ SortColumns["price_per_sqft"] = PricePerSqft(sales)
    BY DEF SortColumns
  <2>2. \A s \in sales : PricePerSqft(sales)[s] \in Value
    <3> HIDE DEF Value
    <3> QED BY <2>1, ColumnType
  <2>3. \A s \in rows : PricePerSqft(rows)[s] = PricePerSqft(sales)[s]
    BY DEF PricePerSqft
  <2> QED BY <2>2, <2>3 DEF PricePerSqft
<1>4. \A s \in rows : Price(rows)[s] \in Value
  BY <1>2 DEF Value
<1> DEFINE price == Price(rows)
           ppsf == PricePerSqft(rows)
<1> HIDE DEF price, ppsf, Value
<1>5. IsTwiceMedian(TwiceMedian(price), price)
  BY <1>1, <1>2, <1>4, MedianByRowNumber DEF price
<1>6. IsTwiceMedian(TwiceMedian(ppsf), ppsf)
  BY <1>1, <1>3, MedianByRowNumber DEF ppsf
<1>7. IsTwiceMedian(TwiceMiddle(price), price)
  BY <1>1, <1>2, MedianOfSorted DEF price
<1>8. HasMedians(StatsWithPpsf(rows), rows)
  BY <1>5, <1>6 DEF HasMedians, StatsWithPpsf, price, ppsf
<1>9. IsTwiceMedian(Stats(rows).twiceMedian, Price(rows))
  BY <1>5 DEF Stats, price
<1> QED BY <1>5, <1>6, <1>7, <1>8, <1>9 DEF price, ppsf

\* All the medians are medians.
LEMMA MediansHold == TypeOK => MediansAreMiddle
<1> SUFFICES ASSUME TypeOK PROVE MediansAreMiddle
  OBVIOUS
<1>1. ASSUME NEW parcels \in SUBSET Parcel, NEW b \in DOMAIN Trends(WithParcels(parcels))
      PROVE  HasMedians(Trends(WithParcels(parcels))[b], InPeriod(BucketRows(WithParcels(parcels)), b))
  <2> DEFINE rows == InPeriod(BucketRows(WithParcels(parcels)), b)
  <2>1. rows \subseteq sales
    BY DEF InPeriod, BucketRows, Counted
  <2>2. Trends(WithParcels(parcels))[b] = StatsWithPpsf(rows)
    BY DEF Trends
  <2> HIDE DEF rows
  <2>3. HasMedians(StatsWithPpsf(rows), rows)
    BY <2>1, GroupMedians
  <2> QED BY <2>2, <2>3 DEF rows
<1>2. ASSUME NEW parcels \in SUBSET Parcel, NEW h \in DOMAIN Neighborhoods(WithParcels(parcels))
      PROVE  HasMedians(Neighborhoods(WithParcels(parcels))[h],
                        {s \in MarketSaleRows(WithParcels(parcels)) : Hood[s.parcel] = h})
  <2> DEFINE rows == {s \in MarketSaleRows(WithParcels(parcels)) : Hood[s.parcel] = h}
  <2>1. rows \subseteq sales
    BY DEF MarketSaleRows
  <2>2. Neighborhoods(WithParcels(parcels))[h] = StatsWithPpsf(rows)
    BY DEF Neighborhoods
  <2> HIDE DEF rows
  <2>3. HasMedians(StatsWithPpsf(rows), rows)
    BY <2>1, GroupMedians
  <2> QED BY <2>2, <2>3 DEF rows
<1>3. ASSUME NEW h \in DOMAIN HoodStats
      PROVE  IsTwiceMedian(HoodStats[h].twiceMedian, Price({s \in Priced : s.hood = h}))
  <2> DEFINE rows == {s \in Priced : s.hood = h}
  <2>1. rows \subseteq sales
    BY DEF Priced
  <2>2. HoodStats[h] = Stats(rows)
    BY DEF HoodStats
  <2> HIDE DEF rows
  <2>3. IsTwiceMedian(Stats(rows).twiceMedian, Price(rows))
    BY <2>1, GroupMedians
  <2> QED BY <2>2, <2>3 DEF rows
<1>4. ASSUME NEW y \in DOMAIN YearlyTrend
      PROVE  /\ IsTwiceMedian(YearlyTrend[y].median, Price(OfYear(y[1], y[2])))
             /\ YearlyTrend[y].prior # NULL =>
                   IsTwiceMedian(YearlyTrend[y].prior, Price(OfYear(y[1], y[2] - 1)))
  <2> DEFINE rows == OfYear(y[1], y[2])
             before == OfYear(y[1], y[2] - 1)
  <2>1. rows \subseteq sales /\ before \subseteq sales
    BY DEF OfYear, Priced
  <2>2. /\ YearlyTrend[y].median = TwiceMedian(Price(rows))
        /\ YearlyTrend[y].prior # NULL => YearlyTrend[y].prior = TwiceMedian(Price(before))
    BY DEF YearlyTrend
  <2> HIDE DEF rows, before
  <2>3. /\ IsTwiceMedian(TwiceMedian(Price(rows)), Price(rows))
        /\ IsTwiceMedian(TwiceMedian(Price(before)), Price(before))
    BY <2>1, GroupMedians
  <2> QED BY <2>2, <2>3 DEF rows, before
<1>5. ASSUME NEW p \in Parcel, NEW rows \in ComparableSales(p, 2 * Limit)
      PROVE  IsTwiceMedian(TwiceMiddle(Price(rows)), Price(rows))
  <2>1. rows \subseteq sales
    BY DEF ComparableSales, NewestFirst
  <2> QED BY <2>1, GroupMedians
<1> QED BY <1>1, <1>2, <1>3, <1>4, <1>5 DEF MediansAreMiddle

\* The medians of every group of sales, from row numbers or from sorted values,
\* are medians, for every table.
THEOREM MediansAlwaysMiddle == Spec => []MediansAreMiddle
BY TableTypes, MediansHold, PTL

-----------------------------------------------------------------------------
(* Neighborhoods.                                                           *)

SalesOf(h) == MarketSaleRows(InHood(h))

YearOf == [s \in Sale |-> CalendarYear[s.date]]

\* The sales of a neighborhood: rows of the table, whose parcels are in it.
LEMMA HoodSales ==
    ASSUME TypeOK, NEW h
    PROVE  /\ SalesOf(h) \subseteq sales /\ SalesOf(h) \subseteq Sale /\ IsFiniteSet(SalesOf(h))
           /\ \A s \in SalesOf(h) : Hood[s.parcel] = h
           /\ SalesOf(h) = {s \in MarketSaleRows(WithParcels(Parcel)) : Hood[s.parcel] = h}
           /\ Selected(InHood(h), TRUE) = SalesOf(h)
<1>1. \A s : s \in SalesOf(h) <=> /\ s \in sales /\ MarketSale(s, FALSE, FALSE) /\ SingleParcel(s)
                                  /\ s.parcel \in {p \in Parcel : Hood[p] = h}
  BY ListedSale DEF SalesOf, InHood
<1>2. \A s : s \in MarketSaleRows(WithParcels(Parcel)) <=>
                /\ s \in sales /\ MarketSale(s, FALSE, FALSE) /\ SingleParcel(s) /\ s.parcel \in Parcel
  BY ListedSale
<1>3. SalesOf(h) \subseteq sales /\ SalesOf(h) \subseteq Sale /\ IsFiniteSet(SalesOf(h))
  <2>1. SalesOf(h) \subseteq sales
    BY <1>1
  <2> QED BY <2>1, FS_Subset DEF TypeOK
<1>4. \A s \in SalesOf(h) : Hood[s.parcel] = h
  BY <1>1
<1>5. SalesOf(h) = {s \in MarketSaleRows(WithParcels(Parcel)) : Hood[s.parcel] = h}
  BY <1>1, <1>2
<1>6. Selected(InHood(h), TRUE) = SalesOf(h)
  BY DEF Selected, SalesOf
<1> QED BY <1>3, <1>4, <1>5, <1>6

\* A line of the report for each year with a sale.
LEMMA TrendIs ==
    ASSUME TypeOK, NEW h
    PROVE  LET trend == Report(h).trend
           IN /\ DOMAIN trend = {YearOf[s] : s \in SalesOf(h)}
              /\ \A y \in DOMAIN trend : trend[y] = StatsWithPpsf({s \in SalesOf(h) : YearOf[s] = y})
<1> DEFINE f == InHood(h)
           trend == Report(h).trend
           rows == SalesOf(h)
           Key(s) == <<Hood[s.parcel], CalendarYear[s.date]>>
<1>1. rows \subseteq Sale /\ \A s \in rows : Hood[s.parcel] = h
  BY HoodSales
<1>2. /\ DOMAIN HoodYears(f) = {Key(s) : s \in rows}
      /\ \A g \in DOMAIN HoodYears(f) : HoodYears(f)[g] = StatsWithPpsf({s \in rows : Key(s) = g})
  BY DEF HoodYears, SalesOf
<1>3. trend = [y \in {g[2] : g \in {k \in DOMAIN HoodYears(f) : k[1] = h}} |-> HoodYears(f)[<<h, y>>]]
  BY DEF Report
<1> HIDE DEF rows, f
<1>4. \A s \in rows : Key(s) = <<h, YearOf[s]>>
  BY <1>1 DEF YearOf
<1>5. DOMAIN HoodYears(f) = {<<h, YearOf[s]>> : s \in rows}
  BY <1>2, <1>4
<1>6. {g[2] : g \in {k \in DOMAIN HoodYears(f) : k[1] = h}} = {YearOf[s] : s \in rows}
  <2> DEFINE keys == DOMAIN HoodYears(f)
  <2>1. \A g \in keys : g[1] = h /\ g[2] \in {YearOf[s] : s \in rows}
    BY <1>5
  <2>2. \A s \in rows : <<h, YearOf[s]>> \in keys /\ <<h, YearOf[s]>>[2] = YearOf[s]
    BY <1>5
  <2> HIDE DEF keys
  <2>3. {k \in keys : k[1] = h} = keys
    BY <2>1
  <2>4. {g[2] : g \in keys} = {YearOf[s] : s \in rows}
    BY <2>1, <2>2
  <2> QED BY <2>3, <2>4 DEF keys
<1>7. \A y \in {YearOf[s] : s \in rows} :
        HoodYears(f)[<<h, y>>] = StatsWithPpsf({s \in rows : YearOf[s] = y})
  <2> SUFFICES ASSUME NEW y \in {YearOf[s] : s \in rows}
               PROVE  HoodYears(f)[<<h, y>>] = StatsWithPpsf({s \in rows : YearOf[s] = y})
    OBVIOUS
  <2>1. <<h, y>> \in DOMAIN HoodYears(f)
    BY <1>5
  <2>2. {s \in rows : Key(s) = <<h, y>>} = {s \in rows : YearOf[s] = y}
    BY <1>4
  <2> HIDE DEF Key
  <2> QED BY <1>2, <2>1, <2>2
<1> QED BY <1>3, <1>6, <1>7 DEF rows

\* The years add up to the list and to the row of the neighborhood.
LEMMA HoodYearsAddUp ==
    ASSUME TypeOK, NEW h, h # NULL
    PROVE  LET trend == Report(h).trend
               row == Neighborhoods(InHood(h))
           IN /\ SumOver([y \in DOMAIN trend |-> trend[y].count]) = Cardinality(SalesOf(h))
              /\ SumOver([y \in DOMAIN trend |-> trend[y].volume])
                    = (IF h \in DOMAIN row THEN row[h].volume ELSE 0)
<1> DEFINE trend == Report(h).trend
           years == DOMAIN trend
           rows == SalesOf(h)
           row == Neighborhoods(InHood(h))
           Of(y) == {s \in rows : YearOf[s] = y}
           count == [y \in years |-> trend[y].count]
           volume == [y \in years |-> trend[y].volume]
           one == [s \in rows |-> 1]
           counted == [y \in years |-> SumOf(one, Of(y))]
           paid == [y \in years |-> SumOf(PriceOf, Of(y))]
<1>1. rows \subseteq Sale /\ IsFiniteSet(rows) /\ \A s \in rows : Hood[s.parcel] = h
  BY HoodSales
<1>2. years = {YearOf[s] : s \in rows}
  BY TrendIs
<1>3. IsFiniteSet(years) /\ \A s \in rows : YearOf[s] \in years
  BY <1>1, <1>2, FiniteImage
<1>4. \A y \in years : trend[y] = StatsWithPpsf(Of(y))
  BY TrendIs
<1>5. \A y \in years : /\ Of(y) \subseteq rows /\ IsFiniteSet(Of(y))
                       /\ Of(y) \subseteq Sale
  BY <1>1, FS_Subset
<1>6. /\ \A s \in rows : one[s] = 1 /\ one[s] \in Int
      /\ \A s \in rows : PriceOf[s] \in Int
  BY <1>1, RowType DEF PriceOf
<1>7. SumOver(count) = SumOf(count, years) /\ SumOver(volume) = SumOf(volume, years)
  <2>1. DOMAIN count = years /\ DOMAIN volume = years
    OBVIOUS
  <2> HIDE DEF count, volume
  <2> QED BY <2>1, SumOverIs
<1>8. \A y \in years : count[y] = Cardinality(Of(y)) /\ volume[y] = Volume(Of(y))
  <2> SUFFICES ASSUME NEW y \in years
               PROVE  trend[y].count = Cardinality(Of(y)) /\ trend[y].volume = Volume(Of(y))
    OBVIOUS
  <2> HIDE DEF trend, Of
  <2> QED BY <1>4 DEF StatsWithPpsf
<1> HIDE DEF trend, years, rows, row, one, count, volume
<1>9. \A y \in years : SumOf(one, Of(y)) = Cardinality(Of(y)) /\ SumOf(PriceOf, Of(y)) = Volume(Of(y))
  <2> SUFFICES ASSUME NEW y \in years
               PROVE  SumOf(one, Of(y)) = Cardinality(Of(y)) /\ SumOf(PriceOf, Of(y)) = Volume(Of(y))
    OBVIOUS
  <2>1. SumOf(one, Of(y)) = Cardinality(Of(y))
    <3>1. IsFiniteSet(Of(y)) /\ \A s \in Of(y) : one[s] = 1
      BY <1>5, <1>6
    <3> HIDE DEF Of
    <3> QED BY <3>1, SumOfOnes
  <2>2. SumOf(PriceOf, Of(y)) = Volume(Of(y))
    <3>1. IsFiniteSet(Of(y)) /\ Of(y) \subseteq Sale
      BY <1>5
    <3> HIDE DEF Of
    <3> QED BY <3>1, VolumeIs
  <2> QED BY <2>1, <2>2
<1>10. SumOf(one, rows) = SumOf(counted, years) /\ SumOf(PriceOf, rows) = SumOf(paid, years)
  <2>1. SumOf(one, rows) = SumOf([y \in years |-> SumOf(one, {s \in rows : YearOf[s] = y})], years)
    BY <1>1, <1>3, <1>6, SumByGroup
  <2>2. SumOf(PriceOf, rows) = SumOf([y \in years |-> SumOf(PriceOf, {s \in rows : YearOf[s] = y})], years)
    BY <1>1, <1>3, <1>6, SumByGroup
  <2> QED BY <2>1, <2>2
<1>11. \A y \in years : count[y] = counted[y] /\ volume[y] = paid[y]
  BY <1>8, <1>9
<1> HIDE DEF counted, paid
<1>12. SumOf(count, years) = SumOf(counted, years) /\ SumOf(volume, years) = SumOf(paid, years)
  BY <1>3, <1>11, SumSame
<1>13. SumOf(one, rows) = Cardinality(rows) /\ SumOf(PriceOf, rows) = Volume(rows)
  BY <1>1, <1>6, SumOfOnes, VolumeIs
<1>14. SumOver(volume) = (IF h \in DOMAIN row THEN row[h].volume ELSE 0)
  <2>1. DOMAIN row = {Hood[s.parcel] : s \in rows} \ {NULL}
    BY DEF row, rows, Neighborhoods, SalesOf
  <2>2. CASE rows = {}
    <3>1. SumOf(PriceOf, rows) = 0
      BY <2>2, SumEmpty
    <3>2. h \notin DOMAIN row
      BY <2>1, <2>2
    <3> QED BY <1>7, <1>10, <1>12, <3>1, <3>2
  <2>3. CASE rows # {}
    <3>1. h \in DOMAIN row
      BY <1>1, <2>1, <2>3
    <3>2. {s \in rows : Hood[s.parcel] = h} = rows
      BY <1>1
    <3>3. row[h] = StatsWithPpsf(rows)
      BY <3>1, <3>2 DEF row, rows, Neighborhoods, SalesOf
    <3>4. row[h].volume = Volume(rows)
      BY <3>3 DEF StatsWithPpsf
    <3> QED BY <1>7, <1>10, <1>12, <1>13, <3>1, <3>4
  <2> QED BY <2>2, <2>3
<1>15. SumOver(count) = Cardinality(rows)
  BY <1>7, <1>10, <1>12, <1>13
<1> QED BY <1>14, <1>15 DEF count, volume, years, trend, row, rows

\* What the first page of the newest first leaves out is no newer.
LEMMA RecentAreNewest ==
    ASSUME TypeOK, NEW h, NEW s \in Report(h).recent, NEW r \in SalesOf(h) \ Report(h).recent
    PROVE  r.date <= s.date
<1> DEFINE rows == SalesOf(h)
           column == SortColumns["sale_date"]
           before == [t \in rows |-> {q \in rows : Ordered(column, "desc", q, t)}]
           rank == [t \in rows |-> Cardinality(before[t])]
           P == PageSize
           page == OnPage(rows, column, "desc", 1)
<1>1. rows \subseteq sales /\ rows \subseteq Sale /\ IsFiniteSet(rows)
  BY HoodSales
<1>2. \A t \in rows : column[t] = t.date /\ column[t] \in Int /\ column[t] \in Value
  BY <1>1, RowType DEF SortColumns, Value
<1>3. Report(h).recent = page
  <2>1. SortColumns.sale_date = column
    OBVIOUS
  <2>2. Selected(InHood(h), TRUE) = rows
    BY HoodSales
  <2> HIDE DEF column, rows
  <2> QED BY <2>1, <2>2 DEF Report
<1> HIDE DEF rows, column, Value
<1>4. \A t \in rows : Positions(rows, column, "desc", t) = {rank[t]}
  <2> SUFFICES ASSUME NEW t \in rows PROVE Positions(rows, column, "desc", t) = {rank[t]}
    OBVIOUS
  <2>1. rank[t] = Cardinality({q \in rows : Ordered(column, "desc", q, t)})
    OBVIOUS
  <2> HIDE DEF rank
  <2> QED BY <1>1, <1>2, <2>1, OnePosition
<1>5. StrictOrder(before, rows)
  BY <1>1, <1>2, OrderedStrictly
<1>6. \A q, t \in rows : q \in before[t] <=> Ordered(column, "desc", q, t)
  OBVIOUS
<1>7. \A t \in rows : rank[t] = Cardinality(before[t])
  OBVIOUS
<1>8. P \in Nat \ {0}
  BY ListingAssumption
<1> HIDE DEF before, rank
<1>9. /\ \A t \in rows : rank[t] \in Nat
      /\ \A q, t \in rows : q \in before[t] => rank[q] < rank[t]
  <2>1. /\ \A t \in rows : IsFiniteSet(before[t])
        /\ \A q, t \in rows : q \in before[t] => Cardinality(before[q]) < Cardinality(before[t])
    BY <1>1, <1>5, Ranks
  <2> QED BY <1>7, <2>1, FS_CardinalityType
<1>10. \A t \in rows : t \in page <=> rank[t] < P
  <2> SUFFICES ASSUME NEW t \in rows PROVE t \in page <=> rank[t] < P
    OBVIOUS
  <2>1. t \in page <=> {rank[t]} \cap ((1 - 1) * PageSize .. (1 - 1) * PageSize + PageSize - 1) # {}
    BY <1>4 DEF OnPage
  <2>2. (1 - 1) * PageSize = 0
    BY <1>8
  <2>3. t \in page <=> rank[t] \in 0 .. 0 + PageSize - 1
    BY <2>1, <2>2
  <2> HIDE DEF page
  <2> QED BY <1>8, <1>9, <2>3
<1>11. s \in rows /\ r \in rows /\ s \in page /\ r \notin page
  BY <1>3 DEF OnPage, rows
<1> SUFFICES ASSUME ~ r.date <= s.date PROVE FALSE
  OBVIOUS
<1>12. r.date > s.date
  BY <1>2, <1>11
<1>13. Ordered(column, "desc", r, s)
  <2>1. column[r] > column[s] /\ column[r] # NULL /\ column[s] # NULL
    BY <1>2, <1>11, <1>12, NullIsNoNumber
  <2> QED BY <2>1 DEF Ordered, Precedes
<1>14. rank[r] < rank[s] /\ rank[r] \in Nat /\ rank[s] \in Nat
  BY <1>6, <1>9, <1>11, <1>13
<1>15. rank[s] < P /\ ~ rank[r] < P
  BY <1>10, <1>11
<1> QED BY <1>8, <1>14, <1>15

\* A line of the trends is a line of the report.
LEMMA TrendLine ==
    ASSUME TypeOK, NEW h, NEW g \in DOMAIN HoodYears(WithParcels(Parcel)), g[1] = h
    PROVE  HoodYears(WithParcels(Parcel))[g] = Report(h).trend[g[2]]
<1> DEFINE rows == SalesOf(h)
           all == MarketSaleRows(WithParcels(Parcel))
           f == WithParcels(Parcel)
           Key(s) == <<Hood[s.parcel], CalendarYear[s.date]>>
           y == g[2]
<1>1. /\ rows \subseteq Sale /\ \A s \in rows : Hood[s.parcel] = h
      /\ rows = {s \in all : Hood[s.parcel] = h}
  BY HoodSales
<1>2. /\ g \in {Key(s) : s \in all}
      /\ HoodYears(f)[g] = StatsWithPpsf({s \in all : Key(s) = g})
  BY DEF HoodYears
<1> HIDE DEF rows, all
<1>3. PICK t \in all : g = <<Hood[t.parcel], CalendarYear[t.date]>>
  BY <1>2
<1>4. g = <<h, y>> /\ Hood[t.parcel] = h /\ y = CalendarYear[t.date]
  BY <1>3
<1>5. t \in rows /\ y = YearOf[t]
  <2>1. t \in rows
    BY <1>1, <1>4
  <2> QED BY <1>1, <1>4, <2>1 DEF YearOf
<1> HIDE DEF y
<1>6. {s \in all : Key(s) = g} = {s \in rows : YearOf[s] = y}
  <2>1. \A s \in all : Key(s) = g <=> Hood[s.parcel] = h /\ CalendarYear[s.date] = y
    BY <1>4
  <2>2. \A s \in rows : YearOf[s] = CalendarYear[s.date]
    BY <1>1 DEF YearOf
  <2> HIDE DEF Key
  <2>3. \A s : s \in all /\ Key(s) = g <=> s \in rows /\ YearOf[s] = y
    BY <1>1, <2>1, <2>2
  <2> QED BY <2>3
<1>7. Report(h).trend[y] = StatsWithPpsf({s \in rows : YearOf[s] = y})
  <2>1. y \in DOMAIN Report(h).trend
    BY <1>5, TrendIs DEF rows
  <2> QED BY <2>1, TrendIs DEF rows
<1> HIDE DEF Key
<1>8. HoodYears(f)[g] = Report(h).trend[y]
  BY <1>2, <1>6, <1>7
<1> QED BY <1>8 DEF y

\* A sale of the list in the two years of the summary makes its parcel one of the
\* recently sold, unless it is there twice.
LEMMA ListedRecently ==
    ASSUME TypeOK, NEW h, NEW s \in SalesOf(h), s.date >= LatestSaleDate - 2 * Year,
           ~ \E r \in sales : r # s /\ r.parcel = s.parcel /\ SameDeal(r, s), s.parcel \in Active
    PROVE  s.parcel \in RecentlySold(h)
<1> DEFINE p == s.parcel
           dates == {q.date : q \in {r \in sales : MarketSaleCriteria(r, FALSE, FALSE)}}
           last == LastSale(p)
<1>1. s \in sales /\ MarketSale(s, FALSE, FALSE) /\ Hood[p] = h
  <2>1. s \in MarketSaleRows(WithParcels(Parcel)) /\ Hood[p] = h
    BY HoodSales
  <2> QED BY <2>1, ListedSale
<1>2. s \in SummarySales(p)
  <2>1. s \in MarketSaleRows(WithParcels(Parcel))
    BY HoodSales
  <2> QED BY <2>1, ListedInSummary
<1>3. last # NULL /\ last \in sales /\ s.date <= last.date
  BY <1>2, LastSaleIsNewest
<1>4. LatestSaleDate # NULL /\ LatestSaleDate \in Int
  <2> DEFINE rows == {r \in sales : MarketSaleCriteria(r, FALSE, FALSE)}
  <2>1. s \in rows
    BY <1>1 DEF MarketSale
  <2>2. rows \subseteq Sale /\ IsFiniteSet(rows) /\ \A q \in rows : q.date \in Int
    BY FS_Subset, RowType DEF TypeOK
  <2>3. dates # {}
    BY <2>1
  <2>4. LatestSaleDate = Max(dates)
    BY <2>3 DEF LatestSaleDate
  <2>5. dates = {q.date : q \in rows}
    OBVIOUS
  <2> HIDE DEF rows
  <2>6. Max({q.date : q \in rows}) \in {q.date : q \in rows}
    BY <2>1, <2>2, NewestDate
  <2>7. LatestSaleDate \in Int
    BY <2>2, <2>4, <2>5, <2>6
  <2> QED BY <2>7, NullIsNoNumber
<1>5. s.date \in Int /\ last.date \in Int /\ Year \in Int
  BY <1>1, <1>3, RowType, StatisticsAssumption DEF TypeOK
<1> HIDE DEF last
<1>6. last.date >= LatestSaleDate - 2 * Year
  <2> DEFINE from == LatestSaleDate - 2 * Year
  <2>1. from \in Int /\ s.date >= from
    BY <1>4, <1>5
  <2> HIDE DEF from
  <2>2. last.date >= from
    BY <1>3, <1>5, <2>1
  <2> QED BY <2>2 DEF from
<1> QED BY <1>1, <1>3, <1>4, <1>6 DEF RecentlySold, last

\* The median of the values there are.
LEMMA MedianOfValued ==
    ASSUME NEW value, IsFiniteSet(DOMAIN value), \A p \in DOMAIN value : value[p] \in Value
    PROVE  /\ IsTwiceMedian(MedianOf(value), value)
           /\ Valued(value) # {} => MedianOf(value) \in Int
<1> DEFINE V == Valued(value)
           known == [p \in V |-> value[p]]
           M == TwiceMiddle(known)
<1>1. /\ V \subseteq DOMAIN value /\ IsFiniteSet(V) /\ \A p \in V : value[p] \in Int
      /\ MedianOf(value) = M
  BY FS_Subset DEF Valued, Value, MedianOf
<1>2. DOMAIN known = V /\ \A p \in V : known[p] = value[p]
  OBVIOUS
<1> HIDE DEF known, V
<1>3. IsTwiceMedian(M, known) /\ (V # {} => M \in Int)
  BY <1>1, <1>2, MedianOfSorted
<1>4. Valued(known) = V
  BY <1>1, <1>2, NullIsNoNumber DEF Valued
<1> HIDE DEF M
<1>5. IsTwiceMedian(M, value)
  <2>1. CASE V = {}
    BY <1>3, <1>4, <2>1 DEF IsTwiceMedian, V
  <2>2. CASE V # {}
    <3>1. {known[p] : p \in V} = {value[p] : p \in V}
      BY <1>2
    <3>2. \A v : /\ {p \in V : known[p] < v} = {p \in V : value[p] < v}
                 /\ {p \in V : known[p] > v} = {p \in V : value[p] > v}
      BY <1>2
    <3> DEFINE Halves(v) == /\ 2 * Cardinality({p \in V : value[p] < v}) <= Cardinality(V)
                            /\ 2 * Cardinality({p \in V : value[p] > v}) <= Cardinality(V)
               middle == {v \in {value[p] : p \in V} : Halves(v)}
               knownHalves == {v \in {known[p] : p \in V} :
                                /\ 2 * Cardinality({p \in V : known[p] < v}) <= Cardinality(V)
                                /\ 2 * Cardinality({p \in V : known[p] > v}) <= Cardinality(V)}
    <3>3. middle = knownHalves
      BY <3>1, <3>2
    <3>4. M = Min(knownHalves) + Max(knownHalves)
      BY <1>3, <1>4, <2>2 DEF IsTwiceMedian
    <3>5. IsTwiceMedian(M, value) <=> M = Min(middle) + Max(middle)
      BY <2>2 DEF IsTwiceMedian, V
    <3> HIDE DEF middle, knownHalves
    <3> QED BY <3>3, <3>4, <3>5
  <2> QED BY <2>1, <2>2
<1> QED BY <1>1, <1>3, <1>5 DEF V

\* What the summary has of the last sales in a neighborhood.
LEMMA RecentlySoldType ==
    ASSUME TypeOK, NEW h
    PROVE  /\ IsFiniteSet(RecentlySold(h)) /\ RecentlySold(h) \subseteq Parcel
           /\ \A p \in RecentlySold(h) : /\ LastSale(p) \in sales /\ LastSale(p).price \in Value
                                         /\ Summaries[p].ppsf \in Value
<1> DEFINE parcel == [s \in sales |-> s.parcel]
<1>1. \A p \in RecentlySold(h) : p \in Parcel /\ LastSale(p) \in SummarySales(p) /\ LastSale(p) \in sales
  BY LastSaleIsNewest, NeighborhoodAssumption DEF RecentlySold
<1>2. \A p \in RecentlySold(h) : LastSale(p).parcel = p
  BY <1>1 DEF SummarySales
<1>3. RecentlySold(h) \subseteq {parcel[s] : s \in sales}
  BY <1>1, <1>2
<1>4. IsFiniteSet(RecentlySold(h))
  <2>1. IsFiniteSet({parcel[s] : s \in sales})
    BY FiniteImage DEF TypeOK
  <2> QED BY <1>3, <2>1, FS_Subset
<1>5. \A p \in RecentlySold(h) : LastSale(p).price \in Value
  BY <1>1, RowType DEF TypeOK, Value
<1>6. ASSUME NEW p \in RecentlySold(h) PROVE Summaries[p].ppsf \in Value
  <2> DEFINE s == LastSale(p)
  <2>1. s \in sales /\ p \in Parcel
    BY <1>1
  <2>2. Summaries[p].ppsf = IF s = NULL THEN NULL ELSE PricePerSqft({s})[s]
    BY <2>1 DEF Summaries
  <2> HIDE DEF s
  <2>3. PricePerSqft({s})[s] = PricePerSqft(sales)[s]
    BY <2>1 DEF PricePerSqft
  <2>4. PricePerSqft(sales)[s] \in Value
    <3>1. "price_per_sqft" \in DOMAIN SortColumns /\ SortColumns["price_per_sqft"] = PricePerSqft(sales)
      BY DEF SortColumns
    <3> HIDE DEF Value
    <3> QED BY <2>1, <3>1, ColumnType
  <2>5. NULL \in Value
    BY DEF Value
  <2> QED BY <2>2, <2>3, <2>4, <2>5
<1> QED BY <1>1, <1>4, <1>5, <1>6

\* A parcel that shows a price per square foot from the summary's years has its
\* neighborhood's to compare it with.
LEMMA ComparedWithHood ==
    ASSUME TypeOK, NEW p \in Active, Hood[p] # NULL, ProfileValue(p).ppsf # NULL,
           ProfileValue(p).last.date >= LatestSaleDate - 2 * Year
    PROVE  ProfileValue(p).hoodPpsf # NULL
<1> DEFINE h == Hood[p]
           s == LastSale(p)
           rows == {r \in sales : MarketSaleCriteria(r, FALSE, FALSE)}
           ppsf == [q \in RecentlySold(h) |-> Summaries[q].ppsf]
<1>1. p \in Parcel
  BY NeighborhoodAssumption
<1>2. Summaries[p].ppsf # NULL /\ s.date >= LatestSaleDate - 2 * Year
  BY <1>1 DEF ProfileValue, Summaries
<1>3. s # NULL /\ s \in SummarySales(p)
  <2>1. s # NULL
    BY <1>1, <1>2 DEF Summaries
  <2> QED BY <2>1, LastSaleIsNewest
<1>4. s \in rows
  BY <1>3 DEF SummarySales, Counted, MarketSale
<1>5. LatestSaleDate # NULL
  <2>1. rows \subseteq Sale /\ IsFiniteSet(rows) /\ \A q \in rows : q.date \in Int
    BY FS_Subset, RowType DEF TypeOK
  <2>2. LatestSaleDate = Max({q.date : q \in rows})
    BY <1>4 DEF LatestSaleDate
  <2> HIDE DEF rows
  <2>3. Max({q.date : q \in rows}) \in {q.date : q \in rows}
    BY <1>4, <2>1, NewestDate
  <2>4. LatestSaleDate \in Int
    BY <2>1, <2>2, <2>3
  <2> QED BY <2>4, NullIsNoNumber
<1>6. p \in RecentlySold(h)
  BY <1>2, <1>3, <1>5 DEF RecentlySold
<1>7. /\ DOMAIN ppsf = RecentlySold(h) /\ IsFiniteSet(DOMAIN ppsf)
      /\ \A q \in DOMAIN ppsf : ppsf[q] \in Value
  BY RecentlySoldType
<1>8. p \in Valued(ppsf)
  BY <1>2, <1>6 DEF Valued
<1>9. ProfileValue(p).hoodPpsf = MedianOf(ppsf)
  <2>1. h \in {Hood[q] : q \in Active} \ {NULL}
    OBVIOUS
  <2>2. h \in DOMAIN NeighborhoodSummary /\ NeighborhoodSummary[h].ppsf = MedianOf(ppsf)
    BY <2>1 DEF NeighborhoodSummary
  <2> HIDE DEF ppsf
  <2> QED BY <2>2 DEF ProfileValue
<1> HIDE DEF ppsf, Value
<1>10. MedianOf(ppsf) \in Int
  BY <1>7, <1>8, MedianOfValued
<1> QED BY <1>9, <1>10, NullIsNoNumber

\* What is said of a neighborhood agrees.
LEMMA NeighborhoodsHold == TypeOK => NeighborhoodsAgree
<1> SUFFICES ASSUME TypeOK PROVE NeighborhoodsAgree
  OBVIOUS
<1>1. ASSUME NEW h \in {Hood[p] : p \in Parcel} \ {NULL}
      PROVE  LET listed == Selected(InHood(h), TRUE)
                 trend == Report(h).trend
                 row == Neighborhoods(InHood(h))
                 recent == Report(h).recent
             IN /\ SumOver([y \in DOMAIN trend |-> trend[y].count]) = Cardinality(listed)
                /\ SumOver([y \in DOMAIN trend |-> trend[y].volume])
                     = (IF h \in DOMAIN row THEN row[h].volume ELSE 0)
                /\ \A s \in recent, r \in listed \ recent : r.date <= s.date
                /\ \A hoods \in Leading(WithParcels(Parcel)) :
                      \A g \in NeighborhoodTrends(WithParcels(Parcel), hoods) :
                         g[1] = h => HoodYears(WithParcels(Parcel))[g] = trend[g[2]]
  <2>1. Selected(InHood(h), TRUE) = SalesOf(h)
    BY HoodSales
  <2>2. /\ SumOver([y \in DOMAIN Report(h).trend |-> Report(h).trend[y].count]) = Cardinality(SalesOf(h))
        /\ SumOver([y \in DOMAIN Report(h).trend |-> Report(h).trend[y].volume])
             = (IF h \in DOMAIN Neighborhoods(InHood(h)) THEN Neighborhoods(InHood(h))[h].volume ELSE 0)
    BY HoodYearsAddUp
  <2>3. \A s \in Report(h).recent, r \in SalesOf(h) \ Report(h).recent : r.date <= s.date
    BY RecentAreNewest
  <2>4. ASSUME NEW hoods \in Leading(WithParcels(Parcel)),
               NEW g \in NeighborhoodTrends(WithParcels(Parcel), hoods), g[1] = h
        PROVE  HoodYears(WithParcels(Parcel))[g] = Report(h).trend[g[2]]
    <3>1. g \in DOMAIN HoodYears(WithParcels(Parcel))
      BY DEF NeighborhoodTrends
    <3> QED BY <2>4, <3>1, TrendLine
  <2> QED BY <2>1, <2>2, <2>3, <2>4
<1>2. ASSUME NEW h \in DOMAIN NeighborhoodSummary
      PROVE  LET row == NeighborhoodSummary[h]
                 Copied(s) == \E r \in sales : r # s /\ r.parcel = s.parcel /\ SameDeal(r, s)
                 sold == {s.parcel : s \in {r \in MarketSaleRows(InHood(h)) :
                             r.date >= LatestSaleDate - 2 * Year /\ ~ Copied(r)}}
                 Prices == [p \in RecentlySold(h) |-> LastSale(p).price]
             IN /\ sold \cap Active \subseteq RecentlySold(h)
                /\ IsTwiceMedian(row.price, Prices)
  <2> DEFINE Prices == [p \in RecentlySold(h) |-> LastSale(p).price]
             row == NeighborhoodSummary[h]
  <2>1. \A s \in SalesOf(h) :
            /\ s.date >= LatestSaleDate - 2 * Year
            /\ ~ \E r \in sales : r # s /\ r.parcel = s.parcel /\ SameDeal(r, s)
            /\ s.parcel \in Active
            => s.parcel \in RecentlySold(h)
    BY ListedRecently
  <2>2. row.price = MedianOf(Prices)
    BY DEF NeighborhoodSummary
  <2>3. IsFiniteSet(DOMAIN Prices) /\ \A p \in DOMAIN Prices : Prices[p] \in Value
    BY RecentlySoldType
  <2> HIDE DEF Prices, Value
  <2>4. IsTwiceMedian(MedianOf(Prices), Prices)
    BY <2>3, MedianOfValued
  <2>5. IsTwiceMedian(row.price, Prices)
    BY <2>2, <2>4
  <2> QED BY <2>1, <2>5 DEF Prices, SalesOf
<1>3. ASSUME NEW p \in Active
      PROVE  LET value == ProfileValue(p)
             IN Hood[p] # NULL /\ value.ppsf # NULL /\ value.last.date >= LatestSaleDate - 2 * Year
                    => value.hoodPpsf # NULL
  BY ComparedWithHood
<1> QED BY <1>1, <1>2, <1>3 DEF NeighborhoodsAgree

\* The report, the list, the trends and the summary of a neighborhood agree, for
\* every table.
THEOREM NeighborhoodsAlwaysAgree == Spec => []NeighborhoodsAgree
BY TableTypes, NeighborhoodsHold, PTL

-----------------------------------------------------------------------------
(* The map: values.                                                         *)

\* A number is written as itself or as the largest that fits.
LEMMA Clamped ==
    ASSUME NEW v \in Nat \cup {NULL}, NEW top \in Int, NEW missing
    PROVE  /\ v = NULL => Clamp(v, top, missing) = missing
           /\ v # NULL => /\ Clamp(v, top, missing) \in Int /\ Clamp(v, top, missing) <= top
                          /\ \/ Clamp(v, top, missing) = v
                             \/ v > top /\ Clamp(v, top, missing) = top
<1>1. CASE v = NULL
  BY <1>1 DEF Clamp
<1>2. CASE v # NULL
  <2>1. v \in Int /\ Clamp(v, top, missing) = Min({v, top})
    BY <1>2 DEF Clamp
  <2>2. Min({v, top}) = IF v <= top THEN v ELSE top
    BY <2>1, MinOfTwo
  <2>3. /\ Clamp(v, top, missing) \in Int /\ Clamp(v, top, missing) <= top
        /\ Clamp(v, top, missing) = v \/ (v > top /\ Clamp(v, top, missing) = top)
    BY <2>1, <2>2
  <2> QED BY <1>2, <2>3
<1> QED BY <1>1, <1>2

\* A price as a float32.
LEMMA FloatIsClose ==
    ASSUME NEW v \in Nat
    PROVE  /\ Gap(Float32(v), v) * Mantissa <= v
           /\ v < Mantissa => Float32(v) = v
<1>1. Mantissa \in Nat \ {0} /\ NULL \notin Int
  BY EncodingAssumption, NullIsNoNumber
<1>2. CASE v < Mantissa \/ v % 2 = 0
  <2>1. Float32(v) = v
    BY <1>2 DEF Float32
  <2>2. Gap(v, v) = 0
    BY <1>1 DEF Gap
  <2>3. 0 * Mantissa = 0
    BY <1>1
  <2> QED BY <2>1, <2>2, <2>3
<1>3. CASE ~(v < Mantissa \/ v % 2 = 0)
  <2>1. v >= Mantissa
    BY <1>1, <1>3
  <2>2. Float32(v) = v - 1 \/ Float32(v) = v + 1
    BY <1>3 DEF Float32
  <2>3. Gap(v - 1, v) = 1 /\ Gap(v + 1, v) = 1
    <3>1. v - 1 \in Int /\ v + 1 \in Int /\ v - 1 # NULL /\ v + 1 # NULL /\ v # NULL
      BY <1>1
    <3> QED BY <3>1 DEF Gap
  <2>4. 1 * Mantissa = Mantissa
    BY <1>1
  <2> QED BY <1>1, <2>1, <2>2, <2>3, <2>4
<1> QED BY <1>2, <1>3

MappedHoods == {Hood[Mapped[i]] : i \in DOMAIN Mapped} \ {NULL}

\* Each neighborhood of a mapped parcel has one number.
LEMMA CodesNumberHoods ==
    /\ \A i \in DOMAIN Mapped : Mapped[i] \in Parcel
    /\ IsFiniteSet(MappedHoods) /\ DOMAIN Codes = 1 .. Cardinality(MappedHoods)
    /\ \A h \in MappedHoods : \E i \in DOMAIN Codes : Codes[i] = h
<1> DEFINE n == Cardinality(MappedHoods)
           hood == [i \in DOMAIN Mapped |-> Hood[Mapped[i]]]
<1>1. DOMAIN Mapped = 1 .. Len(Mapped) /\ Len(Mapped) \in Nat /\ \A i \in DOMAIN Mapped : Mapped[i] \in Parcel
  BY EncodingAssumption
<1>2. IsFiniteSet(MappedHoods)
  <2>1. IsFiniteSet(DOMAIN Mapped)
    BY <1>1, FS_Interval
  <2>2. IsFiniteSet({hood[i] : i \in DOMAIN Mapped})
    <3> HIDE DEF hood
    <3> QED BY <2>1, FiniteImage
  <2>3. MappedHoods \subseteq {hood[i] : i \in DOMAIN Mapped}
    BY DEF MappedHoods
  <2> QED BY <2>2, <2>3, FS_Subset
<1>3. Codes = CHOOSE f \in [1 .. n -> MappedHoods] : IsInjective(f)
  BY DEF Codes, SetToSeq, MappedHoods
<1>4. \E f \in [1 .. n -> MappedHoods] : IsInjective(f)
  <2>1. ExistsBijection(1 .. n, MappedHoods)
    BY <1>2, FS_CardinalityType
  <2> QED BY <2>1 DEF ExistsBijection, Bijection, Injection
<1> HIDE DEF n
<1>5. Codes \in [1 .. n -> MappedHoods] /\ IsInjective(Codes)
  <2> DEFINE c == CHOOSE f \in [1 .. n -> MappedHoods] : IsInjective(f)
  <2>1. c \in [1 .. n -> MappedHoods] /\ IsInjective(c)
    BY <1>4
  <2>2. Codes = c
    BY <1>3
  <2> HIDE DEF c
  <2> QED BY <2>1, <2>2
<1>6. Codes \in Surjection(1 .. n, MappedHoods)
  <2>1. n \in Nat
    BY <1>2, FS_CardinalityType DEF n
  <2>2. IsFiniteSet(1 .. n) /\ Cardinality(1 .. n) = n
    <3>1. IsFiniteSet(1 .. n) /\ Cardinality(1 .. n) = IF 1 > n THEN 0 ELSE n - 1 + 1
      BY <2>1, FS_Interval
    <3> QED BY <2>1, <3>1
  <2>3. Codes \in Injection(1 .. n, MappedHoods)
    BY <1>5 DEF Injection
  <2>4. Cardinality(1 .. n) = Cardinality(MappedHoods)
    BY <2>2 DEF n
  <2> QED BY <1>2, <2>3, <2>4, FS_Injection
<1>7. \A h \in MappedHoods : \E i \in DOMAIN Codes : Codes[i] = h
  BY <1>5, <1>6 DEF Surjection
<1> QED BY <1>1, <1>2, <1>5, <1>7 DEF n

\* What the columns can tell apart: the day that is written for no sale is not one
\* of a sale, and the numbers of neighborhoods end before the one for none.
ColumnsFit == 0 \notin Day /\ Cardinality(MappedHoods) < Top16

Holds(value, read, top) == value # NULL => read = value \/ (value > top /\ read = top)

\* What is decoded of a parcel.
LEMMA RowDecoded ==
    ASSUME TypeOK, ColumnsFit, NEW p \in {Mapped[i] : i \in DOMAIN Mapped}
    PROVE  Decodes(Encoded(p), Summaries[p], Hood[p])
<1> DEFINE row == Summaries[p]
           cell == Encoded(p)
           totals == DwellingTotals(Dwelling[p])
           last == LastSale(p)
<1>1. p \in Parcel
  BY CodesNumberHoods
<1>2. {totals.sqft, totals.beds, totals.baths, totals.year} \subseteq Nat \cup {NULL}
  BY <1>1, TotalsType
<1>3. /\ row.sqft = totals.sqft /\ row.beds = totals.beds /\ row.baths = totals.baths
      /\ row.year = totals.year /\ row.lastSale = last
  BY <1>1 DEF Summaries
<1> HIDE DEF totals, row
<1>4. /\ row.beds \in Nat \cup {NULL} /\ row.baths \in Nat \cup {NULL}
      /\ row.sqft \in Nat \cup {NULL} /\ row.year \in Nat \cup {NULL}
  BY <1>2, <1>3
<1>5. /\ cell.living_sqft = Clamp(row.sqft, Top16, 0) /\ cell.year_built = Clamp(row.year, Top16, 0)
      /\ cell.beds = Clamp(row.beds, Top8 - 1, Top8) /\ cell.baths_x2 = Clamp(row.baths, Top8 - 1, Top8)
  BY DEF Encoded, Cells, row
<1>6. /\ cell.last_sale_price = (IF row.lastSale = NULL THEN NULL ELSE Float32(row.lastSale.price))
      /\ cell.last_sale_day = (IF row.lastSale = NULL THEN 0 ELSE row.lastSale.date)
      /\ cell.neighborhood = (IF Hood[p] = NULL THEN Top16
                              ELSE CHOOSE i \in DOMAIN Codes : Codes[i] = Hood[p])
  BY DEF Encoded, Cells, row
<1> HIDE DEF cell
<1>7. Top8 \in Int /\ Top8 - 1 \in Int /\ Top8 - 1 < Top8 /\ Top16 \in Int
  BY EncodingAssumption
<1>8. /\ row.beds = NULL <=> cell.beds = Top8
      /\ row.baths = NULL <=> cell.baths_x2 = Top8
  <2>1. row.beds # NULL => cell.beds \in Int /\ cell.beds <= Top8 - 1
    BY <1>4, <1>5, <1>7, Clamped
  <2>2. row.baths # NULL => cell.baths_x2 \in Int /\ cell.baths_x2 <= Top8 - 1
    BY <1>4, <1>5, <1>7, Clamped
  <2>3. row.beds = NULL => cell.beds = Top8
    BY <1>5 DEF Clamp
  <2>4. row.baths = NULL => cell.baths_x2 = Top8
    BY <1>5 DEF Clamp
  <2> QED BY <1>7, <2>1, <2>2, <2>3, <2>4
<1>9. /\ Holds(row.beds, cell.beds, Top8 - 1) /\ Holds(row.baths, cell.baths_x2, Top8 - 1)
      /\ Holds(row.sqft, cell.living_sqft, Top16) /\ Holds(row.year, cell.year_built, Top16)
  <2>1. Holds(row.beds, cell.beds, Top8 - 1)
    BY <1>4, <1>5, <1>7, Clamped DEF Holds
  <2>2. Holds(row.baths, cell.baths_x2, Top8 - 1)
    BY <1>4, <1>5, <1>7, Clamped DEF Holds
  <2>3. Holds(row.sqft, cell.living_sqft, Top16)
    BY <1>4, <1>5, <1>7, Clamped DEF Holds
  <2>4. Holds(row.year, cell.year_built, Top16)
    BY <1>4, <1>5, <1>7, Clamped DEF Holds
  <2> QED BY <2>1, <2>2, <2>3, <2>4
<1>10. last # NULL => last \in Sale
  BY LastSaleIsNewest DEF TypeOK
<1>11. row.lastSale = NULL <=> cell.last_sale_day = 0
  <2>1. last # NULL => last.date \in Day
    BY <1>10, RowType
  <2> QED BY <1>3, <1>6, <2>1 DEF ColumnsFit
<1>12. row.lastSale # NULL =>
          /\ cell.last_sale_day = row.lastSale.date
          /\ Gap(cell.last_sale_price, row.lastSale.price) * Mantissa <= row.lastSale.price
          /\ row.lastSale.price < Mantissa => cell.last_sale_price = row.lastSale.price
  <2> SUFFICES ASSUME row.lastSale # NULL
               PROVE  /\ cell.last_sale_day = row.lastSale.date
                      /\ Gap(cell.last_sale_price, row.lastSale.price) * Mantissa <= row.lastSale.price
                      /\ row.lastSale.price < Mantissa => cell.last_sale_price = row.lastSale.price
    OBVIOUS
  <2> DEFINE price == row.lastSale.price
  <2>1. price \in Nat
    BY <1>3, <1>10, RowType
  <2>2. cell.last_sale_price = Float32(price) /\ cell.last_sale_day = row.lastSale.date
    BY <1>6
  <2> HIDE DEF price
  <2>3. /\ Gap(Float32(price), price) * Mantissa <= price
        /\ price < Mantissa => Float32(price) = price
    BY <2>1, FloatIsClose
  <2>4. /\ Gap(cell.last_sale_price, price) * Mantissa <= price
        /\ price < Mantissa => cell.last_sale_price = price
    BY <2>2, <2>3
  <2> QED BY <2>2, <2>4 DEF price
<1>13. IF Hood[p] = NULL THEN cell.neighborhood \notin DOMAIN Codes
       ELSE Codes[cell.neighborhood] = Hood[p]
  <2>1. CASE Hood[p] = NULL
    <3>1. Cardinality(MappedHoods) \in Nat
      BY CodesNumberHoods, FS_CardinalityType
    <3>2. Top16 \notin 1 .. Cardinality(MappedHoods)
      BY <1>7, <3>1 DEF ColumnsFit
    <3>3. DOMAIN Codes = 1 .. Cardinality(MappedHoods)
      BY CodesNumberHoods
    <3> QED BY <1>6, <2>1, <3>2, <3>3
  <2>2. CASE Hood[p] # NULL
    <3>1. Hood[p] \in MappedHoods
      BY <2>2 DEF MappedHoods
    <3>2. \E i \in DOMAIN Codes : Codes[i] = Hood[p]
      BY <3>1, CodesNumberHoods
    <3> QED BY <1>6, <2>2, <3>2
  <2> QED BY <2>1, <2>2
<1>14. Decodes(cell, row, Hood[p])
  BY <1>8, <1>9, <1>11, <1>12, <1>13 DEF Decodes, Holds
<1> QED BY <1>14 DEF row, cell

-----------------------------------------------------------------------------
(* The map: where the columns begin.                                        *)

\* Filling up to a multiple of four.
LEMMA Padded ==
    ASSUME NEW n \in Nat
    PROVE  /\ Pad4(n) \in Nat /\ Pad4(n) >= n /\ Pad4(n) % 4 = 0
           /\ \E q \in Nat : Pad4(n) = 4 * q
           /\ \A m \in Nat : n <= m => Pad4(n) <= Pad4(m)
BY DEF Pad4

\* Larger numbers have no fewer digits, and none more than ten.
LEMMA DigitsOrdered ==
    ASSUME NEW n \in Nat
    PROVE  /\ Digits(n) \in 0 .. 10
           /\ \A m \in Nat : n <= m => Digits(n) <= Digits(m)
<1>1. Leasts \subseteq Nat /\ IsFiniteSet(Leasts) /\ Cardinality(Leasts) <= 10 /\ Cardinality(Leasts) \in Nat
  <2> DEFINE least == [i \in 1 .. 10 |->
                IF i = 1 THEN 0 ELSE IF i = 2 THEN 10 ELSE IF i = 3 THEN 100 ELSE IF i = 4 THEN 1000
                ELSE IF i = 5 THEN 10000 ELSE IF i = 6 THEN 100000 ELSE IF i = 7 THEN 1000000
                ELSE IF i = 8 THEN 10000000 ELSE IF i = 9 THEN 100000000 ELSE 1000000000]
  <2>1. Leasts = {least[i] : i \in 1 .. 10}
    BY DEF Leasts
  <2>2. IsFiniteSet(1 .. 10) /\ Cardinality(1 .. 10) = 10
    <3> DEFINE ten == 10
    <3>1. ten \in Int
      OBVIOUS
    <3>2. ten = 10
      OBVIOUS
    <3> HIDE DEF ten
    <3>3. IsFiniteSet(1 .. ten) /\ Cardinality(1 .. ten) = IF 1 > ten THEN 0 ELSE ten - 1 + 1
      BY <3>1, FS_Interval
    <3> QED BY <3>2, <3>3
  <2>3. Leasts \subseteq Nat
    BY DEF Leasts
  <2> HIDE DEF least
  <2>4. IsFiniteSet(Leasts) /\ Cardinality(Leasts) <= 10
    BY <2>1, <2>2, FiniteImage
  <2> QED BY <2>3, <2>4, FS_CardinalityType
<1> DEFINE Passed(m) == {least \in Leasts : m >= least}
<1> HIDE DEF Leasts
<1>2. \A m \in Nat : IsFiniteSet(Passed(m)) /\ Cardinality(Passed(m)) <= 10
  BY <1>1, FS_Subset, FS_CardinalityType
<1>3. \A m \in Nat : Cardinality(Passed(m)) \in Nat
  BY <1>2, FS_CardinalityType
<1>4. \A m \in Nat : n <= m => Cardinality(Passed(n)) <= Cardinality(Passed(m))
  <2> SUFFICES ASSUME NEW m \in Nat, n <= m
               PROVE  Cardinality(Passed(n)) <= Cardinality(Passed(m))
    OBVIOUS
  <2>1. Passed(n) \subseteq Passed(m)
    <3> SUFFICES ASSUME NEW least \in Leasts, n >= least PROVE m >= least
      OBVIOUS
    <3>1. least \in Nat
      BY <1>1
    <3> QED BY <3>1
  <2> HIDE DEF Passed
  <2> QED BY <1>2, <2>1, FS_Subset
<1> QED BY <1>2, <1>3, <1>4 DEF Digits

\* Iterating a monotone and bounded function on the naturals.
Climbs(f, bound) == /\ f \in [Nat -> Nat] /\ bound \in Nat
                    /\ \A n \in Nat : f[n] <= bound
                    /\ \A m, n \in Nat : m <= n => f[m] <= f[n]

IsIterate(g, f) == g = [n \in Nat |-> IF f[n] = n THEN n ELSE g[f[n]]]

\* m is the fixed point next to n, from n upwards or downwards.
IsNextUp(f, m, n) == /\ m \in Nat /\ m >= n /\ f[m] = m
                     /\ \A k \in Nat : k >= n /\ f[k] = k => m <= k

IsNextDown(f, m, n) == /\ m \in Nat /\ m <= n /\ f[m] = m
                       /\ \A k \in Nat : k <= n /\ f[k] = k => k <= m

\* From where the function climbs there is a fixed point above.
LEMMA FixedAbove ==
    ASSUME NEW f, NEW bound, Climbs(f, bound), NEW n \in Nat, n <= f[n]
    PROVE  \E m \in Nat : IsNextUp(f, m, n)
<1> DEFINE S == {m \in n .. bound + n : f[m] <= m}
           m == Min(S)
<1>1. bound + n \in S
  <2> DEFINE top == bound + n
  <2>1. top \in Nat /\ top >= bound /\ top >= n /\ bound \in Nat
    BY DEF Climbs
  <2>2. f[top] <= bound /\ f[top] \in Nat
    BY <2>1 DEF Climbs
  <2> HIDE DEF top
  <2>3. f[top] <= top /\ top \in n .. top
    BY <2>1, <2>2
  <2> QED BY <2>3 DEF top
<1>2. IsFiniteSet(S) /\ S \subseteq Int
  <2> DEFINE top == bound + n
  <2>1. top \in Int /\ n \in Int
    BY DEF Climbs
  <2>2. S \subseteq n .. top
    OBVIOUS
  <2> HIDE DEF top, S
  <2>3. IsFiniteSet(n .. top) /\ n .. top \subseteq Int
    BY <2>1, FS_Interval
  <2> QED BY <2>2, <2>3, FS_Subset
<1>3. m \in S /\ \A k \in S : m <= k
  <2> HIDE DEF S
  <2> QED BY <1>1, <1>2, MinMember
<1> HIDE DEF m
<1>4. m \in Nat /\ m >= n /\ m <= bound + n /\ f[m] <= m /\ f[m] \in Nat
  BY <1>3 DEF Climbs
<1>5. f[m] >= f[n] /\ f[f[m]] <= f[m] /\ f[n] \in Nat
  BY <1>4 DEF Climbs
<1>6. f[m] \in S
  BY <1>4, <1>5 DEF Climbs
<1>7. f[m] = m
  BY <1>3, <1>4, <1>6
<1>8. ASSUME NEW k \in Nat, k >= n, f[k] = k PROVE m <= k
  <2>1. CASE k <= bound + n
    <3>1. k \in S
      BY <1>8, <2>1 DEF Climbs
    <3> QED BY <1>3, <3>1
  <2>2. CASE ~ k <= bound + n
    BY <1>4, <2>2 DEF Climbs
  <2> QED BY <2>1, <2>2
<1> QED BY <1>4, <1>7, <1>8 DEF IsNextUp

\* From where it falls there is one below.
LEMMA FixedBelow ==
    ASSUME NEW f, NEW bound, Climbs(f, bound), NEW n \in Nat, f[n] <= n
    PROVE  \E m \in Nat : IsNextDown(f, m, n)
<1> DEFINE S == {m \in 0 .. n : m <= f[m]}
           m == Max(S)
<1>1. 0 \in S
  BY DEF Climbs
<1>2. IsFiniteSet(S) /\ S \subseteq Int
  <2>1. IsFiniteSet(0 .. n)
    BY FS_Interval
  <2> QED BY <2>1, FS_Subset
<1>3. m \in S /\ \A k \in S : k <= m
  <2> HIDE DEF S
  <2> QED BY <1>1, <1>2, MaxMember
<1> HIDE DEF m
<1>4. m \in Nat /\ m <= n /\ m <= f[m] /\ f[m] \in Nat
  BY <1>3 DEF Climbs
<1>5. f[m] <= f[n] /\ f[f[m]] >= f[m] /\ f[n] \in Nat
  BY <1>4 DEF Climbs
<1>6. f[m] \in S
  BY <1>4, <1>5
<1>7. f[m] = m
  BY <1>3, <1>4, <1>6
<1>8. ASSUME NEW k \in Nat, k <= n, f[k] = k PROVE k <= m
  <2>1. k \in S
    BY <1>8
  <2> QED BY <1>3, <2>1
<1> QED BY <1>4, <1>7, <1>8 DEF IsNextDown

\* So the recursive definition has a solution.
LEMMA IterateExists ==
    ASSUME NEW f, NEW bound, Climbs(f, bound)
    PROVE  \E g : IsIterate(g, f)
<1> DEFINE Up(n) == CHOOSE m \in Nat : IsNextUp(f, m, n)
           Down(n) == CHOOSE m \in Nat : IsNextDown(f, m, n)
           g == [n \in Nat |-> IF n <= f[n] THEN Up(n) ELSE Down(n)]
<1>1. /\ \A n \in Nat : f[n] \in Nat
      /\ \A m, n \in Nat : m <= n => f[m] <= f[n]
  BY DEF Climbs
<1>2. \A n \in Nat : n <= f[n] => Up(n) \in Nat /\ IsNextUp(f, Up(n), n)
  BY FixedAbove
<1>3. \A n \in Nat : f[n] <= n => Down(n) \in Nat /\ IsNextDown(f, Down(n), n)
  BY FixedBelow
<1>4. \A n \in Nat : (n <= f[n] => g[n] = Up(n)) /\ (~ n <= f[n] => g[n] = Down(n))
  OBVIOUS
<1> HIDE DEF g, Up, Down
<1>5. ASSUME NEW n \in Nat PROVE g[n] = IF f[n] = n THEN n ELSE g[f[n]]
  <2>1. CASE f[n] = n
    <3>1. g[n] = Up(n) /\ IsNextUp(f, Up(n), n) /\ Up(n) \in Nat
      BY <1>2, <1>4, <2>1
    <3>2. Up(n) <= n /\ Up(n) >= n
      BY <2>1, <3>1 DEF IsNextUp
    <3> QED BY <2>1, <3>1, <3>2
  <2>2. CASE f[n] > n
    <3> DEFINE k == f[n]
    <3>1. k \in Nat /\ n <= k /\ k <= f[k] /\ k # n
      BY <1>1, <2>2
    <3>2. IsNextUp(f, Up(n), n) /\ IsNextUp(f, Up(k), k) /\ Up(n) \in Nat /\ Up(k) \in Nat
      BY <1>2, <3>1, <2>2, <1>1
    <3>3. Up(n) <= Up(k)
      BY <3>1, <3>2 DEF IsNextUp
    <3>4. Up(n) >= k
      BY <1>1, <3>2 DEF IsNextUp
    <3> HIDE DEF k
    <3>5. Up(k) <= Up(n)
      BY <3>2, <3>4 DEF IsNextUp
    <3>6. Up(n) = Up(k)
      BY <3>2, <3>3, <3>5
    <3>7. g[n] = Up(n) /\ g[k] = Up(k)
      BY <1>1, <1>4, <2>2, <3>1
    <3>8. g[n] = g[k] /\ ~(k = n)
      BY <3>1, <3>6, <3>7
    <3> QED BY <3>8 DEF k
  <2>3. CASE f[n] < n
    <3> DEFINE k == f[n]
    <3>1. k \in Nat /\ k <= n /\ f[k] <= k /\ k # n /\ ~ n <= f[n]
      BY <1>1, <2>3
    <3>2. IsNextDown(f, Down(n), n) /\ IsNextDown(f, Down(k), k) /\ Down(n) \in Nat /\ Down(k) \in Nat
      BY <1>1, <1>3, <2>3, <3>1
    <3>3. Down(k) <= Down(n)
      BY <3>1, <3>2 DEF IsNextDown
    <3>4. Down(n) <= k
      BY <1>1, <3>2 DEF IsNextDown
    <3>5. g[n] = Down(n)
      BY <1>4, <3>1
    <3> HIDE DEF k
    <3>6. Down(n) <= Down(k)
      BY <3>2, <3>4 DEF IsNextDown
    <3>7. Down(n) = Down(k)
      BY <3>2, <3>3, <3>6
    <3>8. g[k] = Down(k)
      <4>1. CASE k <= f[k]
        <5>1. f[k] = k
          BY <1>1, <3>1, <4>1
        <5>2. g[k] = Up(k) /\ IsNextUp(f, Up(k), k) /\ Up(k) \in Nat
          BY <1>2, <1>4, <3>1, <4>1
        <5>3. Up(k) = k
          BY <3>1, <5>1, <5>2 DEF IsNextUp
        <5>4. Down(k) = k
          BY <3>1, <3>2, <5>1 DEF IsNextDown
        <5> QED BY <5>2, <5>3, <5>4
      <4>2. CASE ~ k <= f[k]
        BY <1>4, <3>1, <4>2
      <4> QED BY <4>1, <4>2
    <3>9. g[n] = g[k] /\ ~(k = n)
      BY <3>1, <3>5, <3>7, <3>8
    <3> QED BY <3>9 DEF k
  <2> QED BY <1>1, <2>1, <2>2, <2>3
<1>6. g = [n \in Nat |-> g[n]]
  BY DEF g
<1>7. IsIterate(g, f)
  BY <1>5, <1>6 DEF IsIterate
<1> QED BY <1>7

\* Every solution ends in a fixed point, where it starts with a climb.
LEMMA IterateSettles ==
    ASSUME NEW f, NEW bound, Climbs(f, bound), NEW g, IsIterate(g, f), NEW n \in Nat, n <= f[n]
    PROVE  g[n] \in Nat /\ f[g[n]] = g[n]
<1>1. /\ \A k \in Nat : f[k] \in Nat
      /\ \A k, l \in Nat : k <= l => f[k] <= f[l]
  BY DEF Climbs
<1>2. PICK m \in Nat : IsNextUp(f, m, n)
  BY FixedAbove
<1>3. m >= n /\ f[m] = m /\ \A k \in Nat : k >= n /\ f[k] = k => m <= k
  BY <1>2 DEF IsNextUp
<1>4. \A k \in Nat : g[k] = IF f[k] = k THEN k ELSE g[f[k]]
  BY DEF IsIterate
<1> DEFINE S == {k \in n .. m : k <= f[k] /\ g[k] # m}
           k == Max(S)
<1>5. S = {}
  <2> SUFFICES ASSUME S # {} PROVE FALSE
    OBVIOUS
  <2>1. IsFiniteSet(S) /\ S \subseteq Int
    <3>1. IsFiniteSet(n .. m)
      BY FS_Interval
    <3> QED BY <3>1, FS_Subset
  <2>2. k \in S /\ \A l \in S : l <= k
    <3> HIDE DEF S
    <3> QED BY <2>1, MaxMember
  <2> HIDE DEF k
  <2>3. k \in Nat /\ n <= k /\ k <= m /\ k <= f[k] /\ g[k] # m /\ f[k] \in Nat
    BY <1>1, <2>2
  <2>4. f[k] # k
    BY <1>3, <1>4, <2>3
  <2> DEFINE next == f[k]
  <2>5. next > k /\ next <= m /\ next <= f[next] /\ next \in Nat
    BY <1>1, <1>3, <2>3, <2>4
  <2>6. g[k] = g[next]
    BY <1>4, <2>3, <2>4
  <2> HIDE DEF next
  <2>7. next \in S
    BY <2>3, <2>5, <2>6
  <2> QED BY <2>2, <2>3, <2>5, <2>7
<1>6. n \in n .. m
  BY <1>3
<1>7. g[n] = m
  BY <1>5, <1>6
<1> QED BY <1>3, <1>7

\* The bytes of the columns before the i-th.
ColumnAt(i) == SumOver([j \in 1 .. i - 1 |-> Pad4(ItemSizes[j] * Len(Mapped))])

Columns == 1 .. Len(ItemSizes) + 1

\* They are a multiple of four.
LEMMA ColumnsAligned ==
    /\ IsFiniteSet(Columns) /\ Cardinality(Columns) = 19
    /\ \A i \in Columns : ColumnAt(i) \in Nat /\ ColumnAt(i) % 4 = 0
    /\ \A base \in Nat : /\ DOMAIN Offsets(base) = Columns
                         /\ \A i \in Columns : Offsets(base)[i] = base + ColumnAt(i)
<1>1. Len(ItemSizes) = 18 /\ \A j \in 1 .. 18 : ItemSizes[j] \in Nat
  BY DEF ItemSizes
<1>2. Len(Mapped) \in Nat
  BY EncodingAssumption
<1>3. IsFiniteSet(Columns) /\ Cardinality(Columns) = 19
  <2> DEFINE last == 19
  <2>1. last \in Int /\ 1 \in Int /\ last = 19
    OBVIOUS
  <2>2. Columns = 1 .. last
    BY <1>1 DEF Columns
  <2> HIDE DEF last
  <2>3. IsFiniteSet(1 .. last) /\ Cardinality(1 .. last) = IF 1 > last THEN 0 ELSE last - 1 + 1
    BY <2>1, FS_Interval
  <2> QED BY <2>1, <2>2, <2>3
<1>4. ASSUME NEW i \in Columns PROVE ColumnAt(i) \in Nat /\ ColumnAt(i) % 4 = 0
  <2> DEFINE before == 1 .. i - 1
             width == [j \in before |-> Pad4(ItemSizes[j] * Len(Mapped))]
             quarter == [j \in before |-> (ItemSizes[j] * Len(Mapped) + 3) \div 4]
  <2>1. i \in 1 .. 19
    BY <1>1 DEF Columns
  <2>2. IsFiniteSet(before)
    <3>1. i - 1 \in Int /\ 1 \in Int
      BY <2>1
    <3> QED BY <3>1, FS_Interval
  <2>3. \A j \in before : ItemSizes[j] * Len(Mapped) \in Nat
    <3> SUFFICES ASSUME NEW j \in before PROVE ItemSizes[j] * Len(Mapped) \in Nat
      OBVIOUS
    <3>1. ItemSizes[j] \in Nat
      BY <1>1, <2>1
    <3> QED BY <1>2, <3>1
  <2>4. \A j \in before : quarter[j] \in Nat /\ width[j] = 4 * quarter[j]
    <3> SUFFICES ASSUME NEW j \in before PROVE quarter[j] \in Nat /\ width[j] = 4 * quarter[j]
      OBVIOUS
    <3> DEFINE bytes == ItemSizes[j] * Len(Mapped)
    <3>1. quarter[j] = (bytes + 3) \div 4 /\ width[j] = Pad4(bytes) /\ bytes \in Nat
      BY <2>3
    <3> HIDE DEF bytes, quarter, width
    <3> QED BY <3>1 DEF Pad4
  <2>5. ColumnAt(i) = SumOf(width, before)
    <3>1. ColumnAt(i) = SumOver(width) /\ DOMAIN width = before
      BY DEF ColumnAt
    <3> HIDE DEF width
    <3> QED BY <3>1, SumOverIs
  <2> HIDE DEF before, width, quarter
  <2>6. SumOf(quarter, before) \in Nat
    BY <2>2, <2>4, SumNat
  <2>7. SumOf(width, before) = 4 * SumOf(quarter, before)
    <3> DEFINE four == 4
    <3>1. four \in Int /\ \A j \in before : quarter[j] \in Int /\ width[j] = four * quarter[j]
      BY <2>4
    <3> HIDE DEF four
    <3>2. SumOf(width, before) = four * SumOf(quarter, before)
      BY <2>2, <3>1, SumScaled
    <3> QED BY <3>2 DEF four
  <2> DEFINE q == SumOf(quarter, before)
             sum == SumOf(width, before)
  <2>8. q \in Nat /\ sum = 4 * q /\ ColumnAt(i) = sum
    BY <2>5, <2>6, <2>7
  <2> HIDE DEF q, sum
  <2> QED BY <2>8
<1>5. ASSUME NEW base \in Nat
      PROVE  /\ DOMAIN Offsets(base) = Columns
             /\ \A i \in Columns : Offsets(base)[i] = base + ColumnAt(i)
  BY DEF Offsets, ColumnAt, Columns
<1> QED BY <1>3, <1>4, <1>5

\* The length of the header is a multiple of four, does not fall when the columns
\* begin later, and is limited by the digits that an offset can have.
LEMMA HeaderClimbs ==
    ASSUME NEW text \in Nat
    PROVE  /\ Climbs([n \in Nat |-> HeaderBytes(text, 8 + n)], Pad4(text + 190))
           /\ \A base \in Nat : HeaderBytes(text, base) \in Nat /\ HeaderBytes(text, base) % 4 = 0
<1> DEFINE digits(base) == [i \in Columns |-> Digits(base + ColumnAt(i))]
           sum(base) == SumOf(digits(base), Columns)
<1>1. \A base \in Nat : \A i \in Columns : base + ColumnAt(i) \in Nat /\ Digits(base + ColumnAt(i)) \in 0 .. 10
  <2> SUFFICES ASSUME NEW base \in Nat, NEW i \in Columns
               PROVE  base + ColumnAt(i) \in Nat /\ Digits(base + ColumnAt(i)) \in 0 .. 10
    OBVIOUS
  <2>1. ColumnAt(i) \in Nat
    BY ColumnsAligned
  <2>2. base + ColumnAt(i) \in Nat
    BY <2>1
  <2> QED BY <2>2, DigitsOrdered
<1>2. \A base \in Nat : HeaderBytes(text, base) = Pad4(text + sum(base))
  <2> SUFFICES ASSUME NEW base \in Nat PROVE HeaderBytes(text, base) = Pad4(text + sum(base))
    OBVIOUS
  <2> DEFINE written == [i \in DOMAIN Offsets(base) |-> Digits(Offsets(base)[i])]
  <2>1. written = digits(base) /\ DOMAIN written = Columns
    BY ColumnsAligned
  <2>2. HeaderBytes(text, base) = Pad4(text + SumOver(written))
    BY DEF HeaderBytes
  <2> HIDE DEF written, digits
  <2>3. SumOver(written) = SumOf(written, Columns)
    BY <2>1, SumOverIs
  <2> QED BY <2>1, <2>2, <2>3
<1>3. \A base \in Nat : sum(base) \in Nat /\ sum(base) <= 190
  <2> SUFFICES ASSUME NEW base \in Nat PROVE sum(base) \in Nat /\ sum(base) <= 190
    OBVIOUS
  <2> DEFINE most == 10
             ten == [i \in Columns |-> most]
             d == digits(base)
  <2>1. \A i \in Columns : d[i] \in Nat /\ d[i] \in Int /\ ten[i] \in Int /\ d[i] <= ten[i]
    BY <1>1
  <2>2. most \in Int /\ \A i \in Columns : ten[i] = most
    OBVIOUS
  <2> HIDE DEF d, ten, most
  <2>3. SumOf(d, Columns) <= SumOf(ten, Columns)
    BY <2>1, ColumnsAligned, SumOrdered
  <2>4. SumOf(ten, Columns) = most * Cardinality(Columns)
    BY <2>2, ColumnsAligned, SumOfEquals
  <2>5. SumOf(d, Columns) \in Nat
    BY <2>1, ColumnsAligned, SumNat
  <2>6. Cardinality(Columns) = 19
    BY ColumnsAligned
  <2>7. SumOf(ten, Columns) = 190
    BY <2>4, <2>6 DEF most
  <2>8. sum(base) = SumOf(d, Columns)
    BY DEF d
  <2> HIDE DEF sum
  <2> QED BY <2>3, <2>5, <2>7, <2>8
<1>4. \A base, later \in Nat : base <= later => sum(base) <= sum(later)
  <2> SUFFICES ASSUME NEW base \in Nat, NEW later \in Nat, base <= later
               PROVE  sum(base) <= sum(later)
    OBVIOUS
  <2> DEFINE d == digits(base)
             e == digits(later)
  <2>1. \A i \in Columns : d[i] \in Int /\ e[i] \in Int /\ d[i] <= e[i]
    <3> SUFFICES ASSUME NEW i \in Columns PROVE d[i] \in Int /\ e[i] \in Int /\ d[i] <= e[i]
      OBVIOUS
    <3>1. /\ base + ColumnAt(i) \in Nat /\ later + ColumnAt(i) \in Nat
          /\ base + ColumnAt(i) <= later + ColumnAt(i)
      <4>1. ColumnAt(i) \in Nat
        BY ColumnsAligned
      <4> QED BY <4>1
    <3>2. d[i] = Digits(base + ColumnAt(i)) /\ e[i] = Digits(later + ColumnAt(i))
      OBVIOUS
    <3> HIDE DEF d, e
    <3> QED BY <1>1, <3>1, <3>2, DigitsOrdered
  <2> HIDE DEF digits
  <2>2. SumOf(d, Columns) <= SumOf(e, Columns)
    BY <2>1, ColumnsAligned, SumOrdered
  <2> QED BY <2>2
<1> HIDE DEF sum
<1>5. \A base \in Nat : /\ HeaderBytes(text, base) \in Nat /\ HeaderBytes(text, base) % 4 = 0
                        /\ HeaderBytes(text, base) <= Pad4(text + 190)
  <2> SUFFICES ASSUME NEW base \in Nat
               PROVE  /\ HeaderBytes(text, base) \in Nat /\ HeaderBytes(text, base) % 4 = 0
                      /\ HeaderBytes(text, base) <= Pad4(text + 190)
    OBVIOUS
  <2> DEFINE a == text + sum(base)
             b == text + 190
  <2>1. a \in Nat /\ b \in Nat /\ a <= b
    BY <1>3
  <2>2. HeaderBytes(text, base) = Pad4(a)
    BY <1>2
  <2> HIDE DEF a
  <2>3. HeaderBytes(text, base) <= Pad4(b)
    <3> HIDE DEF b
    <3> QED BY <2>1, <2>2, Padded
  <2> QED BY <2>1, <2>2, <2>3, Padded
<1>6. \A base, later \in Nat : base <= later => HeaderBytes(text, base) <= HeaderBytes(text, later)
  <2> SUFFICES ASSUME NEW base \in Nat, NEW later \in Nat, base <= later
               PROVE  HeaderBytes(text, base) <= HeaderBytes(text, later)
    OBVIOUS
  <2> DEFINE a == text + sum(base)
             b == text + sum(later)
  <2>1. a \in Nat /\ b \in Nat /\ a <= b
    BY <1>3, <1>4
  <2>2. HeaderBytes(text, base) = Pad4(a) /\ HeaderBytes(text, later) = Pad4(b)
    BY <1>2
  <2> HIDE DEF a, b
  <2> QED BY <2>1, <2>2, Padded
<1>7. Climbs([n \in Nat |-> HeaderBytes(text, 8 + n)], Pad4(text + 190))
  <2> DEFINE f == [n \in Nat |-> HeaderBytes(text, 8 + n)]
             bound == Pad4(text + 190)
  <2>1. bound \in Nat
    BY Padded
  <2>2. \A n \in Nat : f[n] = HeaderBytes(text, 8 + n) /\ 8 + n \in Nat
    OBVIOUS
  <2>3. f \in [Nat -> Nat]
    BY <1>5
  <2>4. \A n \in Nat : f[n] <= bound
    BY <1>5, <2>2
  <2> HIDE DEF f, bound
  <2>5. \A m, n \in Nat : m <= n => f[m] <= f[n]
    <3> SUFFICES ASSUME NEW m \in Nat, NEW n \in Nat, m <= n PROVE f[m] <= f[n]
      OBVIOUS
    <3>1. 8 + m <= 8 + n
      OBVIOUS
    <3> QED BY <1>6, <2>2, <3>1
  <2> QED BY <2>1, <2>3, <2>4, <2>5 DEF Climbs, f, bound
<1> QED BY <1>5, <1>7

\* The iteration ends with a length that the header then has, so the columns begin
\* where it says.
LEMMA HeaderHolds == HeaderIsTrue
<1> SUFFICES ASSUME NEW text \in HeaderText
             PROVE  /\ HeaderOffsets(text) = ColumnStarts(text)
                    /\ \A i \in DOMAIN ColumnStarts(text) : ColumnStarts(text)[i] % 4 = 0
  BY DEF HeaderIsTrue
<1>1. text \in Nat
  BY EncodingAssumption
<1> DEFINE f == [n \in Nat |-> HeaderBytes(text, 8 + n)]
           bound == Pad4(text + 190)
           first == HeaderBytes(text, 8)
           iterate == CHOOSE iterate : iterate = [length \in Nat |->
                          LET next == HeaderBytes(text, 8 + length)
                          IN IF next = length THEN length ELSE iterate[next]]
<1>2. Settled(text) = iterate[first]
  BY DEF Settled
<1>3. Climbs(f, bound) /\ \A base \in Nat : HeaderBytes(text, base) \in Nat /\ HeaderBytes(text, base) % 4 = 0
  BY <1>1, HeaderClimbs
<1>4. IsIterate(iterate, f)
  <2> DEFINE Steps(g) == [n \in Nat |-> IF f[n] = n THEN n ELSE g[f[n]]]
             Iterates(g) == [length \in Nat |->
                          LET next == HeaderBytes(text, 8 + length)
                          IN IF next = length THEN length ELSE g[next]]
  <2>1. \A g : Steps(g) = Iterates(g)
    OBVIOUS
  <2>2. PICK g : IsIterate(g, f)
    BY <1>3, IterateExists
  <2>3. g = Iterates(g)
    BY <2>1, <2>2 DEF IsIterate
  <2>4. iterate = CHOOSE h : h = Iterates(h)
    OBVIOUS
  <2> HIDE DEF Iterates, iterate
  <2>5. iterate = Iterates(iterate)
    BY <2>3, <2>4
  <2>6. iterate = Steps(iterate)
    BY <2>1, <2>5
  <2> QED BY <2>6 DEF IsIterate
<1> HIDE DEF iterate
<1>5. first \in Nat /\ first <= f[first]
  <2>1. f[0] = first
    OBVIOUS
  <2>2. first \in Nat
    BY <1>3
  <2> HIDE DEF f, first
  <2> QED BY <1>3, <2>1, <2>2 DEF Climbs
<1> DEFINE length == Settled(text)
<1>6. length \in Nat /\ f[length] = length
  <2> HIDE DEF f, first, bound, length
  <2>1. iterate[first] \in Nat /\ f[iterate[first]] = iterate[first]
    BY <1>3, <1>4, <1>5, IterateSettles
  <2> QED BY <1>2, <2>1 DEF length
<1>7. HeaderBytes(text, 8 + length) = length
  <2> HIDE DEF length
  <2> QED BY <1>6
<1>8. HeaderOffsets(text) = ColumnStarts(text)
  BY <1>7 DEF HeaderOffsets, ColumnStarts
<1>9. length % 4 = 0 /\ 8 + length \in Nat /\ length \in Nat
  BY <1>3, <1>6, <1>7
<1>10. ColumnStarts(text) = Offsets(8 + length)
  BY <1>7 DEF ColumnStarts
<1> HIDE DEF length
<1>11. ASSUME NEW i \in DOMAIN ColumnStarts(text) PROVE ColumnStarts(text)[i] % 4 = 0
  <2>1. i \in Columns /\ ColumnStarts(text)[i] = (8 + length) + ColumnAt(i)
    BY <1>9, <1>10, ColumnsAligned
  <2> DEFINE at == ColumnAt(i)
  <2>2. at \in Nat /\ at % 4 = 0
    BY <2>1, ColumnsAligned
  <2> HIDE DEF at
  <2>3. (8 + length + at) % 4 = 0
    BY <1>9, <2>2
  <2> QED BY <2>1, <2>3 DEF at
<1> QED BY <1>8, <1>11

\* What is decoded of the map is the summary of the parcels: of the header, of
\* the numbers of neighborhoods, and of the values that each column can hold.
LEMMA MapDecoded == TypeOK /\ ColumnsFit => MapDecodesToSummary
<1> SUFFICES ASSUME TypeOK, ColumnsFit PROVE MapDecodesToSummary
  OBVIOUS
<1>1. \A p \in {Mapped[i] : i \in DOMAIN Mapped} : Decodes(Encoded(p), Summaries[p], Hood[p])
  BY RowDecoded
<1>2. \A i \in DOMAIN Mapped : Mapped[i] \in {Mapped[j] : j \in DOMAIN Mapped}
  OBVIOUS
<1> QED BY <1>1, <1>2, HeaderHolds DEF MapDecodesToSummary

\* MapDecodesToSummary: in every state the bytes of the map say of each parcel what
\* the summary says (src/src/derived/mapbinary.py), as far as the columns can tell.
THEOREM MapDecodes == ASSUME ColumnsFit PROVE Spec => []MapDecodesToSummary
<1>1. TypeOK => MapDecodesToSummary
  BY MapDecoded
<1> QED BY <1>1, TableTypes, PTL

-----------------------------------------------------------------------------
(* Search: texts and their prefixes.                                        *)

\* f is the recursive function that joins the first n parts.
IsJoined(f, parts, n) == f = [i \in 1 .. n |-> IF i = 1 THEN parts[i] ELSE f[i - 1] \o parts[i]]

\* A number for which something fails has a first one.
LEMMA FirstNumber ==
    ASSUME NEW n \in Nat, NEW B, B \subseteq 1 .. n, B # {}
    PROVE  \E m \in B : m \in 1 .. n /\ \A k \in 1 .. n : k < m => k \notin B
<1>1. IsFiniteSet(1 .. n)
  BY FS_Interval
<1>2. IsFiniteSet(B) /\ B \subseteq Int
  <2>1. IsFiniteSet(B)
    BY <1>1, FS_Subset
  <2> QED BY <2>1
<1>3. Min(B) \in B /\ \A k \in B : Min(B) <= k
  BY <1>2, MinMember
<1> DEFINE m == Min(B)
<1>4. m \in B /\ m \in 1 .. n /\ \A k \in B : m <= k
  BY <1>3
<1> HIDE DEF m
<1>5. \A k \in 1 .. n : k < m => k \notin B
  BY <1>4
<1> QED BY <1>4, <1>5

\* Its equation, part by part.
LEMMA JoinedValue ==
    ASSUME NEW f, NEW parts, NEW n, IsJoined(f, parts, n), NEW i \in 1 .. n
    PROVE  f[i] = IF i = 1 THEN parts[i] ELSE f[i - 1] \o parts[i]
BY DEF IsJoined

\* The function exists.
LEMMA JoinedExists == ASSUME NEW parts, NEW n \in Nat PROVE \E f : IsJoined(f, parts, n)
<1> DEFINE B == {m \in 1 .. n : ~ \E f : IsJoined(f, parts, m)}
<1>1. CASE n = 0
  <2> DEFINE none == [i \in 1 .. n |-> IF i = 1 THEN parts[i] ELSE <<>> \o parts[i]]
             f == [i \in 1 .. n |-> IF i = 1 THEN parts[i] ELSE none[i - 1] \o parts[i]]
  <2>1. \A i \in 1 .. n : FALSE
    BY <1>1
  <2>2. f = [i \in 1 .. n |-> IF i = 1 THEN parts[i] ELSE f[i - 1] \o parts[i]]
    BY <2>1
  <2> QED BY <2>2 DEF IsJoined
<1>2. CASE n # 0
  <2> SUFFICES ASSUME ~ \E f : IsJoined(f, parts, n) PROVE FALSE
    OBVIOUS
  <2>1. B \subseteq 1 .. n /\ n \in B
    BY <1>2
  <2>2. PICK m \in B : m \in 1 .. n /\ \A k \in 1 .. n : k < m => k \notin B
    <3> HIDE DEF B
    <3> QED BY <2>1, FirstNumber
  <2>3. \E f : m > 1 => IsJoined(f, parts, m - 1)
    <3>1. CASE m = 1
      BY <3>1
    <3>2. CASE m > 1
      <4>1. m - 1 \in 1 .. n /\ m - 1 < m
        BY <2>2, <3>2
      <4> QED BY <2>2, <4>1
    <3> QED BY <2>2, <3>1, <3>2
  <2>4. PICK f : m > 1 => IsJoined(f, parts, m - 1)
    BY <2>3
  <2> DEFINE g == [i \in 1 .. m |-> IF i = 1 THEN parts[i] ELSE f[i - 1] \o parts[i]]
  <2>5. \A i \in 1 .. m : i > 1 => g[i - 1] = f[i - 1]
    <3> SUFFICES ASSUME NEW i \in 1 .. m, i > 1 PROVE g[i - 1] = f[i - 1]
      OBVIOUS
    <3>1. i - 1 \in 1 .. m - 1 /\ i - 1 \in 1 .. m /\ m > 1
      BY <2>2
    <3>2. f[i - 1] = IF i - 1 = 1 THEN parts[i - 1] ELSE f[(i - 1) - 1] \o parts[i - 1]
      BY <2>4, <3>1, JoinedValue
    <3> QED BY <3>1, <3>2
  <2>6. g = [i \in 1 .. m |-> IF i = 1 THEN parts[i] ELSE g[i - 1] \o parts[i]]
    <3> DEFINE h == [i \in 1 .. m |-> IF i = 1 THEN parts[i] ELSE g[i - 1] \o parts[i]]
    <3>1. \A i \in 1 .. m : g[i] = IF i = 1 THEN parts[i] ELSE f[i - 1] \o parts[i]
      OBVIOUS
    <3>2. DOMAIN g = 1 .. m /\ g = [i \in 1 .. m |-> g[i]]
      OBVIOUS
    <3> HIDE DEF g
    <3>3. \A i \in 1 .. m : g[i] = h[i]
      <4> SUFFICES ASSUME NEW i \in 1 .. m PROVE g[i] = h[i]
        OBVIOUS
      <4>1. CASE i = 1
        BY <3>1, <4>1
      <4>2. CASE i > 1
        BY <2>5, <3>1, <4>2
      <4> QED BY <2>2, <4>1, <4>2
    <3> QED BY <3>2, <3>3
  <2>7. IsJoined(g, parts, m)
    BY <2>6 DEF IsJoined
  <2> QED BY <2>2, <2>7
<1> QED BY <1>1, <1>2

\* It depends on the parts that are joined.
LEMMA JoinedAgree ==
    ASSUME NEW f, NEW g, NEW parts, NEW others, NEW n \in Nat, NEW m \in 1 .. n,
           IsJoined(f, parts, n), IsJoined(g, others, m), \A i \in 1 .. m : parts[i] = others[i]
    PROVE  f[m] = g[m]
<1> DEFINE B == {i \in 1 .. m : f[i] # g[i]}
<1> SUFFICES ASSUME f[m] # g[m] PROVE FALSE
  OBVIOUS
<1>1. B \subseteq 1 .. m /\ m \in B /\ m \in Nat
  OBVIOUS
<1>2. PICK i \in B : i \in 1 .. m /\ \A k \in 1 .. m : k < i => k \notin B
  <2> HIDE DEF B
  <2> QED BY <1>1, FirstNumber
<1>3. i \in 1 .. m /\ i \in 1 .. n
  BY <1>2
<1>4. f[i] = (IF i = 1 THEN parts[i] ELSE f[i - 1] \o parts[i])
  BY <1>3, JoinedValue
<1>5. g[i] = (IF i = 1 THEN others[i] ELSE g[i - 1] \o others[i])
  BY <1>3, JoinedValue
<1>6. CASE i = 1
  BY <1>2, <1>3, <1>4, <1>5, <1>6
<1>7. CASE i > 1
  <2>1. i - 1 \in 1 .. m /\ i - 1 < i
    BY <1>3, <1>7
  <2>2. f[i - 1] = g[i - 1]
    BY <1>2, <2>1
  <2> QED BY <1>2, <1>3, <1>4, <1>5, <1>7, <2>2
<1> QED BY <1>3, <1>6, <1>7

\* So parts that are joined are the last behind the others joined.
LEMMA JoinedIs ==
    ASSUME NEW parts, Len(parts) \in Nat \ {0}, NEW f, IsJoined(f, parts, Len(parts))
    PROVE  FlattenSeq(parts) = f[Len(parts)]
<1> DEFINE n == Len(parts)
           flatten == CHOOSE flatten : flatten = [i \in 1 .. Len(parts) |->
                          IF i = 1 THEN parts[i] ELSE flatten[i - 1] \o parts[i]]
<1>1. FlattenSeq(parts) = flatten[n]
  BY DEF FlattenSeq
<1>2. IsJoined(flatten, parts, n)
  BY DEF IsJoined
<1> HIDE DEF flatten
<1>3. n \in Nat /\ n \in 1 .. n
  OBVIOUS
<1> HIDE DEF n
<1>4. f[n] = flatten[n]
  <2>1. IsJoined(f, parts, n)
    BY DEF n
  <2> QED BY <1>2, <1>3, <2>1, JoinedAgree
<1> QED BY <1>1, <1>4 DEF n

\* The first k of a sequence.
LEMMA FirstOf ==
    ASSUME NEW S, NEW s \in Seq(S), NEW k \in 0 .. Len(s)
    PROVE  /\ SubSeq(s, 1, k) \in Seq(S) /\ Len(SubSeq(s, 1, k)) = k
           /\ \A i \in 1 .. k : SubSeq(s, 1, k)[i] = s[i]
<1>1. \A i \in 1 .. k : s[i] \in S
  BY LenProperties
<1>2. k \in Int /\ 1 \in Int /\ k >= 0
  BY LenProperties
<1>3. /\ SubSeq(s, 1, k) \in Seq(S)
      /\ Len(SubSeq(s, 1, k)) = (IF 1 <= k THEN k - 1 + 1 ELSE 0)
      /\ \A i \in 1 .. k - 1 + 1 : SubSeq(s, 1, k)[i] = s[1 + i - 1]
  BY <1>1, <1>2, SubSeqProperties
<1>4. Len(SubSeq(s, 1, k)) = k
  BY <1>2, <1>3
<1>5. ASSUME NEW i \in 1 .. k PROVE SubSeq(s, 1, k)[i] = s[i]
  <2>1. i \in 1 .. k - 1 + 1 /\ 1 + i - 1 = i
    BY <1>2
  <2> QED BY <1>3, <2>1
<1> QED BY <1>3, <1>4, <1>5

\* The text of words is the last word behind a space behind the text of the others.
LEMMA TextStep ==
    ASSUME NEW words \in Seq(Seq(Nat)), words # <<>>
    PROVE  /\ Len(words) = 1 => Text(words) = words[1]
           /\ Len(words) > 1 => Text(words) = Text(SubSeq(words, 1, Len(words) - 1))
                                                 \o (<<Space>> \o words[Len(words)])
<1> DEFINE n == Len(words)
           Part(w) == [i \in DOMAIN w |-> IF i = 1 THEN w[i] ELSE <<Space>> \o w[i]]
           front == SubSeq(words, 1, n - 1)
<1>1. n \in Nat /\ n >= 1 /\ DOMAIN words = 1 .. n
  OBVIOUS
<1>2. \A w \in Seq(Seq(Nat)) : Part(w) \in Seq(Seq(Nat)) /\ Len(Part(w)) = Len(w) /\ Text(w) = FlattenSeq(Part(w))
  <2> SUFFICES ASSUME NEW w \in Seq(Seq(Nat))
               PROVE  Part(w) \in Seq(Seq(Nat)) /\ Len(Part(w)) = Len(w) /\ Text(w) = FlattenSeq(Part(w))
    OBVIOUS
  <2>1. DOMAIN w = 1 .. Len(w) /\ Len(w) \in Nat
    OBVIOUS
  <2>2. \A i \in 1 .. Len(w) : (IF i = 1 THEN w[i] ELSE <<Space>> \o w[i]) \in Seq(Nat)
    <3>1. Space \in Nat
      BY SearchAssumption
    <3> QED BY <2>1, <3>1
  <2>3. Part(w) \in [1 .. Len(w) -> Seq(Nat)]
    BY <2>1, <2>2
  <2>4. Text(w) = FlattenSeq(Part(w))
    BY DEF Text
  <2> DEFINE S == Seq(Nat)
             p == Part(w)
             m == Len(w)
  <2>5. p \in [1 .. m -> S] /\ m \in Nat
    BY <2>1, <2>3
  <2> HIDE DEF S, p, m
  <2>6. p \in Seq(S) /\ Len(p) = m
    BY <2>5
  <2> QED BY <2>4, <2>6 DEF S, p, m
<1>3. PICK f : IsJoined(f, Part(words), n)
  BY <1>1, JoinedExists
<1>4. Text(words) = f[n]
  <2> HIDE DEF Part
  <2>1. Len(Part(words)) = n /\ Text(words) = FlattenSeq(Part(words)) /\ n \in Nat \ {0}
    BY <1>1, <1>2
  <2> HIDE DEF n
  <2> QED BY <1>3, <2>1, JoinedIs
<1>5. f[n] = IF n = 1 THEN Part(words)[n] ELSE f[n - 1] \o Part(words)[n]
  <2> HIDE DEF Part, n
  <2>1. n \in 1 .. n
    BY <1>1
  <2> QED BY <1>3, <2>1, JoinedValue
<1>6. ASSUME n > 1 PROVE Text(front) = f[n - 1]
  <2>1. /\ front \in Seq(Seq(Nat)) /\ Len(front) = n - 1 /\ n - 1 \in Nat \ {0}
        /\ \A i \in 1 .. n - 1 : front[i] = words[i]
    <3> DEFINE S == Seq(Nat)
    <3>1. words \in Seq(S) /\ Len(words) > 1 /\ Len(words) \in Nat
      BY <1>6
    <3> HIDE DEF S
    <3> DEFINE m == n - 1
    <3>2. m \in 0 .. Len(words) /\ m \in Nat \ {0} /\ front = SubSeq(words, 1, m)
      <4>1. front = SubSeq(words, 1, m)
        OBVIOUS
      <4> HIDE DEF front
      <4>2. m \in 0 .. n /\ m \in Nat \ {0}
        <5> HIDE DEF n
        <5> QED BY <1>1, <1>6
      <4> QED BY <4>1, <4>2
    <3> HIDE DEF m
    <3>3. front \in Seq(S) /\ Len(front) = m /\ \A i \in 1 .. m : front[i] = words[i]
      BY <3>1, <3>2, FirstOf
    <3> QED BY <3>2, <3>3 DEF S, m
  <2>2. Text(front) = FlattenSeq(Part(front)) /\ Len(Part(front)) = n - 1
    <3> HIDE DEF Part, front
    <3> QED BY <1>2, <2>1
  <2>3. \A i \in 1 .. n - 1 : Part(front)[i] = Part(words)[i]
    <3>1. DOMAIN front = 1 .. n - 1
      BY <2>1
    <3>2. \A i \in 1 .. n - 1 : i \in 1 .. n
      BY <1>1
    <3> HIDE DEF n, front
    <3> QED BY <1>1, <2>1, <3>1, <3>2
  <2> HIDE DEF Part, front
  <2> DEFINE m == n - 1
             p == Part(front)
  <2>4. PICK g : IsJoined(g, p, m)
    BY <2>1, JoinedExists
  <2>5. Text(front) = g[m]
    <3>1. Len(p) = m /\ m \in Nat \ {0} /\ Text(front) = FlattenSeq(p)
      BY <2>1, <2>2
    <3> HIDE DEF m, p
    <3> QED BY <2>4, <3>1, JoinedIs
  <2>6. f[m] = g[m]
    <3>1. m \in 1 .. n /\ \A i \in 1 .. m : Part(words)[i] = p[i]
      BY <1>1, <1>6, <2>3
    <3> HIDE DEF m, p, n
    <3> QED BY <1>1, <1>3, <2>4, <3>1, JoinedAgree
  <2> QED BY <2>5, <2>6
<1>7. n = 1 => Text(words) = words[1]
  <2> SUFFICES ASSUME n = 1 PROVE Text(words) = words[1]
    OBVIOUS
  <2>1. Part(words)[1] = words[1]
    BY <1>1
  <2> HIDE DEF Part
  <2> QED BY <1>4, <1>5, <2>1
<1>8. n > 1 => Text(words) = Text(front) \o (<<Space>> \o words[n])
  <2> SUFFICES ASSUME n > 1 PROVE Text(words) = Text(front) \o (<<Space>> \o words[n])
    OBVIOUS
  <2>1. n \in DOMAIN words /\ n # 1
    BY <1>1
  <2>2. Part(words)[n] = <<Space>> \o words[n]
    <3> HIDE DEF n
    <3> QED BY <2>1
  <2> HIDE DEF Part, front
  <2>3. Text(front) = f[n - 1]
    BY <1>6
  <2> HIDE DEF n
  <2> QED BY <1>4, <1>5, <2>1, <2>2, <2>3
<1> QED BY <1>7, <1>8

Texts == Seq(Nat)

\* The words that addresses and names have.
Words == {w \in Seq(Texts) : \A i \in DOMAIN w : w[i] # <<>> /\ \A c \in Range(w[i]) : c > Space}

\* A prefix, character by character.
LEMMA PrefixIs ==
    ASSUME NEW s \in Texts, NEW t \in Texts
    PROVE  IsPrefix(s, t) <=> Len(s) <= Len(t) /\ \A i \in 1 .. Len(s) : s[i] = t[i]
<1> DEFINE n == Len(s)
<1>1. n \in Nat /\ Len(t) \in Nat /\ s \in Seq(Nat) /\ t \in Seq(Nat)
  BY LenProperties DEF Texts
<1>2. CASE ~ n <= Len(t)
  BY <1>2 DEF IsPrefix
<1>3. CASE n <= Len(t)
  <2> HIDE DEF n
  <2>1. n \in 0 .. Len(t) /\ n = Len(s) /\ n \in 0 .. Len(s)
    BY <1>1, <1>3 DEF n
  <2>2. /\ SubSeq(s, 1, n) \in Seq(Nat) /\ Len(SubSeq(s, 1, n)) = n
        /\ \A i \in 1 .. n : SubSeq(s, 1, n)[i] = s[i]
    BY <1>1, <2>1, FirstOf
  <2>3. /\ SubSeq(t, 1, n) \in Seq(Nat) /\ Len(SubSeq(t, 1, n)) = n
        /\ \A i \in 1 .. n : SubSeq(t, 1, n)[i] = t[i]
    BY <1>1, <2>1, FirstOf
  <2>4. SubSeq(s, 1, n) = SubSeq(t, 1, n) <=> \A i \in 1 .. n : s[i] = t[i]
    <3>1. ASSUME SubSeq(s, 1, n) = SubSeq(t, 1, n) PROVE \A i \in 1 .. n : s[i] = t[i]
      BY <2>2, <2>3, <3>1
    <3>2. ASSUME \A i \in 1 .. n : s[i] = t[i] PROVE SubSeq(s, 1, n) = SubSeq(t, 1, n)
      <4>1. \A i \in 1 .. n : SubSeq(s, 1, n)[i] = SubSeq(t, 1, n)[i]
        BY <2>2, <2>3, <3>2
      <4> DEFINE a == SubSeq(s, 1, n)
                 b == SubSeq(t, 1, n)
      <4>2. a \in Seq(Nat) /\ b \in Seq(Nat) /\ Len(a) = Len(b) /\ \A i \in 1 .. Len(a) : a[i] = b[i]
        BY <2>2, <2>3, <4>1
      <4> HIDE DEF a, b
      <4>3. a = b
        BY <4>2, SeqEqual
      <4> QED BY <4>3 DEF a, b
    <3> QED BY <3>1, <3>2
  <2>5. IsPrefix(s, t) <=> SubSeq(s, 1, n) = SubSeq(t, 1, n)
    BY <1>3, <2>1 DEF IsPrefix
  <2> QED BY <1>3, <2>1, <2>4, <2>5
<1> QED BY <1>2, <1>3

\* A prefix of a prefix is one.
LEMMA PrefixOfPrefix ==
    ASSUME NEW s \in Texts, NEW t \in Texts, NEW u \in Texts, IsPrefix(s, t), IsPrefix(t, u)
    PROVE  IsPrefix(s, u)
<1>1. Len(s) \in Nat /\ Len(t) \in Nat /\ Len(u) \in Nat
  BY LenProperties DEF Texts
<1>2. Len(s) <= Len(t) /\ \A i \in 1 .. Len(s) : s[i] = t[i]
  BY PrefixIs
<1>3. Len(t) <= Len(u) /\ \A i \in 1 .. Len(t) : t[i] = u[i]
  BY PrefixIs
<1>4. Len(s) <= Len(u)
  BY <1>1, <1>2, <1>3
<1>5. ASSUME NEW i \in 1 .. Len(s) PROVE s[i] = u[i]
  <2>1. i \in 1 .. Len(t)
    BY <1>1, <1>2
  <2> QED BY <1>2, <1>3, <2>1
<1> QED BY <1>4, <1>5, PrefixIs

\* A text begins with itself.
LEMMA PrefixOfItself == ASSUME NEW s \in Texts PROVE IsPrefix(s, s)
<1>1. Len(s) \in Nat
  BY LenProperties DEF Texts
<1> QED BY <1>1, PrefixIs

\* What is joined begins with its first part.
LEMMA PrefixJoined ==
    ASSUME NEW s \in Texts, NEW t \in Texts
    PROVE  s \o t \in Texts /\ IsPrefix(s, s \o t)
<1>1. Len(s) \in Nat /\ Len(t) \in Nat
  BY LenProperties DEF Texts
<1>2. /\ s \o t \in Texts /\ Len(s \o t) = Len(s) + Len(t)
      /\ \A i \in 1 .. Len(s) + Len(t) : (s \o t)[i] = IF i <= Len(s) THEN s[i] ELSE t[i - Len(s)]
  BY ConcatProperties DEF Texts
<1> DEFINE u == s \o t
<1>3. u \in Texts /\ Len(s) <= Len(u)
  BY <1>1, <1>2
<1>4. \A i \in 1 .. Len(s) : s[i] = u[i]
  BY <1>1, <1>2
<1> HIDE DEF u
<1>5. IsPrefix(s, u)
  BY <1>3, <1>4, PrefixIs
<1> QED BY <1>2, <1>5 DEF u

\* Behind the same, a prefix stays one.
LEMMA PrefixBehind ==
    ASSUME NEW s \in Texts, NEW t \in Texts, NEW u \in Texts, IsPrefix(t, u)
    PROVE  IsPrefix(s \o t, s \o u)
<1> DEFINE a == s \o t
           b == s \o u
<1>1. Len(s) \in Nat /\ Len(t) \in Nat /\ Len(u) \in Nat
  BY LenProperties DEF Texts
<1>2. /\ a \in Texts /\ Len(a) = Len(s) + Len(t)
      /\ \A i \in 1 .. Len(s) + Len(t) : a[i] = IF i <= Len(s) THEN s[i] ELSE t[i - Len(s)]
  BY ConcatProperties DEF Texts
<1>3. /\ b \in Texts /\ Len(b) = Len(s) + Len(u)
      /\ \A i \in 1 .. Len(s) + Len(u) : b[i] = IF i <= Len(s) THEN s[i] ELSE u[i - Len(s)]
  BY ConcatProperties DEF Texts
<1>4. Len(t) <= Len(u) /\ \A i \in 1 .. Len(t) : t[i] = u[i]
  BY PrefixIs
<1> HIDE DEF a, b
<1>5. Len(a) <= Len(b)
  BY <1>1, <1>2, <1>3, <1>4
<1>6. ASSUME NEW i \in 1 .. Len(a) PROVE a[i] = b[i]
  <2>1. i \in 1 .. Len(s) + Len(t) /\ i \in 1 .. Len(s) + Len(u)
    BY <1>1, <1>2, <1>4, <1>6
  <2>2. CASE i <= Len(s)
    BY <1>2, <1>3, <2>1, <2>2
  <2>3. CASE ~ i <= Len(s)
    <3>1. i - Len(s) \in 1 .. Len(t)
      BY <1>1, <2>1, <2>3
    <3> QED BY <1>2, <1>3, <1>4, <2>1, <2>3, <3>1
  <2> QED BY <2>2, <2>3
<1>7. IsPrefix(a, b)
  BY <1>2, <1>3, <1>5, <1>6, PrefixIs
<1> QED BY <1>7 DEF a, b

\* The range that is searched holds what begins with the prefix.
LEMMA RangeIsPrefix ==
    ASSUME NEW s \in Texts, NEW t \in Texts, t # <<>>
    PROVE  InPrefix(s, t) <=> IsPrefix(t, s)
<1> DEFINE n == Len(t)
           m == Len(s)
           top == UpperBound(t)
           Parts(x, i) == /\ \A j \in 1 .. i - 1 : j <= m /\ s[j] = x[j]
                          /\ i > m \/ s[i] < x[i]
<1>1. n \in Nat \ {0} /\ m \in Nat /\ DOMAIN t = 1 .. n
  BY EmptySeq, LenProperties DEF Texts
<1>2. \A i \in 1 .. n : t[i] \in Nat
  BY ElementOfSeq DEF Texts
<1>3. \A i \in 1 .. m : s[i] \in Nat
  BY ElementOfSeq DEF Texts
<1>4. DOMAIN top = 1 .. n /\ \A i \in 1 .. n : top[i] = IF i = n THEN t[i] + 1 ELSE t[i]
  BY <1>1 DEF UpperBound
<1>5. IsPrefix(t, s) <=> n <= m /\ \A i \in 1 .. n : t[i] = s[i]
  BY PrefixIs
<1>6. Below(s, t) <=> \E i \in 1 .. n : Parts(t, i)
  <2>1. Below(s, t) <=> \E i \in DOMAIN t : Parts(t, i)
    BY DEF Below
  <2> HIDE DEF Parts, n
  <2> QED BY <1>1, <2>1
<1>7. Below(s, top) <=> \E i \in 1 .. n : Parts(top, i)
  <2> HIDE DEF top
  <2>1. Below(s, top) <=> \E i \in DOMAIN top : Parts(top, i)
    BY DEF Below
  <2> HIDE DEF Parts, n
  <2> QED BY <1>4, <2>1
<1> HIDE DEF n, m, top
<1>8. ASSUME IsPrefix(t, s) PROVE ~ Below(s, t) /\ Below(s, top)
  <2>1. n <= m /\ \A i \in 1 .. n : t[i] = s[i]
    BY <1>5, <1>8
  <2>2. ~ Below(s, t)
    <3> SUFFICES ASSUME NEW i \in 1 .. n, i > m \/ s[i] < t[i] PROVE FALSE
      BY <1>6
    <3>1. i <= m /\ s[i] = t[i] /\ t[i] \in Nat
      BY <1>1, <1>2, <2>1
    <3> QED BY <1>1, <3>1
  <2>3. n \in 1 .. n /\ \A j \in 1 .. n - 1 : j \in 1 .. n /\ j # n
    BY <1>1
  <2>4. \A j \in 1 .. n - 1 : j <= m /\ s[j] = top[j]
    BY <1>1, <1>4, <2>1, <2>3
  <2>5. s[n] < top[n]
    <3>1. top[n] = t[n] + 1 /\ s[n] = t[n] /\ t[n] \in Nat
      BY <1>2, <1>4, <2>1, <2>3
    <3> QED BY <3>1
  <2> QED BY <1>7, <2>2, <2>3, <2>4, <2>5
<1>9. ASSUME ~ Below(s, t), Below(s, top) PROVE IsPrefix(t, s)
  <2>1. PICK i \in 1 .. n : /\ \A j \in 1 .. i - 1 : j <= m /\ s[j] = top[j]
                            /\ i > m \/ s[i] < top[i]
    <3>1. \E i \in 1 .. n : Parts(top, i)
      BY <1>7, <1>9
    <3> QED BY <3>1
  <2>2. \A j \in 1 .. i - 1 : j \in 1 .. n /\ j # n
    BY <1>1
  <2>3. \A j \in 1 .. i - 1 : j <= m /\ s[j] = t[j]
    BY <1>4, <2>1, <2>2
  <2>4. ~(i > m \/ s[i] < t[i])
    BY <1>6, <1>9, <2>3
  <2>5. i \in 1 .. m /\ s[i] < top[i]
    BY <1>1, <2>1, <2>4
  <2>6. i = n
    BY <1>4, <2>4, <2>5
  <2>7. top[i] = t[i] + 1 /\ s[i] \in Nat /\ t[i] \in Nat
    BY <1>2, <1>3, <1>4, <2>5, <2>6
  <2> DEFINE a == s[i]
             b == t[i]
             c == top[i]
  <2>8. a < c /\ ~ a < b /\ c = b + 1 /\ a \in Nat /\ b \in Nat
    BY <2>4, <2>5, <2>7
  <2> HIDE DEF a, b, c
  <2>9. a = b
    BY <2>8
  <2>10. s[n] = t[n] /\ n <= m
    <3>1. s[i] = t[i]
      BY <2>9 DEF a, b
    <3> QED BY <1>1, <2>5, <2>6, <3>1
  <2>11. ASSUME NEW j \in 1 .. n PROVE t[j] = s[j]
    <3>1. j = n \/ j \in 1 .. i - 1
      BY <1>1, <2>6
    <3> QED BY <2>3, <2>10, <3>1
  <2> QED BY <1>5, <2>10, <2>11
<1> QED BY <1>8, <1>9 DEF InPrefix, top

\* What begins with another text is not before it, and is behind if it is longer.
LEMMA LongerIsBehind ==
    ASSUME NEW s \in Texts, NEW t \in Texts, IsPrefix(s, t), s # t
    PROVE  Below(s, t)
<1> DEFINE n == Len(s)
           m == Len(t)
<1>1. n \in Nat /\ m \in Nat /\ DOMAIN t = 1 .. m /\ s \in Seq(Nat) /\ t \in Seq(Nat)
  BY LenProperties DEF Texts
<1>2. n <= m /\ \A i \in 1 .. n : s[i] = t[i]
  BY PrefixIs
<1>3. n # m
  <2> SUFFICES ASSUME Len(s) = Len(t) PROVE s = t
    OBVIOUS
  <2> HIDE DEF n, m
  <2>1. \A i \in 1 .. Len(s) : s[i] = t[i]
    BY <1>2 DEF n
  <2> QED BY <1>1, <2>1, SeqEqual
<1> HIDE DEF m
<1>4. n + 1 \in DOMAIN t /\ n + 1 > n
  <2> HIDE DEF n
  <2> QED BY <1>1, <1>2, <1>3
<1>5. \A j \in 1 .. (n + 1) - 1 : j <= n /\ s[j] = t[j]
  <2>1. (n + 1) - 1 = n
    BY <1>1
  <2>2. \A j \in 1 .. n : j <= n
    BY <1>1
  <2> HIDE DEF n
  <2> QED BY <1>2, <2>1, <2>2
<1> DEFINE k == n + 1
<1>6. k \in DOMAIN t /\ k > Len(s) /\ \A j \in 1 .. k - 1 : j <= Len(s) /\ s[j] = t[j]
  BY <1>4, <1>5
<1> HIDE DEF k
<1> QED BY <1>6 DEF Below

\* Words cut in the k-th word behind its n-th character.
Cut(words, k, n) == SubSeq(words, 1, k - 1) \o <<SubSeq(words[k], 1, n)>>

\* Words are sequences of texts that are not empty.
LEMMA WordsType ==
    ASSUME NEW words \in Words
    PROVE  /\ words \in Seq(Texts) /\ Len(words) \in Nat /\ DOMAIN words = 1 .. Len(words)
           /\ \A i \in 1 .. Len(words) :
                /\ words[i] \in Texts /\ words[i] # <<>> /\ Len(words[i]) \in Nat \ {0}
                /\ \A j \in 1 .. Len(words[i]) : words[i][j] \in Nat /\ words[i][j] > Space
<1>1. words \in Seq(Texts) /\ Len(words) \in Nat /\ DOMAIN words = 1 .. Len(words)
  BY LenProperties DEF Words
<1>2. ASSUME NEW i \in 1 .. Len(words)
      PROVE  /\ words[i] \in Texts /\ words[i] # <<>> /\ Len(words[i]) \in Nat \ {0}
             /\ \A j \in 1 .. Len(words[i]) : words[i][j] \in Nat /\ words[i][j] > Space
  <2>1. words[i] \in Texts /\ words[i] # <<>> /\ \A c \in Range(words[i]) : c > Space
    BY <1>1, ElementOfSeq DEF Words
  <2> DEFINE w == words[i]
  <2>2. w \in Seq(Nat) /\ w # <<>> /\ \A c \in Range(w) : c > Space
    BY <2>1 DEF Texts
  <2> HIDE DEF w
  <2>3. Len(w) \in Nat \ {0} /\ DOMAIN w = 1 .. Len(w)
    BY <2>2, EmptySeq, LenProperties
  <2>4. \A j \in 1 .. Len(w) : w[j] \in Nat /\ w[j] \in Range(w)
    BY <2>2, <2>3, ElementOfSeq DEF Range
  <2>5. \A j \in 1 .. Len(w) : w[j] \in Nat /\ w[j] > Space
    BY <2>2, <2>4
  <2> QED BY <2>1, <2>3, <2>5 DEF w
<1> QED BY <1>1, <1>2

\* As many of the first ones as you like are words, too.
LEMMA FirstWords ==
    ASSUME NEW words \in Words, NEW k \in 0 .. Len(words)
    PROVE  /\ SubSeq(words, 1, k) \in Words /\ Len(SubSeq(words, 1, k)) = k
           /\ \A i \in 1 .. k : SubSeq(words, 1, k)[i] = words[i]
<1> DEFINE front == SubSeq(words, 1, k)
<1>1. front \in Seq(Texts) /\ Len(front) = k /\ \A i \in 1 .. k : front[i] = words[i]
  BY WordsType, FirstOf
<1>2. DOMAIN front = 1 .. k
  BY <1>1, LenProperties
<1> HIDE DEF front
<1>3. \A i \in 1 .. k : i \in DOMAIN words
  BY WordsType
<1>4. \A i \in DOMAIN front : front[i] # <<>> /\ \A c \in Range(front[i]) : c > Space
  BY <1>1, <1>2, <1>3 DEF Words
<1>5. front \in Words
  BY <1>1, <1>4 DEF Words
<1> QED BY <1>1, <1>5 DEF front

\* The first ones of the first ones.
LEMMA FirstOfFirst ==
    ASSUME NEW words \in Words, NEW k \in 1 .. Len(words)
    PROVE  SubSeq(SubSeq(words, 1, k), 1, k - 1) = SubSeq(words, 1, k - 1)
<1> DEFINE front == SubSeq(words, 1, k)
           a == SubSeq(front, 1, k - 1)
           b == SubSeq(words, 1, k - 1)
<1>1. k \in 0 .. Len(words) /\ k - 1 \in 0 .. Len(words) /\ k \in Int /\ k >= 1
  BY WordsType
<1>2. front \in Words /\ Len(front) = k /\ \A i \in 1 .. k : front[i] = words[i]
  BY <1>1, FirstWords
<1>3. b \in Words /\ Len(b) = k - 1 /\ \A i \in 1 .. k - 1 : b[i] = words[i]
  <2> DEFINE m == k - 1
  <2>1. m \in 0 .. Len(words)
    BY <1>1
  <2> HIDE DEF m
  <2>2. /\ SubSeq(words, 1, m) \in Words /\ Len(SubSeq(words, 1, m)) = m
        /\ \A i \in 1 .. m : SubSeq(words, 1, m)[i] = words[i]
    BY <2>1, FirstWords
  <2> QED BY <2>2 DEF m
<1> HIDE DEF front
<1>4. a \in Words /\ Len(a) = k - 1 /\ \A i \in 1 .. k - 1 : a[i] = front[i]
  <2> DEFINE m == k - 1
  <2>1. m \in 0 .. Len(front)
    BY <1>1, <1>2
  <2> HIDE DEF m
  <2>2. /\ SubSeq(front, 1, m) \in Words /\ Len(SubSeq(front, 1, m)) = m
        /\ \A i \in 1 .. m : SubSeq(front, 1, m)[i] = front[i]
    BY <1>2, <2>1, FirstWords
  <2> QED BY <2>2 DEF m
<1> HIDE DEF a, b
<1>5. \A i \in 1 .. k - 1 : i \in 1 .. k
  BY <1>1
<1>6. \A i \in 1 .. Len(a) : a[i] = b[i]
  BY <1>2, <1>3, <1>4, <1>5
<1>7. a \in Seq(Texts) /\ b \in Seq(Texts) /\ Len(a) = Len(b)
  BY <1>3, <1>4, WordsType
<1>8. a = b
  BY <1>6, <1>7, SeqEqual
<1> QED BY <1>8 DEF a, b, front

\* The text of words is a text, if there are any.
LEMMA TextType ==
    ASSUME NEW words \in Words, words # <<>>
    PROVE  Text(words) \in Texts /\ Text(words) # <<>>
<1> DEFINE T(k) == Text(SubSeq(words, 1, k))
           n == Len(words)
           Fails(k) == ~(T(k) \in Texts /\ T(k) # <<>>)
           B == {k \in 1 .. n : Fails(k)}
<1>1. n \in Nat \ {0} /\ SubSeq(words, 1, n) = words
  BY WordsType, EmptySeq, SubSeqFull
<1>2. T(n) = Text(words)
  BY <1>1
<1>3. Space \in Nat /\ <<Space>> \in Texts
  BY SearchAssumption DEF Texts
<1>4. B = {}
  <2> SUFFICES ASSUME B # {} PROVE FALSE
    OBVIOUS
  <2>1. B \subseteq 1 .. n /\ n \in Nat
    BY <1>1
  <2>2. PICK k \in B : k \in 1 .. n /\ \A m \in 1 .. n : m < k => m \notin B
    <3> HIDE DEF B
    <3> QED BY <2>1, FirstNumber
  <2> DEFINE front == SubSeq(words, 1, k)
  <2>3. k \in 0 .. n
    BY <2>2
  <2>4. front \in Words /\ Len(front) = k /\ \A i \in 1 .. k : front[i] = words[i]
    <3> HIDE DEF n
    <3> QED BY <2>3, FirstWords DEF n
  <2>5. SubSeq(front, 1, k - 1) = SubSeq(words, 1, k - 1)
    BY <2>2, FirstOfFirst
  <2>6. front[k] \in Texts /\ front[k] # <<>>
    <3>1. front[k] = words[k]
      BY <2>2, <2>4
    <3> QED BY <2>2, <3>1, WordsType
  <2>7. front \in Seq(Seq(Nat)) /\ front # <<>> /\ T(k) = Text(front)
    <3>1. front \in Seq(Texts) /\ T(k) = Text(front)
      BY <2>4, WordsType
    <3>2. front # <<>>
      BY <2>2, <2>4, EmptySeq
    <3> QED BY <3>1, <3>2 DEF Texts
  <2>8. /\ k = 1 => T(k) = front[1]
        /\ k > 1 => T(k) = T(k - 1) \o (<<Space>> \o front[k])
    <3>1. /\ Len(front) = 1 => Text(front) = front[1]
          /\ Len(front) > 1 => Text(front) = Text(SubSeq(front, 1, Len(front) - 1))
                                                \o (<<Space>> \o front[Len(front)])
      BY <2>7, TextStep
    <3> HIDE DEF front
    <3>2. Len(front) = k
      BY <2>4
    <3>3. T(k - 1) = Text(SubSeq(front, 1, k - 1))
      BY <2>5
    <3> HIDE DEF T
    <3> QED BY <2>7, <3>1, <3>2, <3>3
  <2> HIDE DEF front, T
  <2>9. CASE k = 1
    <3>1. ~Fails(k)
      BY <2>6, <2>8, <2>9
    <3> QED BY <2>2, <3>1
  <2>10. CASE k > 1
    <3>1. k - 1 \in 1 .. n /\ k - 1 < k
      BY <2>2, <2>10
    <3>2. T(k - 1) \in Texts /\ T(k - 1) # <<>>
      BY <2>2, <3>1
    <3> DEFINE a == T(k - 1)
               b == <<Space>> \o front[k]
    <3>3. b \in Texts
      BY <1>3, <2>6, PrefixJoined
    <3>4. a \in Texts /\ a # <<>> /\ T(k) = a \o b
      BY <2>8, <2>10, <3>2
    <3> HIDE DEF a, b
    <3>5. a \o b \in Texts /\ IsPrefix(a, a \o b)
      BY <3>3, <3>4, PrefixJoined
    <3>6. a \o b # <<>>
      BY <3>3, <3>4, ConcatEqualIffEmpty DEF Texts
    <3>7. ~Fails(k)
      BY <3>4, <3>5, <3>6
    <3> QED BY <2>2, <3>7
  <2> QED BY <2>2, <2>9, <2>10
<1>5. ~Fails(n)
  <2> HIDE DEF Fails
  <2>1. n \in 1 .. n
    BY <1>1
  <2> HIDE DEF n
  <2> QED BY <1>4, <2>1
<1> QED BY <1>2, <1>5

\* The last word of a text behind the others, in types.
LEMMA TextLast ==
    ASSUME NEW words \in Words, words # <<>>
    PROVE  LET n == Len(words)
               front == SubSeq(words, 1, n - 1)
           IN /\ n \in Nat /\ n >= 1 /\ words[n] \in Texts /\ <<Space>> \o words[n] \in Texts
              /\ n = 1 => Text(words) = words[1]
              /\ n > 1 => /\ front \in Words /\ front # <<>> /\ Len(front) = n - 1
                          /\ Text(front) \in Texts /\ Text(front) # <<>>
                          /\ Text(words) = Text(front) \o (<<Space>> \o words[n])
<1> DEFINE n == Len(words)
           front == SubSeq(words, 1, n - 1)
<1>1. n \in Nat /\ n >= 1 /\ words \in Seq(Texts)
  <2>1. n \in Nat \ {0} /\ words \in Seq(Texts)
    BY WordsType, EmptySeq
  <2> HIDE DEF n
  <2> QED BY <2>1
<1>2. words[n] \in Texts /\ <<Space>> \o words[n] \in Texts
  <2> HIDE DEF n
  <2>1. n \in 1 .. Len(words)
    BY <1>1 DEF n
  <2>2. words[n] \in Texts /\ <<Space>> \in Texts
    BY <2>1, WordsType, SearchAssumption DEF Texts
  <2> QED BY <2>2, PrefixJoined
<1>3. /\ n = 1 => Text(words) = words[1]
      /\ n > 1 => Text(words) = Text(front) \o (<<Space>> \o words[n])
  BY <1>1, TextStep DEF Texts
<1>4. ASSUME n > 1
      PROVE  /\ front \in Words /\ front # <<>> /\ Len(front) = n - 1
             /\ Text(front) \in Texts /\ Text(front) # <<>>
  <2> DEFINE m == n - 1
  <2>1. m \in 0 .. n /\ m > 0
    <3> HIDE DEF n
    <3> QED BY <1>1, <1>4
  <2> HIDE DEF m
  <2>2. front \in Words /\ Len(front) = m
    <3>1. SubSeq(words, 1, m) \in Words /\ Len(SubSeq(words, 1, m)) = m
      BY <2>1, FirstWords
    <3> QED BY <3>1 DEF m
  <2> HIDE DEF front
  <2>3. front # <<>>
    <3>1. Len(<<>>) = 0
      OBVIOUS
    <3> QED BY <2>1, <2>2, <3>1
  <2>4. Text(front) \in Texts /\ Text(front) # <<>>
    BY <2>2, <2>3, TextType
  <2> QED BY <2>2, <2>3, <2>4 DEF m
<1> HIDE DEF n, front
<1> QED BY <1>1, <1>2, <1>3, <1>4 DEF n, front

\* A text begins with that of each number of its first words.
LEMMA TextGrows ==
    ASSUME NEW words \in Words, NEW k \in 1 .. Len(words)
    PROVE  /\ Text(SubSeq(words, 1, k)) \in Texts
           /\ IsPrefix(Text(SubSeq(words, 1, k)), Text(words))
<1> DEFINE n == Len(words)
           T(m) == Text(SubSeq(words, 1, m))
           B == {m \in 1 .. n : m >= k /\ ~ IsPrefix(T(k), T(m))}
<1>1. n \in Nat /\ k \in 1 .. n /\ SubSeq(words, 1, n) = words
  BY WordsType, SubSeqFull
<1>2. \A m \in 1 .. n : T(m) \in Texts
  <2> SUFFICES ASSUME NEW m \in 1 .. n PROVE T(m) \in Texts
    OBVIOUS
  <2>1. m \in 0 .. n /\ m > 0
    BY <1>1
  <2>2. SubSeq(words, 1, m) \in Words /\ Len(SubSeq(words, 1, m)) = m
    <3> HIDE DEF n
    <3> QED BY <2>1, FirstWords DEF n
  <2> DEFINE front == SubSeq(words, 1, m)
  <2>3. front # <<>>
    <3> HIDE DEF front
    <3>1. Len(<<>>) = 0 /\ Len(front) = m
      BY <2>2 DEF front
    <3> QED BY <2>1, <3>1
  <2>4. Text(front) \in Texts
    <3> HIDE DEF front
    <3> QED BY <2>2, <2>3, TextType DEF front
  <2> QED BY <2>4
<1>3. B = {}
  <2> SUFFICES ASSUME B # {} PROVE FALSE
    OBVIOUS
  <2>1. B \subseteq 1 .. n
    OBVIOUS
  <2>2. PICK m \in B : m \in 1 .. n /\ \A i \in 1 .. n : i < m => i \notin B
    <3> HIDE DEF B, n
    <3> QED BY <1>1, <2>1, FirstNumber
  <2>3. m >= k /\ ~ IsPrefix(T(k), T(m)) /\ m \in 1 .. n
    BY <2>2
  <2>4. m # k
    BY <1>1, <1>2, <2>3, PrefixOfItself
  <2>5. m - 1 \in 1 .. n /\ m - 1 < m /\ m - 1 >= k /\ m > 1
    <3> HIDE DEF n, T
    <3> QED BY <1>1, <2>3, <2>4
  <2>6. IsPrefix(T(k), T(m - 1))
    <3> HIDE DEF n, T
    <3> QED BY <2>2, <2>5
  <2> DEFINE words_m == SubSeq(words, 1, m)
  <2>7. words_m \in Words /\ Len(words_m) = m /\ SubSeq(words_m, 1, m - 1) = SubSeq(words, 1, m - 1)
    <3>1. m \in 0 .. n
      BY <2>3
    <3> HIDE DEF n
    <3> QED BY <2>3, <3>1, FirstWords, FirstOfFirst DEF n
  <2> DEFINE rest == <<Space>> \o words_m[m]
  <2>8. T(m) = T(m - 1) \o rest /\ rest \in Texts
    <3>1. T(m - 1) = Text(SubSeq(words_m, 1, m - 1)) /\ T(m) = Text(words_m)
      BY <2>7
    <3> HIDE DEF words_m, T, n
    <3>2. words_m # <<>>
      <4>1. Len(<<>>) = 0
        OBVIOUS
      <4> QED BY <2>5, <2>7, <4>1
    <3> QED BY <2>5, <2>7, <3>1, <3>2, TextLast
  <2>9. T(m - 1) \in Texts
    BY <1>2, <2>5
  <2>10. T(k) \in Texts /\ T(m) \in Texts
    BY <1>1, <1>2, <2>3
  <2> HIDE DEF T, rest
  <2>11. IsPrefix(T(m - 1), T(m))
    BY <2>8, <2>9, PrefixJoined
  <2>12. IsPrefix(T(k), T(m))
    BY <2>6, <2>9, <2>10, <2>11, PrefixOfPrefix
  <2> QED BY <2>3, <2>12
<1>4. IsPrefix(T(k), T(n))
  <2>1. n \in 1 .. n /\ n >= k
    BY <1>1
  <2> HIDE DEF T, n
  <2> QED BY <1>3, <2>1
<1>5. T(n) = Text(words)
  BY <1>1
<1> HIDE DEF n
<1> QED BY <1>1, <1>2, <1>4, <1>5

\* Words that are cut are words, and their text begins the text.
LEMMA CutBegins ==
    ASSUME NEW words \in Words, NEW k \in 1 .. Len(words), NEW n \in 1 .. Len(words[k])
    PROVE  /\ Cut(words, k, n) \in Words /\ Len(Cut(words, k, n)) = k
           /\ \A i \in 1 .. k : Cut(words, k, n)[i] = IF i = k THEN SubSeq(words[k], 1, n) ELSE words[i]
           /\ Text(Cut(words, k, n)) \in Texts /\ Text(Cut(words, k, n)) # <<>>
           /\ IsPrefix(Text(Cut(words, k, n)), Text(words))
<1> DEFINE m == k - 1
           front == SubSeq(words, 1, m)
           full == SubSeq(words, 1, k)
           word == words[k]
           part == SubSeq(word, 1, n)
           cut == front \o <<part>>
<1>1. m \in 0 .. Len(words) /\ k \in 0 .. Len(words) /\ k = m + 1 /\ m \in Nat /\ k \in Nat
  BY WordsType
<1> HIDE DEF m
<1>2. front \in Words /\ Len(front) = m /\ \A i \in 1 .. m : front[i] = words[i]
  BY <1>1, FirstWords
<1>3. full \in Words /\ Len(full) = k /\ \A i \in 1 .. k : full[i] = words[i]
  BY <1>1, FirstWords
<1>4. SubSeq(full, 1, m) = front
  BY <1>1, FirstOfFirst DEF m
<1> HIDE DEF front, full
<1>5. word \in Seq(Nat) /\ word \in Texts /\ \A j \in 1 .. Len(word) : word[j] \in Nat /\ word[j] > Space
  BY WordsType DEF Texts
<1>6. n \in 1 .. Len(word) /\ n \in 0 .. Len(word) /\ Len(word) \in Nat
  <2>1. n \in 1 .. Len(word) /\ Len(word) \in Nat
    BY <1>5, LenProperties
  <2> HIDE DEF word
  <2> QED BY <2>1
<1> HIDE DEF word
<1>7. part \in Seq(Nat) /\ Len(part) = n /\ \A j \in 1 .. n : part[j] = word[j]
  BY <1>5, <1>6, FirstOf
<1>8. part \in Texts /\ IsPrefix(part, word)
  <2> HIDE DEF part
  <2>1. part \in Texts /\ n <= Len(word)
    BY <1>6, <1>7 DEF Texts
  <2> QED BY <1>5, <1>7, <2>1, PrefixIs
<1> HIDE DEF part
<1>9. part # <<>> /\ \A c \in Range(part) : c > Space
  <2>1. Len(<<>>) = 0
    OBVIOUS
  <2>2. part # <<>>
    BY <1>6, <1>7, <2>1
  <2>3. DOMAIN part = 1 .. n
    BY <1>7, LenProperties
  <2>4. \A j \in 1 .. n : part[j] > Space
    <3> SUFFICES ASSUME NEW j \in 1 .. n PROVE part[j] > Space
      OBVIOUS
    <3>1. j \in 1 .. Len(word)
      BY <1>6
    <3> QED BY <1>5, <1>7, <3>1
  <2> QED BY <2>2, <2>3, <2>4 DEF Range
<1>10. cut \in Seq(Texts) /\ Len(cut) = k /\ \A i \in 1 .. k : cut[i] = IF i = k THEN part ELSE words[i]
  <2> DEFINE last == <<part>>
  <2>1. front \in Seq(Texts) /\ last \in Seq(Texts) /\ Len(last) = 1 /\ last[1] = part
    BY <1>2, <1>8, WordsType
  <2> HIDE DEF last
  <2>2. /\ front \o last \in Seq(Texts) /\ Len(front \o last) = m + 1
        /\ \A i \in 1 .. m + 1 : (front \o last)[i] = IF i <= m THEN front[i] ELSE last[i - m]
    <3>1. /\ front \o last \in Seq(Texts) /\ Len(front \o last) = Len(front) + Len(last)
          /\ \A i \in 1 .. Len(front) + Len(last) :
                (front \o last)[i] = IF i <= Len(front) THEN front[i] ELSE last[i - Len(front)]
      BY <2>1, ConcatProperties
    <3>2. Len(front) = m /\ Len(last) = 1
      BY <1>2, <2>1
    <3> QED BY <3>1, <3>2
  <2> DEFINE joined == front \o last
  <2>3. joined = cut
    BY DEF last
  <2> HIDE DEF cut
  <2>4. /\ joined \in Seq(Texts) /\ Len(joined) = m + 1
        /\ \A i \in 1 .. m + 1 : joined[i] = IF i <= m THEN front[i] ELSE last[i - m]
    BY <2>2
  <2> HIDE DEF joined
  <2>5. ASSUME NEW i \in 1 .. k PROVE joined[i] = IF i = k THEN part ELSE words[i]
    <3>1. i \in 1 .. m + 1
      BY <1>1
    <3>2. CASE i = k
      <4>1. ~(i <= m) /\ i - m = 1
        BY <1>1, <3>2
      <4> QED BY <2>1, <2>4, <3>1, <3>2, <4>1
    <3>3. CASE i # k
      <4>1. i <= m /\ i \in 1 .. m
        BY <1>1, <3>1, <3>3
      <4> QED BY <1>2, <2>4, <3>1, <3>3, <4>1
    <3> QED BY <3>2, <3>3
  <2> QED BY <1>1, <2>3, <2>4, <2>5
<1>11. cut = Cut(words, k, n)
  BY DEF Cut, front, m, part, word
<1> HIDE DEF cut
<1>12. cut \in Words
  <2>1. DOMAIN cut = 1 .. k
    BY <1>10, LenProperties
  <2>2. ASSUME NEW i \in 1 .. k PROVE cut[i] # <<>> /\ \A c \in Range(cut[i]) : c > Space
    <3>1. CASE i = k
      BY <1>9, <1>10, <3>1
    <3>2. CASE i # k
      <4>1. i \in DOMAIN words
        BY WordsType
      <4> QED BY <1>10, <3>2, <4>1 DEF Words
    <3> QED BY <3>1, <3>2
  <2> QED BY <1>10, <2>1, <2>2 DEF Words
<1>13. cut # <<>> /\ full # <<>>
  <2>1. Len(<<>>) = 0
    OBVIOUS
  <2> QED BY <1>1, <1>3, <1>10, <2>1
<1>14. Text(cut) \in Texts /\ Text(cut) # <<>> /\ Text(full) \in Texts /\ Text(words) \in Texts
  <2>1. words # <<>>
    <3>1. Len(<<>>) = 0
      OBVIOUS
    <3> QED BY <1>1, <3>1
  <2> QED BY <1>3, <1>12, <1>13, <2>1, TextType
<1>15. IsPrefix(Text(full), Text(words))
  BY TextGrows DEF full
<1>16. k \in 1 .. k /\ k - 1 = m
  BY <1>1
<1>17. cut[k] = part /\ full[k] = word
  BY <1>3, <1>10, <1>16 DEF word
<1>18. SubSeq(cut, 1, m) = front
  <2> DEFINE a == SubSeq(cut, 1, m)
  <2>1. m \in 0 .. Len(cut)
    BY <1>1, <1>10
  <2>2. a \in Words /\ Len(a) = m /\ \A i \in 1 .. m : a[i] = cut[i]
    BY <1>12, <2>1, FirstWords
  <2> HIDE DEF a
  <2>3. \A i \in 1 .. m : i \in 1 .. k /\ i # k
    BY <1>1
  <2>4. \A i \in 1 .. Len(a) : a[i] = front[i]
    BY <1>2, <1>10, <2>2, <2>3
  <2>5. a \in Seq(Texts) /\ front \in Seq(Texts) /\ Len(a) = Len(front)
    BY <1>2, <2>2, WordsType
  <2>6. a = front
    BY <2>4, <2>5, SeqEqual
  <2> QED BY <2>6 DEF a
<1>19. IsPrefix(Text(cut), Text(full))
  <2>1. /\ k = 1 => Text(cut) = cut[1]
        /\ k > 1 => Text(cut) = Text(front) \o (<<Space>> \o part)
    BY <1>10, <1>12, <1>13, <1>16, <1>17, <1>18, TextLast
  <2>2. /\ k = 1 => Text(full) = full[1]
        /\ k > 1 => Text(full) = Text(front) \o (<<Space>> \o word)
    BY <1>3, <1>4, <1>13, <1>16, <1>17, TextLast
  <2>3. CASE k = 1
    BY <1>8, <1>17, <2>1, <2>2, <2>3
  <2>4. CASE k > 1
    <3>1. front # <<>>
      <4>1. Len(<<>>) = 0
        OBVIOUS
      <4> QED BY <1>1, <1>2, <2>4, <4>1
    <3>2. Text(front) \in Texts
      BY <1>2, <3>1, TextType
    <3> DEFINE space == <<Space>>
               a == space \o part
               b == space \o word
    <3>3. space \in Texts
      BY SearchAssumption DEF Texts
    <3> HIDE DEF space
    <3>4. a \in Texts /\ b \in Texts
      BY <1>5, <1>8, <3>3, PrefixJoined
    <3>5. IsPrefix(a, b)
      BY <1>5, <1>8, <3>3, PrefixBehind
    <3>6. Text(cut) = Text(front) \o a /\ Text(full) = Text(front) \o b
      BY <2>1, <2>2, <2>4 DEF space
    <3> HIDE DEF a, b
    <3> QED BY <3>2, <3>4, <3>5, <3>6, PrefixBehind
  <2> QED BY <1>1, <2>3, <2>4
<1>20. IsPrefix(Text(cut), Text(words))
  BY <1>14, <1>15, <1>19, PrefixOfPrefix
<1> QED BY <1>10, <1>11, <1>12, <1>14, <1>20 DEF part, word

\* Behind the first word there are words.
LEMMA TailWords ==
    ASSUME NEW words \in Words, Len(words) > 1
    PROVE  /\ Tail(words) \in Words /\ Len(Tail(words)) = Len(words) - 1 /\ Tail(words) # <<>>
           /\ \A i \in 1 .. Len(words) - 1 : Tail(words)[i] = words[i + 1]
<1> DEFINE tail == Tail(words)
           n == Len(words)
<1>1. words \in Seq(Texts) /\ n \in Nat /\ n > 1 /\ DOMAIN words = 1 .. n
  BY WordsType
<1>2. words # <<>>
  <2>1. Len(<<>>) = 0
    OBVIOUS
  <2> QED BY <1>1, <2>1
<1>3. tail \in Seq(Texts) /\ Len(tail) = n - 1 /\ \A i \in 1 .. Len(tail) : tail[i] = words[i + 1]
  BY <1>1, <1>2, HeadTailProperties
<1>4. DOMAIN tail = 1 .. n - 1
  BY <1>3, LenProperties
<1> HIDE DEF tail, n
<1>5. ASSUME NEW i \in 1 .. n - 1 PROVE tail[i] # <<>> /\ \A c \in Range(tail[i]) : c > Space
  <2>1. i + 1 \in DOMAIN words /\ tail[i] = words[i + 1]
    BY <1>1, <1>3
  <2> QED BY <2>1 DEF Words
<1>6. tail \in Words
  BY <1>3, <1>4, <1>5 DEF Words
<1>7. tail # <<>>
  <2>1. Len(<<>>) = 0
    OBVIOUS
  <2> QED BY <1>1, <1>3, <2>1
<1> QED BY <1>3, <1>6, <1>7 DEF tail, n

\* Without the first word, what is cut is cut from the others.
LEMMA TailOfCut ==
    ASSUME NEW words \in Words, NEW k \in 1 .. Len(words), k > 1, NEW n \in 1 .. Len(words[k])
    PROVE  /\ Tail(Cut(words, k, n)) = Cut(Tail(words), k - 1, n)
           /\ k - 1 \in 1 .. Len(Tail(words)) /\ n \in 1 .. Len(Tail(words)[k - 1])
<1> DEFINE tail == Tail(words)
           m == k - 1
           cut == Cut(words, k, n)
           a == Tail(cut)
           b == Cut(tail, m, n)
<1>1. /\ Len(words) \in Nat /\ k \in Nat /\ m \in Nat /\ m >= 1 /\ k = m + 1 /\ Len(words) > 1
      /\ m \in 1 .. Len(words) - 1
  BY WordsType
<1> HIDE DEF m
<1>2. /\ tail \in Words /\ Len(tail) = Len(words) - 1
      /\ \A i \in 1 .. Len(words) - 1 : tail[i] = words[i + 1]
  BY <1>1, TailWords
<1> HIDE DEF tail
<1>3. m \in 1 .. Len(tail) /\ tail[m] = words[k] /\ n \in 1 .. Len(tail[m])
  BY <1>1, <1>2
<1>4. /\ cut \in Words /\ Len(cut) = k
      /\ \A i \in 1 .. k : cut[i] = IF i = k THEN SubSeq(words[k], 1, n) ELSE words[i]
  BY CutBegins
<1>5. /\ b \in Words /\ Len(b) = m
      /\ \A i \in 1 .. m : b[i] = IF i = m THEN SubSeq(tail[m], 1, n) ELSE tail[i]
  BY <1>2, <1>3, CutBegins
<1> HIDE DEF cut, b
<1>6. Len(cut) > 1
  BY <1>1, <1>4
<1>7. a \in Words /\ Len(a) = Len(cut) - 1 /\ \A i \in 1 .. Len(cut) - 1 : a[i] = cut[i + 1]
  BY <1>4, <1>6, TailWords
<1> HIDE DEF a
<1>8. Len(a) = m
  BY <1>1, <1>4, <1>7
<1>9. ASSUME NEW i \in 1 .. Len(a) PROVE a[i] = b[i]
  <2>1. i \in 1 .. m /\ i + 1 \in 1 .. k /\ i \in 1 .. Len(cut) - 1 /\ i \in 1 .. Len(words) - 1
    BY <1>1, <1>4, <1>8
  <2>2. a[i] = cut[i + 1]
    BY <1>7, <2>1
  <2>3. cut[i + 1] = IF i + 1 = k THEN SubSeq(words[k], 1, n) ELSE words[i + 1]
    BY <1>4, <2>1
  <2>4. b[i] = IF i = m THEN SubSeq(tail[m], 1, n) ELSE tail[i]
    BY <1>5, <2>1
  <2>5. tail[i] = words[i + 1] /\ (i = m <=> i + 1 = k)
    BY <1>1, <1>2, <2>1
  <2> QED BY <1>3, <2>2, <2>3, <2>4, <2>5
<1>10. a \in Seq(Texts) /\ b \in Seq(Texts) /\ Len(a) = Len(b)
  BY <1>5, <1>7, <1>8, WordsType
<1>11. a = b
  BY <1>9, <1>10, SeqEqual
<1> QED BY <1>3, <1>11 DEF a, b, m, cut, tail

EndsWithLast(words) ==
    LET n == Len(words)
        last == Len(words[n])
        text == Text(words)
        front == SubSeq(words, 1, n - 1)
    IN /\ n \in Nat /\ n >= 1 /\ last \in Nat /\ last >= 1 /\ Len(text) \in Nat
       /\ text \in Texts /\ words[n] \in Texts /\ Len(text) >= last
       /\ \A j \in 1 .. last : text[Len(text) - last + j] = words[n][j]
       /\ n = 1 => Len(text) = last
       /\ n > 1 => /\ Len(text) > last /\ text[Len(text) - last] = Space
                   /\ front \in Words /\ front # <<>> /\ Len(front) = n - 1
                   /\ Text(front) \in Texts /\ Len(Text(front)) = Len(text) - last - 1
                   /\ \A i \in 1 .. Len(Text(front)) : Text(front)[i] = text[i]

\* A text ends with the last word, in front of it a space and the text of the others.
LEMMA TextEnd == ASSUME NEW words \in Words, words # <<>> PROVE EndsWithLast(words)
<1> DEFINE n == Len(words)
           word == words[n]
           last == Len(words[n])
           text == Text(words)
           front == SubSeq(words, 1, n - 1)
           head == Text(front)
<1>1. /\ n \in Nat /\ n >= 1 /\ word \in Texts /\ text \in Texts
      /\ n = 1 => text = words[1]
      /\ n > 1 => /\ front \in Words /\ front # <<>> /\ Len(front) = n - 1
                  /\ head \in Texts /\ head # <<>> /\ text = head \o (<<Space>> \o word)
  BY TextLast, TextType
<1>2. last \in Nat /\ last >= 1 /\ Len(text) \in Nat
  <2>1. n \in 1 .. n
    BY <1>1
  <2>2. Len(words[n]) \in Nat \ {0}
    <3> HIDE DEF n
    <3> QED BY <2>1, WordsType DEF n
  <2>3. Len(text) \in Nat
    <3> HIDE DEF text
    <3> QED BY <1>1, LenProperties DEF Texts
  <2> QED BY <2>2, <2>3
<1>3. last = Len(word)
  OBVIOUS
<1> HIDE DEF last, front, head, text
<1>4. CASE n = 1
  <2>1. text = word
    BY <1>1, <1>4
  <2>2. \A j \in 1 .. last : Len(text) - last + j = j
    BY <1>2, <1>3, <2>1
  <2> HIDE DEF n, word
  <2>3. Len(text) = last /\ \A j \in 1 .. last : text[Len(text) - last + j] = word[j]
    BY <1>3, <2>1, <2>2
  <2>4. Len(text) >= last
    BY <1>2, <2>3
  <2>5. ~(n > 1)
    BY <1>1, <1>4 DEF n
  <2>6. n = 1 /\ 1 <= n
    BY <1>1, <1>4 DEF n
  <2> QED BY <1>1, <1>2, <2>3, <2>4, <2>5, <2>6 DEF last, front, head, text, word, n, EndsWithLast
<1>5. CASE n > 1
  <2> DEFINE space == <<Space>>
             end == space \o word
             k == Len(head)
  <2>1. /\ front \in Words /\ front # <<>> /\ Len(front) = n - 1
        /\ head \in Seq(Nat) /\ word \in Seq(Nat) /\ text = head \o end
    BY <1>1, <1>5 DEF Texts
  <2>2. space \in Seq(Nat) /\ Len(space) = 1 /\ space[1] = Space
    BY SearchAssumption
  <2> HIDE DEF space, n, word
  <2>3. /\ end \in Seq(Nat) /\ Len(end) = Len(space) + Len(word)
        /\ \A i \in 1 .. Len(space) + Len(word) : end[i] = IF i <= Len(space) THEN space[i] ELSE word[i - Len(space)]
    BY <2>1, <2>2, ConcatProperties
  <2>4. end[1] = Space /\ \A j \in 1 .. last : end[j + 1] = word[j]
    <3>1. 1 \in 1 .. Len(space) + Len(word) /\ 1 <= Len(space)
      BY <1>2, <1>3, <2>2
    <3>2. \A j \in 1 .. last : j + 1 \in 1 .. Len(space) + Len(word) /\ ~(j + 1 <= Len(space)) /\ j + 1 - Len(space) = j
      BY <1>2, <1>3, <2>2
    <3>3. end[1] = Space
      BY <2>2, <2>3, <3>1
    <3>4. ASSUME NEW j \in 1 .. last PROVE end[j + 1] = word[j]
      <4>1. end[j + 1] = word[j + 1 - Len(space)]
        BY <2>3, <3>2
      <4> QED BY <3>2, <4>1
    <3> QED BY <3>3, <3>4
  <2>5. Len(end) = last + 1
    BY <1>2, <1>3, <2>2, <2>3
  <2> HIDE DEF end
  <2>6. /\ Len(text) = k + Len(end)
        /\ \A i \in 1 .. k + Len(end) : text[i] = IF i <= k THEN head[i] ELSE end[i - k]
    BY <2>1, <2>3, ConcatProperties
  <2>7. k \in Nat
    BY <2>1, LenProperties
  <2> HIDE DEF k
  <2>8. Len(text) > last /\ Len(text) >= last /\ k = Len(text) - last - 1 /\ Len(text) - last = k + 1
    BY <1>2, <2>5, <2>6, <2>7
  <2>9. text[Len(text) - last] = Space
    <3> DEFINE i == k + 1
    <3>1. i \in 1 .. k + Len(end) /\ ~(i <= k) /\ i - k = 1 /\ Len(text) - last = i
      BY <1>2, <2>5, <2>7, <2>8
    <3> HIDE DEF i
    <3>2. text[i] = end[i - k]
      BY <2>6, <3>1
    <3> QED BY <2>4, <2>8, <3>1, <3>2
  <2>10. ASSUME NEW j \in 1 .. last PROVE text[Len(text) - last + j] = word[j]
    <3> DEFINE i == k + 1 + j
    <3>1. i \in 1 .. k + Len(end) /\ ~(i <= k) /\ i - k = j + 1 /\ Len(text) - last + j = i
      BY <1>2, <2>5, <2>7, <2>8
    <3> HIDE DEF i
    <3>2. text[i] = end[i - k]
      BY <2>6, <3>1
    <3> QED BY <2>4, <3>1, <3>2
  <2>11. \A i \in 1 .. k : head[i] = text[i]
    <3> SUFFICES ASSUME NEW i \in 1 .. k PROVE head[i] = text[i]
      OBVIOUS
    <3>1. i <= k /\ i \in 1 .. k + Len(end)
      BY <1>2, <2>5, <2>7
    <3>2. text[i] = IF i <= k THEN head[i] ELSE end[i - k]
      BY <2>6, <3>1
    <3> QED BY <3>1, <3>2
  <2>12. n > 1 => /\ Len(text) > last /\ text[Len(text) - last] = Space
                  /\ front \in Words /\ front # <<>> /\ Len(front) = n - 1
                  /\ head \in Texts /\ Len(head) = Len(text) - last - 1
                  /\ \A i \in 1 .. Len(head) : head[i] = text[i]
    BY <2>1, <2>8, <2>9, <2>11 DEF k, Texts
  <2>13. n # 1
    <3>1. \A number \in Nat : number > 1 => number # 1
      OBVIOUS
    <3> QED BY <1>1, <1>5, <3>1 DEF n
  <2> QED BY <1>1, <1>2, <2>8, <2>10, <2>12, <2>13 DEF last, front, head, text, word, n, EndsWithLast
<1>6. n = 1 \/ n > 1
  <2> HIDE DEF n
  <2> QED BY <1>1
<1> QED BY <1>4, <1>5, <1>6

\* Of two words with one text, neither ends with a shorter word.
LEMMA NoShorterEnd ==
    ASSUME NEW c \in Words, NEW d \in Words, c # <<>>, d # <<>>, Text(c) = Text(d)
    PROVE  Len(c[Len(c)]) >= Len(d[Len(d)])
<1> DEFINE n == Len(c)
           m == Len(d)
           x == Len(c[n])
           y == Len(d[m])
           t == Text(c)
           l == Len(t)
<1>1. /\ n \in Nat /\ n >= 1 /\ x \in Nat /\ x >= 1 /\ l \in Nat
      /\ n = 1 => l = x
      /\ n > 1 => l > x /\ t[l - x] = Space
  BY TextEnd DEF EndsWithLast
<1>2. m \in Nat /\ m >= 1 /\ y \in Nat /\ y >= 1 /\ l >= y /\ \A j \in 1 .. y : t[l - y + j] = d[m][j]
  <2>1. EndsWithLast(d) /\ t = Text(d)
    BY TextEnd
  <2> QED BY <2>1 DEF EndsWithLast
<1>3. \A j \in 1 .. y : d[m][j] \in Nat /\ d[m][j] > Space
  <2>1. m \in 1 .. Len(d)
    BY <1>2
  <2> HIDE DEF m
  <2> QED BY <2>1, WordsType
<1> HIDE DEF n, m, x, y, t, l
<1>4. SUFFICES ASSUME x < y PROVE FALSE
  BY <1>1, <1>2 DEF n, m, x, y
<1>5. n > 1
  BY <1>1, <1>2, <1>4
<1> DEFINE j == y - x
<1>6. j \in 1 .. y /\ l - y + j = l - x
  BY <1>1, <1>2, <1>4
<1> HIDE DEF j
<1>7. t[l - x] = d[m][j]
  BY <1>2, <1>6
<1>8. d[m][j] = Space /\ d[m][j] > Space /\ d[m][j] \in Nat
  BY <1>1, <1>3, <1>5, <1>6, <1>7
<1> QED BY <1>8

\* A text has been made of one sequence of words only.
LEMMA SameText ==
    ASSUME NEW a \in Words, NEW b \in Words, a # <<>>, b # <<>>, Text(a) = Text(b)
    PROVE  a = b
<1> DEFINE Twice(n, c, d) == Len(c) = n /\ c # <<>> /\ d # <<>> /\ Text(c) = Text(d) /\ c # d
           B == {n \in 1 .. Len(a) : \E c, d \in Words : Twice(n, c, d)}
<1> SUFFICES ASSUME a # b PROVE FALSE
  OBVIOUS
<1>1. Len(a) \in Nat /\ Len(a) \in 1 .. Len(a)
  <2>1. Len(a) \in Nat /\ Len(a) >= 1
    BY TextEnd DEF EndsWithLast
  <2> QED BY <2>1
<1>2. Twice(Len(a), a, b)
  OBVIOUS
<1>3. Len(a) \in B /\ B \subseteq 1 .. Len(a)
  <2> HIDE DEF Twice
  <2> QED BY <1>1, <1>2
<1>4. PICK n \in B : n \in 1 .. Len(a) /\ \A k \in 1 .. Len(a) : k < n => k \notin B
  <2> HIDE DEF B
  <2> QED BY <1>1, <1>3, FirstNumber
<1>5. PICK c \in Words, d \in Words : Twice(n, c, d)
  BY <1>4
<1>6. Len(c) = n /\ c # <<>> /\ d # <<>> /\ Text(c) = Text(d) /\ c # d
  BY <1>5
<1> DEFINE m == Len(d)
           v == c[n]
           w == d[m]
           t == Text(c)
           e == SubSeq(c, 1, n - 1)
           f == SubSeq(d, 1, m - 1)
<1>7. /\ n \in Nat /\ n >= 1 /\ Len(t) \in Nat
      /\ n = 1 => Len(t) = Len(v)
      /\ n > 1 => /\ Len(t) > Len(v) /\ e \in Words /\ e # <<>> /\ Len(e) = n - 1
                  /\ Text(e) \in Texts /\ Len(Text(e)) = Len(t) - Len(v) - 1
                  /\ \A i \in 1 .. Len(Text(e)) : Text(e)[i] = t[i]
  BY <1>6, TextEnd DEF EndsWithLast
<1>8. /\ m \in Nat /\ m >= 1
      /\ m = 1 => Len(t) = Len(w)
      /\ m > 1 => /\ Len(t) > Len(w) /\ f \in Words /\ f # <<>> /\ Len(f) = m - 1
                  /\ Text(f) \in Texts /\ Len(Text(f)) = Len(t) - Len(w) - 1
                  /\ \A i \in 1 .. Len(Text(f)) : Text(f)[i] = t[i]
  <2>1. EndsWithLast(d) /\ t = Text(d)
    BY <1>6, TextEnd
  <2> QED BY <2>1 DEF EndsWithLast
<1>9. /\ Len(v) \in Nat /\ Len(w) \in Nat /\ v \in Texts /\ w \in Texts
      /\ Len(t) >= Len(v) /\ Len(t) >= Len(w)
      /\ \A j \in 1 .. Len(v) : t[Len(t) - Len(v) + j] = v[j]
      /\ \A j \in 1 .. Len(w) : t[Len(t) - Len(w) + j] = w[j]
  <2>1. EndsWithLast(c) /\ EndsWithLast(d) /\ t = Text(d) /\ t = Text(c) /\ n = Len(c)
    BY <1>6, TextEnd
  <2>2. Len(v) \in Nat /\ v \in Texts /\ Len(t) >= Len(v) /\ \A j \in 1 .. Len(v) : t[Len(t) - Len(v) + j] = v[j]
    BY <2>1 DEF EndsWithLast
  <2>3. Len(w) \in Nat /\ w \in Texts /\ Len(t) >= Len(w) /\ \A j \in 1 .. Len(w) : t[Len(t) - Len(w) + j] = w[j]
    BY <2>1 DEF EndsWithLast
  <2> QED BY <2>2, <2>3
<1>10. Len(v) >= Len(w) /\ Len(w) >= Len(v)
  BY <1>6, NoShorterEnd
<1>11. c \in Seq(Texts) /\ d \in Seq(Texts)
  BY WordsType
<1>12. \A i \in 1 .. n - 1 : n > 1 => e[i] = c[i]
  <2> SUFFICES ASSUME n > 1 PROVE \A i \in 1 .. n - 1 : e[i] = c[i]
    OBVIOUS
  <2> DEFINE k == n - 1
  <2>1. k \in 0 .. Len(c)
    BY <1>6, <1>7
  <2> HIDE DEF k
  <2>2. \A i \in 1 .. k : SubSeq(c, 1, k)[i] = c[i]
    BY <2>1, FirstWords
  <2> QED BY <2>2 DEF k
<1>13. \A i \in 1 .. m - 1 : m > 1 => f[i] = d[i]
  <2> SUFFICES ASSUME m > 1 PROVE \A i \in 1 .. m - 1 : f[i] = d[i]
    OBVIOUS
  <2> DEFINE k == m - 1
  <2>1. k \in 0 .. Len(d)
    BY <1>8
  <2> HIDE DEF k
  <2>2. \A i \in 1 .. k : SubSeq(d, 1, k)[i] = d[i]
    BY <2>1, FirstWords
  <2> QED BY <2>2 DEF k
<1> HIDE DEF v, w, t, e, f, B
<1>14. v = w
  <2>1. Len(v) = Len(w)
    BY <1>9, <1>10
  <2>2. \A j \in 1 .. Len(v) : v[j] = w[j]
    BY <1>9, <2>1
  <2> QED BY <1>9, <2>1, <2>2, SeqEqual DEF Texts
<1>15. n > 1 <=> m > 1
  <2>1. ASSUME n = 1, m > 1 PROVE FALSE
    BY <1>7, <1>8, <1>9, <1>14, <2>1
  <2>2. ASSUME m = 1, n > 1 PROVE FALSE
    BY <1>7, <1>8, <1>9, <1>14, <2>2
  <2>3. n \in Nat /\ n >= 1 /\ m \in Nat /\ m >= 1
    BY <1>7, <1>8
  <2> HIDE DEF m
  <2> QED BY <2>1, <2>2, <2>3
<1>16. n > 1 => e = f
  <2> SUFFICES ASSUME n > 1 PROVE e = f
    OBVIOUS
  <2>1. /\ Text(e) \in Seq(Nat) /\ Text(f) \in Seq(Nat) /\ Len(Text(e)) = Len(Text(f))
        /\ \A i \in 1 .. Len(Text(e)) : Text(e)[i] = Text(f)[i]
    BY <1>7, <1>8, <1>14, <1>15 DEF Texts
  <2>2. Text(e) = Text(f)
    BY <2>1, SeqEqual
  <2>3. e \in Words /\ f \in Words /\ Len(e) = n - 1 /\ e # <<>> /\ f # <<>>
    BY <1>7, <1>8, <1>15
  <2>4. n - 1 \in 1 .. Len(a) /\ n - 1 < n
    BY <1>1, <1>4, <1>7
  <2>5. n - 1 \notin B
    BY <1>4, <2>4
  <2>6. ~ Twice(n - 1, e, f)
    <3> HIDE DEF Twice
    <3> QED BY <2>3, <2>4, <2>5 DEF B
  <2> QED BY <2>2, <2>3, <2>6
<1>17. n = m
  <2>1. CASE n > 1
    BY <1>7, <1>8, <1>15, <1>16, <2>1
  <2>2. CASE ~ n > 1
    BY <1>7, <1>8, <1>15, <2>2
  <2> QED BY <2>1, <2>2
<1>18. ASSUME NEW i \in 1 .. n PROVE c[i] = d[i]
  <2>1. CASE i = n
    BY <1>14, <1>17, <2>1 DEF v, w
  <2>2. CASE i # n
    <3>1. i \in 1 .. n - 1 /\ n > 1
      BY <1>7, <2>2
    <3>2. e[i] = c[i] /\ f[i] = d[i]
      BY <1>12, <1>13, <1>15, <1>17, <3>1
    <3> QED BY <1>16, <3>1, <3>2
  <2> QED BY <2>1, <2>2
<1>19. c = d
  <2>1. Len(c) = n /\ Len(d) = n
    BY <1>6, <1>17
  <2> QED BY <1>11, <1>18, <2>1, SeqEqual
<1> QED BY <1>6, <1>19

\* No words have the empty text.
LEMMA EmptyText == Text(<<>>) = <<>>
<1> DEFINE parts == [i \in DOMAIN <<>> |-> IF i = 1 THEN <<>>[i] ELSE <<Space>> \o <<>>[i]]
<1>1. Text(<<>>) = FlattenSeq(parts)
  BY DEF Text
<1>2. parts = <<>>
  OBVIOUS
<1> HIDE DEF parts
<1>3. Len(parts) = 0
  BY <1>2
<1> QED BY <1>1, <1>2, <1>3 DEF FlattenSeq

\* Words have a text, which is empty only if there are none.
LEMMA AnyText ==
    ASSUME NEW words \in Words
    PROVE  Text(words) \in Texts /\ (Text(words) = <<>> <=> words = <<>>)
<1>1. <<>> \in Texts
  BY DEF Texts
<1> QED BY <1>1, EmptyText, TextType

\* What keys are made of.
LEMMA KeyWords ==
    ASSUME NEW words \in Words
    PROVE  /\ Numberless(words) \in Words /\ (words # <<>> => Numberless(words) # <<>>)
           /\ StreetKey(words) \in Words /\ (words # <<>> => StreetKey(words) # <<>>)
           /\ Text(StreetKey(words)) \in Texts
<1>1. ASSUME NEW w \in Words PROVE Numberless(w) \in Words /\ (w # <<>> => Numberless(w) # <<>>)
  BY TailWords DEF Numberless
<1>2. ASSUME NEW w \in Words, Directed(w) PROVE Tail(w) \in Words /\ Tail(w) # <<>>
  <2>1. Len(w) \in Nat /\ Len(w) > 1
    BY <1>2, WordsType DEF Directed
  <2> QED BY <2>1, TailWords
<1>3. StreetKey(words) \in Words /\ (words # <<>> => StreetKey(words) # <<>>)
  BY <1>1, <1>2 DEF StreetKey
<1> QED BY <1>1, <1>3, AnyText

\* Addresses and names are words.
LEMMA AddressWords ==
    /\ \A p \in Parcel : Address[p] \in Words
    /\ \A o \in Owner : Name[o] \in Words
<1>1. ASSUME NEW w \in Range(Address) \cup Range(Name) PROVE w \in Words
  <2>1. w \in Seq(Seq(Nat))
    BY SearchAssumption
  <2>2. \A i \in DOMAIN w : w[i] # <<>> /\ \A c \in Range(w[i]) : c > Space
    BY SearchAssumption
  <2> QED BY <2>1, <2>2 DEF Words, Texts
<1>2. ASSUME NEW p \in Parcel PROVE Address[p] \in Words
  <2>1. Address[p] \in Range(Address)
    BY SearchAssumption DEF Range
  <2> QED BY <1>1, <2>1
<1>3. ASSUME NEW o \in Owner PROVE Name[o] \in Words
  <2>1. Name[o] \in Range(Name)
    BY SearchAssumption DEF Range
  <2> QED BY <1>1, <2>1
<1> QED BY <1>2, <1>3

\* What has been typed of words.
LEMMA BeginningIsCut ==
    ASSUME NEW words \in Words, NEW query \in Beginnings(words)
    PROVE  \E k \in 1 .. Len(words) : \E n \in 1 .. Len(words[k]) : query = Cut(words, k, n)
BY WordsType DEF Beginnings, Cut

\* It is found as a prefix.
LEMMA BeginningBegins ==
    ASSUME NEW words \in Words, NEW query \in Beginnings(words)
    PROVE  /\ query \in Words /\ query # <<>> /\ Text(query) \in Texts /\ Text(query) # <<>>
           /\ IsPrefix(Text(query), Text(words)) /\ InPrefix(Text(words), Text(query))
<1>1. PICK k \in 1 .. Len(words) : \E n \in 1 .. Len(words[k]) : query = Cut(words, k, n)
  BY BeginningIsCut
<1>2. PICK n \in 1 .. Len(words[k]) : query = Cut(words, k, n)
  BY <1>1
<1>3. /\ query \in Words /\ Text(query) \in Texts /\ Text(query) # <<>>
      /\ IsPrefix(Text(query), Text(words))
  BY <1>2, CutBegins
<1>4. query # <<>>
  BY <1>3, AnyText
<1>5. Text(words) \in Texts
  BY AnyText
<1> QED BY <1>3, <1>4, <1>5, RangeIsPrefix

\* Typing on towards the street finds it, once its direction is told from its name.
LEMMA StreetFound ==
    ASSUME NEW words \in Words, NEW query \in Beginnings(Numberless(words)),
           Numberless(query) = query, Directed(query) = Directed(Numberless(words))
    PROVE  InPrefix(Text(StreetKey(words)), Text(StreetKey(query)))
<1> DEFINE street == Numberless(words)
<1>1. street \in Words /\ query \in Beginnings(street)
  BY KeyWords
<1>2. CASE ~ Directed(query)
  <2>1. StreetKey(words) = street /\ StreetKey(query) = query
    BY <1>2 DEF StreetKey
  <2> HIDE DEF street
  <2> QED BY <1>1, <2>1, BeginningBegins
<1>3. CASE Directed(query)
  <2>1. StreetKey(words) = Tail(street) /\ StreetKey(query) = Tail(query)
    BY <1>3 DEF StreetKey
  <2>2. Directed(street)
    BY <1>3
  <2> HIDE DEF street
  <2>3. PICK k \in 1 .. Len(street) : \E n \in 1 .. Len(street[k]) : query = Cut(street, k, n)
    BY <1>1, BeginningIsCut
  <2>4. PICK n \in 1 .. Len(street[k]) : query = Cut(street, k, n)
    BY <2>3
  <2>5. Len(query) = k
    BY <1>1, <2>4, CutBegins
  <2>6. k > 1 /\ Len(street) > 1
    <3>1. Len(street) \in Nat /\ k \in Nat /\ k >= 2 /\ Len(street) >= 2
      BY <1>1, <1>3, <2>2, <2>5, WordsType DEF Directed
    <3> QED BY <3>1
  <2>7. Tail(street) \in Words
    BY <1>1, <2>6, TailWords
  <2> DEFINE tail == Tail(street)
             m == k - 1
  <2>8. Tail(query) = Cut(tail, m, n) /\ m \in 1 .. Len(tail) /\ n \in 1 .. Len(tail[m])
    BY <1>1, <2>4, <2>6, TailOfCut
  <2>9. tail \in Words /\ Text(tail) \in Texts
    BY <2>7, AnyText
  <2> HIDE DEF tail, m
  <2>10. Text(Tail(query)) \in Texts /\ Text(Tail(query)) # <<>> /\ IsPrefix(Text(Tail(query)), Text(tail))
    BY <2>8, <2>9, CutBegins
  <2>11. InPrefix(Text(tail), Text(Tail(query)))
    BY <2>9, <2>10, RangeIsPrefix
  <2> QED BY <2>1, <2>11 DEF tail
<1> QED BY <1>2, <1>3

\* A query that an address begins with, or a street, and what is found for it.
LEMMA HitsBegin ==
    ASSUME NEW query \in Words, query # <<>>, NEW q \in AddressHits(query)
    PROVE  /\ q \in Parcel
           /\ \/ IsPrefix(Text(query), Text(Address[q]))
              \/ IsPrefix(Text(StreetKey(query)), Text(StreetKey(Address[q])))
<1>1. q \in Parcel /\ Address[q] \in Words
  BY AddressWords DEF AddressHits
<1>2. Text(query) \in Texts /\ Text(query) # <<>> /\ Text(Address[q]) \in Texts
  BY <1>1, AnyText
<1>3. /\ Text(StreetKey(query)) \in Texts /\ Text(StreetKey(query)) # <<>>
      /\ Text(StreetKey(Address[q])) \in Texts
  BY <1>1, KeyWords, AnyText
<1>4. \/ InPrefix(Text(Address[q]), Text(query))
      \/ InPrefix(Text(StreetKey(Address[q])), Text(StreetKey(query)))
  BY DEF AddressHits
<1> QED BY <1>1, <1>2, <1>3, <1>4, RangeIsPrefix

\* A whole address is listed, unless enough of its street or active ones are.
LEMMA WholeListed ==
    ASSUME NEW p \in Parcel, Address[p] # <<>>, p \in AddressHits(Address[p]),
           NEW H \in FirstAddresses(Address[p]), p \notin H
    PROVE  HitLimit <= Cardinality({q \in AddressHits(Address[p]) \ {p} :
               \/ IsPrefix(Text(StreetKey(Address[p])), Text(StreetKey(Address[q])))
               \/ q \in Active /\ p \notin Active})
<1> DEFINE hits == AddressHits(Address[p])
           Listable(q) == \/ IsPrefix(Text(StreetKey(Address[p])), Text(StreetKey(Address[q])))
                          \/ q \in Active /\ p \notin Active
           others == {q \in hits \ {p} : Listable(q)}
<1>1. IsFiniteSet(Parcel) /\ hits \subseteq Parcel /\ HitLimit \in Nat
  BY SearchAssumption DEF AddressHits
<1>2. /\ H \subseteq hits /\ Cardinality(H) = Min({HitLimit, Cardinality(hits)})
      /\ \A q \in H : \A r \in hits \ H : ~ ListedBefore(r, q)
  BY DEF FirstAddresses
<1>3. IsFiniteSet(hits)
  BY <1>1, FS_Subset
<1>4. p \in hits
  OBVIOUS
<1> HIDE DEF hits
<1>5. H # hits /\ Cardinality(H) \in Nat /\ Cardinality(hits) \in Nat /\ Cardinality(H) # Cardinality(hits)
  BY <1>2, <1>3, <1>4, FS_Subset, FS_CardinalityType
<1>6. Cardinality(H) = HitLimit
  <2> DEFINE a == HitLimit
             b == Cardinality(hits)
  <2>1. a \in Int /\ b \in Int /\ Cardinality(H) = Min({a, b}) /\ Cardinality(H) # b
    BY <1>1, <1>2, <1>5
  <2> HIDE DEF a, b
  <2>2. Cardinality(H) = a
    BY <2>1, MinOfTwo
  <2> QED BY <2>2 DEF a
<1>7. ASSUME NEW q \in H PROVE q \in others
  <2>1. ~ ListedBefore(p, q) /\ q \in hits /\ q # p
    BY <1>2, <1>4
  <2>2. Address[p] \in Words /\ q \in Parcel /\ Address[q] \in Words
    BY <1>1, <2>1, AddressWords
  <2>3. CASE (p \in Active) # (q \in Active)
    BY <2>1, <2>3 DEF ListedBefore
  <2>4. CASE (p \in Active) = (q \in Active)
    <3>1. ~ Below(Text(Address[p]), Text(Address[q]))
      BY <2>1, <2>4 DEF ListedBefore
    <3>2. \/ IsPrefix(Text(Address[p]), Text(Address[q]))
          \/ IsPrefix(Text(StreetKey(Address[p])), Text(StreetKey(Address[q])))
      BY <2>1, <2>2, HitsBegin DEF hits
    <3>3. CASE IsPrefix(Text(Address[p]), Text(Address[q]))
      <4>1. Text(Address[p]) \in Texts /\ Text(Address[q]) \in Texts /\ Text(Address[p]) # <<>>
        BY <2>2, AnyText
      <4>2. Text(Address[p]) = Text(Address[q])
        BY <3>1, <3>3, <4>1, LongerIsBehind
      <4>3. Address[q] # <<>>
        BY <2>2, <4>1, <4>2, AnyText
      <4>4. Address[p] = Address[q]
        BY <2>2, <4>2, <4>3, SameText
      <4>5. Text(StreetKey(Address[p])) \in Texts
        BY <2>2, KeyWords
      <4>6. IsPrefix(Text(StreetKey(Address[p])), Text(StreetKey(Address[q])))
        BY <4>4, <4>5, PrefixOfItself
      <4> QED BY <2>1, <4>6
    <3>4. CASE IsPrefix(Text(StreetKey(Address[p])), Text(StreetKey(Address[q])))
      BY <2>1, <3>4
    <3> QED BY <3>2, <3>3, <3>4
  <2> QED BY <2>3, <2>4
<1>8. H \subseteq others /\ others \subseteq hits
  <2> HIDE DEF Listable
  <2> QED BY <1>7
<1>9. IsFiniteSet(others)
  <2> HIDE DEF others
  <2> QED BY <1>3, <1>8, FS_Subset
<1>10. Cardinality(H) <= Cardinality(others)
  <2> HIDE DEF others
  <2> QED BY <1>8, <1>9, FS_Subset
<1> QED BY <1>6, <1>10 DEF hits

\* Addresses are found on the way to them.
LEMMA AddressesAreFound == AddressesFound
<1> SUFFICES ASSUME NEW p \in Parcel,
                    NEW query \in Beginnings(Address[p]) \cup Beginnings(Numberless(Address[p]))
             PROVE  LET whole == query \in Beginnings(Address[p])
                        agrees == /\ Numberless(query) = query
                                  /\ Directed(query) = Directed(Numberless(Address[p]))
                        OnStreet(q) == IsPrefix(Text(StreetKey(query)), Text(StreetKey(Address[q])))
                    IN /\ StreetKey(query) # <<>>
                       /\ whole \/ agrees => p \in AddressHits(query)
                       /\ \A q \in AddressHits(query) : IsPrefix(Text(query), Text(Address[q])) \/ OnStreet(q)
                       /\ query = Address[p] => \A H \in FirstAddresses(query) :
                            p \in H \/ HitLimit <= Cardinality({q \in AddressHits(query) \ {p} :
                                                OnStreet(q) \/ (q \in Active /\ p \notin Active)})
  BY DEF AddressesFound
<1>1. Address[p] \in Words /\ Numberless(Address[p]) \in Words
  BY AddressWords, KeyWords
<1>2. query \in Words /\ query # <<>>
  BY <1>1, BeginningBegins
<1>3. StreetKey(query) # <<>>
  BY <1>2, KeyWords
<1>4. query \in Beginnings(Address[p]) => p \in AddressHits(query)
  BY <1>1, BeginningBegins DEF AddressHits
<1>5. Numberless(query) = query /\ Directed(query) = Directed(Numberless(Address[p])) => p \in AddressHits(query)
  <2>1. CASE query \in Beginnings(Address[p])
    BY <1>4, <2>1
  <2>2. CASE query \in Beginnings(Numberless(Address[p]))
    BY <1>1, <2>2, StreetFound DEF AddressHits
  <2> QED BY <2>1, <2>2
<1>6. \A q \in AddressHits(query) :
          \/ IsPrefix(Text(query), Text(Address[q]))
          \/ IsPrefix(Text(StreetKey(query)), Text(StreetKey(Address[q])))
  BY <1>2, HitsBegin
<1>7. query = Address[p] => p \in AddressHits(query)
  <2> SUFFICES ASSUME query = Address[p] PROVE p \in AddressHits(query)
    OBVIOUS
  <2> DEFINE key == Text(query)
  <2>1. key \in Texts /\ key # <<>>
    BY <1>2, AnyText
  <2> HIDE DEF key
  <2>2. InPrefix(key, key)
    BY <2>1, PrefixOfItself, RangeIsPrefix
  <2> QED BY <2>2 DEF AddressHits, key
<1>8. query = Address[p] => \A H \in FirstAddresses(query) :
          p \in H \/ HitLimit <= Cardinality({q \in AddressHits(query) \ {p} :
               \/ IsPrefix(Text(StreetKey(query)), Text(StreetKey(Address[q])))
               \/ q \in Active /\ p \notin Active})
  BY <1>2, <1>7, WholeListed
<1> QED BY <1>3, <1>4, <1>5, <1>6, <1>8

\* The index has finitely many owners, with a number of parcels each.
LEMMA IndexFinite ==
    ASSUME TypeOK
    PROVE  /\ IsFiniteSet(DOMAIN OwnerIndex) /\ DOMAIN OwnerIndex \subseteq Owner
           /\ \A o \in DOMAIN OwnerIndex : OwnerIndex[o] \in Nat
<1> DEFINE buyer == [s \in sales |-> s.buyer]
           buyers == {buyer[s] : s \in sales}
           holder == [p \in Parcel |-> TaxOwner[p]]
           holders == {holder[p] : p \in Parcel}
<1>1. IsFiniteSet(buyers)
  <2> HIDE DEF buyer
  <2> QED BY FiniteImage DEF TypeOK
<1>2. IsFiniteSet(holders)
  <2> HIDE DEF holder
  <2> QED BY FiniteImage, SearchAssumption
<1>3. DOMAIN OwnerIndex \subseteq buyers \cup holders
  BY NeighborhoodAssumption DEF OwnerIndex, PortfolioOf
<1>4. IsFiniteSet(DOMAIN OwnerIndex)
  <2> HIDE DEF buyers, holders
  <2> QED BY <1>1, <1>2, <1>3, FS_Union, FS_Subset
<1>5. ASSUME NEW o \in DOMAIN OwnerIndex PROVE OwnerIndex[o] \in Nat
  <2>1. PortfolioOf(o) \subseteq Parcel
    BY NeighborhoodAssumption DEF PortfolioOf
  <2>2. Cardinality(PortfolioOf(o)) \in Nat
    BY <2>1, SearchAssumption, FS_Subset, FS_CardinalityType
  <2> QED BY <2>2 DEF OwnerIndex
<1> QED BY <1>4, <1>5 DEF OwnerIndex

\* What the range of a query holds are the owners whose names begin with it.
LEMMA MatchesBegin ==
    ASSUME NEW words \in Words, NEW query \in Beginnings(words)
    PROVE  OwnerMatches(query) =
             {n \in DOMAIN OwnerIndex : IsPrefix(Text(query), Text(Name[n]))}
<1>1. Text(query) \in Texts /\ Text(query) # <<>>
  BY BeginningBegins
<1>2. ASSUME NEW n \in DOMAIN OwnerIndex
      PROVE  InPrefix(Text(Name[n]), Text(query)) <=> IsPrefix(Text(query), Text(Name[n]))
  <2>1. Name[n] \in Words
    BY AddressWords DEF OwnerIndex
  <2>2. Text(Name[n]) \in Texts
    BY <2>1, AnyText
  <2> QED BY <1>1, <2>2, RangeIsPrefix
<1> QED BY <1>2 DEF OwnerMatches

\* An owner that is not listed is behind as many others of the same beginning.
LEMMA OwnerListed ==
    ASSUME TypeOK, NEW o \in DOMAIN OwnerIndex, NEW query \in Beginnings(Name[o]),
           o \notin OwnerHits(query)
    PROVE  HitLimit <= Cardinality({n \in DOMAIN OwnerIndex \ {o} :
                /\ IsPrefix(Text(query), Text(Name[n])) /\ OwnerIndex[n] >= OwnerIndex[o]})
<1> DEFINE others == {n \in DOMAIN OwnerIndex \ {o} :
                        /\ IsPrefix(Text(query), Text(Name[n])) /\ OwnerIndex[n] >= OwnerIndex[o]}
           before == {n \in OwnerMatches(query) : HoldsMore(n, o)}
<1>1. Name[o] \in Words /\ o \in Owner
  BY AddressWords DEF OwnerIndex
<1>2. o \in OwnerMatches(query)
  BY <1>1, BeginningBegins, MatchesBegin
<1>3. ~ (Cardinality(before) < HitLimit)
  BY <1>2 DEF OwnerHits
<1>4. before \subseteq others
  <2> SUFFICES ASSUME NEW n \in before PROVE n \in others
    OBVIOUS
  <2>1. n \in DOMAIN OwnerIndex /\ IsPrefix(Text(query), Text(Name[n])) /\ HoldsMore(n, o)
    BY <1>1, MatchesBegin
  <2>2. OwnerIndex[n] \in Nat /\ OwnerIndex[o] \in Nat /\ NameOrder[n] \in Nat /\ NameOrder[o] \in Nat
    BY <1>1, <2>1, IndexFinite, SearchAssumption
  <2>3. n # o /\ OwnerIndex[n] >= OwnerIndex[o]
    BY <2>1, <2>2 DEF HoldsMore, OwnerIndex
  <2> QED BY <2>1, <2>3
<1>5. IsFiniteSet(others) /\ IsFiniteSet(before) /\ Cardinality(before) <= Cardinality(others)
  <2>1. IsFiniteSet(others)
    BY IndexFinite, FS_Subset
  <2> HIDE DEF before, others
  <2> QED BY <1>4, <2>1, FS_Subset
<1>6. Cardinality(before) \in Nat /\ Cardinality(others) \in Nat
  BY <1>5, FS_CardinalityType
<1> HIDE DEF before, others
<1>7. HitLimit <= Cardinality(others)
  BY <1>3, <1>5, <1>6, SearchAssumption
<1> QED BY <1>7 DEF others

\* An owner that is listed stays so while more of the name is typed.
LEMMA OwnerStaysListed ==
    ASSUME TypeOK, NEW o \in DOMAIN OwnerIndex, NEW query \in Beginnings(Name[o]),
           NEW longer \in Beginnings(Name[o]), IsPrefix(Text(query), Text(longer)),
           o \in OwnerHits(query)
    PROVE  o \in OwnerHits(longer)
<1> DEFINE Before(q) == {n \in OwnerMatches(q) : HoldsMore(n, o)}
<1>1. Name[o] \in Words
  BY AddressWords DEF OwnerIndex
<1>2. o \in OwnerMatches(longer)
  BY <1>1, BeginningBegins, MatchesBegin
<1>3. OwnerMatches(longer) \subseteq OwnerMatches(query)
  <2> SUFFICES ASSUME NEW n \in OwnerMatches(longer) PROVE n \in OwnerMatches(query)
    OBVIOUS
  <2>1. n \in DOMAIN OwnerIndex /\ IsPrefix(Text(longer), Text(Name[n]))
    BY <1>1, MatchesBegin
  <2>2. Name[n] \in Words
    BY <2>1, AddressWords DEF OwnerIndex
  <2>3. Text(query) \in Texts /\ Text(longer) \in Texts /\ Text(Name[n]) \in Texts
    BY <1>1, <2>2, BeginningBegins, AnyText
  <2>4. IsPrefix(Text(query), Text(Name[n]))
    BY <2>1, <2>3, PrefixOfPrefix
  <2> QED BY <1>1, <2>1, <2>4, MatchesBegin
<1>4. Before(longer) \subseteq Before(query) /\ IsFiniteSet(Before(query))
  <2>1. Before(query) \subseteq DOMAIN OwnerIndex
    BY DEF OwnerMatches
  <2> QED BY <1>3, <2>1, IndexFinite, FS_Subset
<1>5. Cardinality(Before(query)) < HitLimit
  BY DEF OwnerHits
<1>6. /\ Cardinality(Before(longer)) <= Cardinality(Before(query))
      /\ Cardinality(Before(longer)) \in Nat /\ Cardinality(Before(query)) \in Nat
  <2> HIDE DEF Before
  <2> QED BY <1>4, FS_Subset, FS_CardinalityType
<1>7. Cardinality(Before(longer)) < HitLimit
  <2> HIDE DEF Before
  <2> QED BY <1>5, <1>6, SearchAssumption
<1> QED BY <1>2, <1>7 DEF OwnerHits

\* Owners come up on the way to their names.
LEMMA OwnersAreFound == TypeOK => OwnersFound
BY OwnerListed, OwnerStaysListed DEF OwnersFound

\* Owners lead to a page that exists, and the largest are in the portfolios.
LEMMA OwnerPages ==
    ASSUME TypeOK, NEW o \in DOMAIN OwnerIndex
    PROVE  /\ ~ NotFound(OwnerDetail(o))
           /\ OwnerIndex[o] = Cardinality(OwnerDetail(o).holdings)
           /\ \A H \in Portfolios : \A n \in H :
               o \in H \/ Cardinality(OwnerDetail(n).holdings) >= OwnerIndex[o]
<1>1. /\ o \in Owner /\ OwnerIndex[o] = Cardinality(PortfolioOf(o))
      /\ PortfolioOf(o) # {} \/ o \in {s.buyer : s \in sales}
  BY DEF OwnerIndex
<1>4. ~ NotFound(OwnerDetail(o))
  BY <1>1 DEF NotFound, OwnerDetail, Buys
<1>5. OwnerIndex[o] = Cardinality(OwnerDetail(o).holdings)
  BY <1>1 DEF OwnerDetail
<1>6. \A n : /\ OwnerDetail(n).holdings = PortfolioOf(n)
             /\ Cardinality(PortfolioOf(n)) \in Nat
  <2> SUFFICES ASSUME NEW n
               PROVE  OwnerDetail(n).holdings = PortfolioOf(n) /\ Cardinality(PortfolioOf(n)) \in Nat
    OBVIOUS
  <2>1. PortfolioOf(n) \subseteq Parcel
    BY NeighborhoodAssumption DEF PortfolioOf
  <2>2. IsFiniteSet(PortfolioOf(n))
    BY <2>1, SearchAssumption, FS_Subset
  <2> QED BY <2>2, FS_CardinalityType DEF OwnerDetail
<1>7. ASSUME NEW H \in Portfolios, NEW n \in H, o \notin H
      PROVE  Cardinality(PortfolioOf(n)) >= Cardinality(PortfolioOf(o))
  <2>1. CASE PortfolioOf(o) = {}
    <3>1. Cardinality(PortfolioOf(o)) = 0
      BY <2>1, FS_EmptySet
    <3> DEFINE c == Cardinality(PortfolioOf(n))
    <3>2. c \in Nat
      BY <1>6
    <3> QED BY <3>1, <3>2
  <2>2. CASE PortfolioOf(o) # {}
    <3>1. o \in {TaxOwner[p] : p \in Active}
      BY <2>2 DEF PortfolioOf
    <3>2. o # NULL
      BY <1>1, SearchAssumption
    <3> QED BY <1>7, <3>1, <3>2 DEF Portfolios
  <2> QED BY <2>1, <2>2
<1> QED BY <1>4, <1>5, <1>6, <1>7

\* Search finds what is typed of an address or a name.
LEMMA SearchAlwaysFinds == TypeOK => SearchFinds
<1> SUFFICES ASSUME TypeOK PROVE SearchFinds
  OBVIOUS
<1> QED BY AddressesAreFound, OwnersAreFound, OwnerPages DEF SearchFinds

\* SearchFinds: in every state, typing on towards an address keeps finding it, and
\* typing on towards an owner's name brings the owner up and keeps it on the list,
\* except behind a list of others, none with fewer parcels; and owners have pages
\* (src/src/services/analytics/search.py).
THEOREM SearchingFinds == Spec => []SearchFinds
<1>1. TypeOK => SearchFinds
  BY SearchAlwaysFinds
<1> QED BY <1>1, TableTypes, PTL
===============================================================================

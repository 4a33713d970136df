---------------------------- MODULE SumTheorems ----------------------------
(***************************************************************************)
(* Sums of natural numbers over finite sets: the laws of SumFunctionOnSet  *)
(* that the proofs about ledgers and inventories need.                     *)
(*                                                                         *)
(* The community modules define the sum by recursion over the subsets of   *)
(* the index set.  Units(f, S) has f[x] elements for each x in S; counting *)
(* them satisfies the same recursion, and there is only one function that  *)
(* does.  So a sum is a cardinality, and its laws are those of finite sets.*)
(***************************************************************************)
EXTENDS Functions, FiniteSetTheorems, TLAPS

Units(f, S) == {u \in S \X Nat : 1 <= u[2] /\ u[2] <= f[u[1]]}

Measures(f, S) == IsFiniteSet(S) /\ \A x \in S : f[x] \in Nat

\* A set of subsets that has T whenever it has every T \ {x} contains every subset of
\* a finite set.
LEMMA SubsetInduction ==
  ASSUME NEW S, IsFiniteSet(S), NEW G,
         \A T \in SUBSET S : (\A x \in T : T \ {x} \in G) => T \in G
  PROVE  \A T \in SUBSET S : T \in G
<1> DEFINE R == StrictSubsetOrdering(S)
           F == FiniteSubsetsOf(S)
           Bad == {T \in SUBSET S : T \notin G}
<1>1. F = SUBSET S
    BY FS_FiniteSubsetsOfFinite
<1>2. IsWellFoundedOn(R, F)
    BY FS_StrictSubsetOrderingWellFounded
<1> SUFFICES ASSUME Bad # {} PROVE FALSE
    OBVIOUS
<1>3. Bad \subseteq F
    BY <1>1
<1> HIDE DEF R, F, Bad
<1>4. PICK T \in Bad : \A U \in Bad : ~(<<U, T>> \in R)
    BY <1>2, <1>3, WFMin
<1>5. T \in SUBSET S /\ T \notin G
    BY <1>4 DEF Bad
<1>6. PICK x \in T : T \ {x} \notin G
    BY <1>5
<1>7. T \ {x} \in SUBSET S /\ T \ {x} \subseteq T /\ T \ {x} # T
    BY <1>5, <1>6
<1>8. T \ {x} \in Bad
    BY <1>6, <1>7 DEF Bad
<1>9. <<T \ {x}, T>> \in R
    BY <1>5, <1>7 DEF R, StrictSubsetOrdering
<1> QED BY <1>4, <1>8, <1>9

\* The units of one index more.
LEMMA UnitsAdd ==
  ASSUME NEW f, NEW T, NEW x \in T, f[x] \in Nat, IsFiniteSet(Units(f, T \ {x}))
  PROVE  /\ IsFiniteSet(Units(f, T))
         /\ Cardinality(Units(f, T)) = f[x] + Cardinality(Units(f, T \ {x}))
<1> DEFINE new == {x} \X (1..f[x])
           old == Units(f, T \ {x})
<1>1. Units(f, T) = old \union new
    BY DEF Units
<1>2. old \intersect new = {}
    BY DEF Units
<1>3. IsFiniteSet(new) /\ Cardinality(new) = f[x]
  <2>1. IsFiniteSet({x}) /\ Cardinality({x}) = 1
      BY FS_Singleton
  <2>2. IsFiniteSet(1..f[x]) /\ Cardinality(1..f[x]) = f[x]
      BY FS_Interval
  <2>3. IsFiniteSet(new) /\ Cardinality(new) = Cardinality({x}) * Cardinality(1..f[x])
      BY <2>1, <2>2, FS_Product
  <2> QED BY <2>1, <2>2, <2>3
<1>4. Cardinality(old) \in Nat
    BY FS_CardinalityType
<1> HIDE DEF old, new
<1>5. /\ IsFiniteSet(old \union new)
      /\ Cardinality(old \union new) = Cardinality(old) + Cardinality(new) - Cardinality(old \intersect new)
    BY <1>3, FS_Union DEF old
<1>6. Cardinality(old \intersect new) = 0
    BY <1>2, FS_EmptySet
<1> QED BY <1>1, <1>3, <1>4, <1>5, <1>6 DEF old

LEMMA UnitsFinite ==
  ASSUME NEW f, NEW S, Measures(f, S)
  PROVE  \A T \in SUBSET S : IsFiniteSet(Units(f, T))
<1> DEFINE G == {T \in SUBSET S : IsFiniteSet(Units(f, T))}
<1>1. IsFiniteSet(S)
    BY DEF Measures
<1>2. ASSUME NEW T \in SUBSET S, \A x \in T : T \ {x} \in G
      PROVE  T \in G
  <2>1. CASE T = {}
    <3>1. Units(f, T) = {}
        BY <2>1 DEF Units
    <3> QED BY <3>1, FS_EmptySet
  <2>2. CASE T # {}
    <3>1. PICK x \in T : TRUE
        BY <2>2
    <3> QED BY <1>2, <3>1, UnitsAdd DEF Measures
  <2> QED BY <2>1, <2>2
<1> HIDE DEF G
<1>3. \A T \in SUBSET S : T \in G
    BY <1>1, <1>2, SubsetInduction
<1> QED BY <1>3 DEF G

\* The recursion that the sum is defined by.
Solves(g, f, S) ==
    g = [s \in SUBSET S |->
           IF s = {} THEN 0 ELSE LET x == CHOOSE x \in s : TRUE IN f[x] + g[s \ {x}]]

LEMMA SumUnfolds ==
  ASSUME NEW f, NEW S
  PROVE  SumFunctionOnSet(f, S) = (CHOOSE g : Solves(g, f, S))[S]
  BY DEF SumFunctionOnSet, FoldFunctionOnSet, MapThenFoldSet, Solves

\* Counting the units solves the recursion, and nothing else does.
LEMMA CountSolves ==
  ASSUME NEW f, NEW S, Measures(f, S)
  PROVE  Solves([s \in SUBSET S |-> Cardinality(Units(f, s))], f, S)
<1> DEFINE c == [s \in SUBSET S |-> Cardinality(Units(f, s))]
           b(s) == IF s = {} THEN 0 ELSE LET x == CHOOSE x \in s : TRUE IN f[x] + c[s \ {x}]
<1>1. ASSUME NEW s \in SUBSET S
      PROVE  c[s] = b(s)
  <2>1. CASE s = {}
    <3>1. Units(f, s) = {}
        BY <2>1 DEF Units
    <3> QED BY <2>1, <3>1, FS_EmptySet
  <2>2. CASE s # {}
    <3> DEFINE x == CHOOSE x \in s : TRUE
    <3>1. x \in s
        BY <2>2
    <3>2. f[x] \in Nat
        BY <3>1 DEF Measures
    <3>3. IsFiniteSet(Units(f, s \ {x}))
        BY UnitsFinite
    <3> HIDE DEF x
    <3>4. Cardinality(Units(f, s)) = f[x] + Cardinality(Units(f, s \ {x}))
        BY <3>1, <3>2, <3>3, UnitsAdd
    <3>5. c[s] = f[x] + c[s \ {x}]
        BY <3>4
    <3> QED BY <2>2, <3>5 DEF x
  <2> QED BY <2>1, <2>2
<1>2. c = [s \in SUBSET S |-> b(s)]
    BY <1>1
<1> QED BY <1>2 DEF Solves

LEMMA SolutionUnique ==
  ASSUME NEW f, NEW S, IsFiniteSet(S), NEW g, NEW h, Solves(g, f, S), Solves(h, f, S)
  PROVE  g = h
<1> DEFINE G == {s \in SUBSET S : g[s] = h[s]}
<1>1. ASSUME NEW s \in SUBSET S, \A x \in s : s \ {x} \in G
      PROVE  s \in G
  <2>1. CASE s = {}
      BY <2>1 DEF Solves
  <2>2. CASE s # {}
    <3> DEFINE x == CHOOSE x \in s : TRUE
    <3>1. x \in s
        BY <2>2
    <3>2. g[s] = f[x] + g[s \ {x}] /\ h[s] = f[x] + h[s \ {x}]
        BY <2>2 DEF Solves
    <3> QED BY <1>1, <3>1, <3>2
  <2> QED BY <2>1, <2>2
<1> HIDE DEF G
<1>3. \A s \in SUBSET S : s \in G
    BY <1>1, SubsetInduction
<1>4. \A s \in SUBSET S : g[s] = h[s]
    BY <1>3 DEF G
<1>5. DOMAIN g = SUBSET S /\ DOMAIN h = SUBSET S /\ g = [s \in SUBSET S |-> g[s]]
      /\ h = [s \in SUBSET S |-> h[s]]
    BY DEF Solves
<1> QED BY <1>4, <1>5

LEMMA SumCounts ==
  ASSUME NEW f, NEW S, Measures(f, S)
  PROVE  SumFunctionOnSet(f, S) = Cardinality(Units(f, S))
<1> DEFINE c == [s \in SUBSET S |-> Cardinality(Units(f, s))]
           g == CHOOSE g : Solves(g, f, S)
<1>1. Solves(c, f, S)
    BY CountSolves
<1>2. Solves(g, f, S)
    BY <1>1
<1>3. g = c
    BY <1>1, <1>2, SolutionUnique DEF Measures
<1>4. c[S] = Cardinality(Units(f, S))
    OBVIOUS
<1> QED BY <1>3, <1>4, SumUnfolds

-----------------------------------------------------------------------------
(* The laws *)

LEMMA SumEmpty == \A f : SumFunctionOnSet(f, {}) = 0
<1> SUFFICES ASSUME NEW f PROVE SumFunctionOnSet(f, {}) = 0
    OBVIOUS
<1>1. Measures(f, {}) /\ Units(f, {}) = {}
    BY FS_EmptySet DEF Measures, Units
<1> QED BY <1>1, SumCounts, FS_EmptySet

LEMMA SumNat ==
  ASSUME NEW f, NEW S, Measures(f, S)
  PROVE  SumFunctionOnSet(f, S) \in Nat
  BY SumCounts, UnitsFinite, FS_CardinalityType

\* A subset has no greater sum.
LEMMA SumMonotone ==
  ASSUME NEW f, NEW S, Measures(f, S), NEW T \in SUBSET S
  PROVE  SumFunctionOnSet(f, T) <= SumFunctionOnSet(f, S)
<1>1. Measures(f, T)
    BY FS_Subset DEF Measures
<1>2. Units(f, T) \subseteq Units(f, S)
    BY DEF Units
<1>3. IsFiniteSet(Units(f, S))
    BY UnitsFinite
<1> QED BY <1>1, <1>2, <1>3, SumCounts, FS_Subset

\* The sums of disjoint sets add up.
LEMMA SumDisjoint ==
  ASSUME NEW f, NEW S, NEW T, Measures(f, S), Measures(f, T), S \intersect T = {}
  PROVE  SumFunctionOnSet(f, S \union T) = SumFunctionOnSet(f, S) + SumFunctionOnSet(f, T)
<1>1. Measures(f, S \union T)
    BY FS_Union DEF Measures
<1>2. Units(f, S \union T) = Units(f, S) \union Units(f, T)
    BY DEF Units
<1>3. Units(f, S) \intersect Units(f, T) = {}
    BY DEF Units
<1>4. IsFiniteSet(Units(f, S)) /\ IsFiniteSet(Units(f, T))
    BY UnitsFinite
<1>5. Cardinality(Units(f, S)) \in Nat /\ Cardinality(Units(f, T)) \in Nat
    BY <1>4, FS_CardinalityType
<1>6. Cardinality(Units(f, S) \union Units(f, T))
        = Cardinality(Units(f, S)) + Cardinality(Units(f, T))
          - Cardinality(Units(f, S) \intersect Units(f, T))
    BY <1>4, FS_Union
<1>7. Cardinality(Units(f, S) \intersect Units(f, T)) = 0
    BY <1>3, FS_EmptySet
<1>8. SumFunctionOnSet(f, S) = Cardinality(Units(f, S))
    BY SumCounts
<1>9. SumFunctionOnSet(f, T) = Cardinality(Units(f, T))
    BY SumCounts
<1>10. SumFunctionOnSet(f, S \union T) = Cardinality(Units(f, S) \union Units(f, T))
    BY <1>1, <1>2, SumCounts
<1>11. Cardinality(Units(f, S) \union Units(f, T))
         = Cardinality(Units(f, S)) + Cardinality(Units(f, T))
    BY <1>5, <1>6, <1>7
<1> QED BY <1>8, <1>9, <1>10, <1>11, Zenon

LEMMA SumSingleton ==
  ASSUME NEW f, NEW x, f[x] \in Nat
  PROVE  SumFunctionOnSet(f, {x}) = f[x]
<1>1. Measures(f, {x})
    BY FS_Singleton DEF Measures
<1>2. IsFiniteSet(Units(f, {x} \ {x})) /\ Cardinality(Units(f, {x} \ {x})) = 0
  <2>1. Units(f, {x} \ {x}) = {}
      BY DEF Units
  <2> QED BY <2>1, FS_EmptySet
<1>3. Cardinality(Units(f, {x})) = f[x] + 0
    BY <1>2, UnitsAdd
<1> QED BY <1>1, <1>3, SumCounts

\* An index more, and an index less.
LEMMA SumAdd ==
  ASSUME NEW f, NEW S, Measures(f, S), NEW x, x \notin S, f[x] \in Nat
  PROVE  SumFunctionOnSet(f, S \union {x}) = SumFunctionOnSet(f, S) + f[x]
<1>1. Measures(f, {x}) /\ S \intersect {x} = {}
    BY FS_Singleton DEF Measures
<1> QED BY <1>1, SumDisjoint, SumSingleton

\* The sum depends on the terms summed only.
LEMMA SumSame ==
  ASSUME NEW f, NEW g, NEW S, Measures(f, S), \A x \in S : f[x] = g[x]
  PROVE  SumFunctionOnSet(f, S) = SumFunctionOnSet(g, S)
<1>1. Measures(g, S)
    BY DEF Measures
<1>2. Units(f, S) = Units(g, S)
    BY DEF Units
<1> QED BY <1>1, <1>2, SumCounts

=============================================================================

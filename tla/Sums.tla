-------------------------------- MODULE Sums --------------------------------
(***************************************************************************)
(* Facts about the sum of a function over a finite set (SumFunctionOnSet   *)
(* of the community module Functions), in which the books of the vault and *)
(* the totals of the Compact contract are stated.                          *)
(*                                                                         *)
(* The sum is defined by recursion over subsets.  The proofs below are by  *)
(* induction all the same: the set of the subsets for which a fact holds   *)
(* is a value, and a least subset outside of it exists because proper      *)
(* inclusion is well-founded on finite sets.                               *)
(***************************************************************************)
EXTENDS Integers, FiniteSets, Functions, FiniteSetTheorems, WellFoundedInduction, TLAPS

\* A set of subsets of S that has a subset whenever it has all smaller ones
\* has S.
LEMMA SubsetInduction ==
    ASSUME NEW S, IsFiniteSet(S), NEW Good \in SUBSET SUBSET S,
           \A T \in SUBSET S : (\A U \in SUBSET T : U # T => U \in Good) => T \in Good
    PROVE  S \in Good
<1> DEFINE Bad == (SUBSET S) \ Good
           F == FiniteSubsetsOf(S)
           R == StrictSubsetOrdering(S)
<1> SUFFICES ASSUME S \notin Good PROVE FALSE
  OBVIOUS
<1>1. F = SUBSET S
  BY FS_FiniteSubsetsOfFinite
<1>2. IsWellFoundedOn(R, F)
  BY FS_StrictSubsetOrderingWellFounded
<1>3. \A U, T \in SUBSET S : U \subseteq T /\ U # T => <<U, T>> \in R
  BY DEF StrictSubsetOrdering
<1>4. Bad \subseteq F /\ Bad # {}
  BY <1>1
<1> HIDE DEF R, F
<1>5. PICK T \in Bad : \A U \in Bad : ~ (<<U, T>> \in R)
  <2> HIDE DEF Bad
  <2> QED
    BY ONLY <1>2, <1>4, WFMin, Zenon
<1>6. ASSUME NEW U \in SUBSET T, U # T
      PROVE  U \in Good
  <2>1. U \in SUBSET S /\ T \in SUBSET S /\ U \subseteq T
    OBVIOUS
  <2>2. <<U, T>> \in R
    BY <1>3, <1>6, <2>1
  <2>3. U \notin Bad
    BY <1>5, <2>2
  <2> QED
    BY <2>1, <2>3
<1> QED
  BY <1>5, <1>6

-----------------------------------------------------------------------------
(* The recursion has a solution                                            *)

\* The element the fold takes out of a set, and what is left.
Pick(s) == CHOOSE x \in s : TRUE
Rest(s) == s \ {Pick(s)}

\* g holds the sum of f over every subset of S.
AddsUp(g, f, S) ==
    g = [s \in SUBSET S |-> IF s = {} THEN 0 ELSE f[Pick(s)] + g[s \ {Pick(s)}]]

LEMMA PickIn ==
    ASSUME NEW s, s # {}
    PROVE  Pick(s) \in s /\ Rest(s) \in SUBSET s /\ Rest(s) # s
BY DEF Pick, Rest

LEMMA AddsUpAt ==
    ASSUME NEW S, NEW f, NEW g, AddsUp(g, f, S), NEW s \in SUBSET S
    PROVE  g[s] = IF s = {} THEN 0 ELSE f[Pick(s)] + g[Rest(s)]
BY DEF AddsUp, Rest

\* Two solutions, of one set and of a larger one, agree on the smaller.
LEMMA SolutionsAgree ==
    ASSUME NEW S, IsFiniteSet(S), NEW T, S \subseteq T,
           NEW f, NEW g, NEW h, AddsUp(g, f, S), AddsUp(h, f, T)
    PROVE  g[S] = h[S]
<1> DEFINE Good == {s \in SUBSET S : g[s] = h[s]}
<1>1. ASSUME NEW s \in SUBSET S, \A u \in SUBSET s : u # s => u \in Good
      PROVE  s \in Good
  <2>1. CASE s = {}
    BY <2>1, AddsUpAt
  <2>2. CASE s # {}
    <3>1. g[Rest(s)] = h[Rest(s)]
      BY <1>1, <2>2, PickIn
    <3>2. g[s] = f[Pick(s)] + g[Rest(s)] /\ h[s] = f[Pick(s)] + h[Rest(s)]
      BY <2>2, AddsUpAt
    <3> QED
      BY <3>1, <3>2
  <2> QED
    BY <2>1, <2>2
<1> HIDE DEF Good
<1>2. Good \in SUBSET SUBSET S
  BY DEF Good
<1>3. S \in Good
  BY <1>1, <1>2, SubsetInduction
<1> QED
  BY <1>3 DEF Good

\* Solutions for all smaller sets are put together to one for this set.
LEMMA SolutionExtends ==
    ASSUME NEW s, IsFiniteSet(s), NEW f,
           \A u \in SUBSET s : u # s => \E g : AddsUp(g, f, u)
    PROVE  \E g : AddsUp(g, f, s)
<1> DEFINE Sol(u) == CHOOSE g : AddsUp(g, f, u)
           g == [u \in SUBSET s |->
                    IF u = {} THEN 0 ELSE f[Pick(u)] + Sol(Rest(u))[Rest(u)]]
<1>1. \A u \in SUBSET s : u # s => AddsUp(Sol(u), f, u)
  OBVIOUS
<1> HIDE DEF Sol
<1>2. ASSUME NEW u \in SUBSET s, u # s
      PROVE  g[u] = Sol(u)[u]
  <2>1. AddsUp(Sol(u), f, u)
    BY <1>1, <1>2
  <2>2. CASE u = {}
    BY <2>1, <2>2, AddsUpAt
  <2>3. CASE u # {}
    <3>1. Rest(u) \in SUBSET u /\ Rest(u) \in SUBSET s /\ Rest(u) # s
      BY <1>2, <2>3, PickIn
    <3>2. IsFiniteSet(Rest(u))
      BY <3>1, FS_Subset
    <3>3. AddsUp(Sol(Rest(u)), f, Rest(u))
      BY <1>1, <3>1
    <3>4. Sol(Rest(u))[Rest(u)] = Sol(u)[Rest(u)]
      BY <2>1, <3>1, <3>2, <3>3, SolutionsAgree
    <3> QED
      BY <2>1, <2>3, <3>4, AddsUpAt
  <2> QED
    BY <2>2, <2>3
<1>3. \A u \in SUBSET s : u # {} => g[Rest(u)] = Sol(Rest(u))[Rest(u)]
  <2> HIDE DEF g
  <2>1. \A u \in SUBSET s : u # {} => Rest(u) \in SUBSET s /\ Rest(u) # s
    BY PickIn
  <2> QED
    BY <1>2, <2>1
<1>4. [u \in SUBSET s |-> IF u = {} THEN 0 ELSE f[Pick(u)] + g[u \ {Pick(u)}]] = g
  <2> SUFFICES ASSUME NEW u \in SUBSET s
               PROVE  (IF u = {} THEN 0 ELSE f[Pick(u)] + g[u \ {Pick(u)}])
                      = (IF u = {} THEN 0 ELSE f[Pick(u)] + Sol(Rest(u))[Rest(u)])
    BY Zenon
  <2> QED
    BY <1>3 DEF Rest
<1> HIDE DEF g
<1> QED
  BY <1>4 DEF AddsUp

LEMMA SolutionExists ==
    ASSUME NEW S, IsFiniteSet(S), NEW f
    PROVE  \E g : AddsUp(g, f, S)
<1> DEFINE Good == {s \in SUBSET S : \E g : AddsUp(g, f, s)}
<1>1. ASSUME NEW s \in SUBSET S, \A u \in SUBSET s : u # s => u \in Good
      PROVE  s \in Good
  <2>1. IsFiniteSet(s)
    BY FS_Subset
  <2> QED
    BY <1>1, <2>1, SolutionExtends
<1> HIDE DEF Good
<1>2. Good \in SUBSET SUBSET S
  BY DEF Good
<1>3. S \in Good
  BY <1>1, <1>2, SubsetInduction
<1> QED
  BY <1>3 DEF Good

\* So the library's sum is the value of a solution.
LEMMA SumIsSolution ==
    ASSUME NEW S, IsFiniteSet(S), NEW f
    PROVE  \E g : AddsUp(g, f, S) /\ SumFunctionOnSet(f, S) = g[S]
<1> DEFINE g == CHOOSE g : AddsUp(g, f, S)
<1>1. AddsUp(g, f, S)
  BY SolutionExists
<1>2. SumFunctionOnSet(f, S) = g[S]
  BY DEF SumFunctionOnSet, FoldFunctionOnSet, MapThenFoldSet, AddsUp, Pick
<1> QED
  BY <1>1, <1>2

-----------------------------------------------------------------------------
(* Sums                                                                    *)

LEMMA SumUnfolds ==
    ASSUME NEW S, IsFiniteSet(S), NEW f
    PROVE  SumFunctionOnSet(f, S) =
               IF S = {} THEN 0 ELSE f[Pick(S)] + SumFunctionOnSet(f, Rest(S))
<1>1. PICK g : AddsUp(g, f, S) /\ SumFunctionOnSet(f, S) = g[S]
  BY SumIsSolution
<1>2. CASE S = {}
  BY <1>1, <1>2, AddsUpAt
<1>3. CASE S # {}
  <2>1. IsFiniteSet(Rest(S)) /\ Rest(S) \subseteq S
    BY FS_RemoveElement DEF Rest
  <2>2. PICK h : AddsUp(h, f, Rest(S)) /\ SumFunctionOnSet(f, Rest(S)) = h[Rest(S)]
    BY <2>1, SumIsSolution
  <2>3. h[Rest(S)] = g[Rest(S)]
    BY <1>1, <2>1, <2>2, SolutionsAgree
  <2> QED
    BY <1>1, <1>3, <2>2, <2>3, AddsUpAt
<1> QED
  BY <1>2, <1>3

LEMMA SumOfNothing == \A f : SumFunctionOnSet(f, {}) = 0
BY SumUnfolds, FS_EmptySet

\* A sum of numbers of a kind closed under addition is one of them.
LEMMA SumStaysIn ==
    ASSUME NEW S, IsFiniteSet(S), NEW f, NEW Kind, 0 \in Kind,
           \A a, b \in Kind : a + b \in Kind,
           \A x \in S : f[x] \in Kind
    PROVE  SumFunctionOnSet(f, S) \in Kind
<1> DEFINE Good == {T \in SUBSET S : SumFunctionOnSet(f, T) \in Kind}
<1>1. ASSUME NEW T \in SUBSET S, \A U \in SUBSET T : U # T => U \in Good
      PROVE  T \in Good
  <2>1. CASE T = {}
    BY <2>1, SumOfNothing
  <2>2. CASE T # {}
    <3>1. Pick(T) \in T /\ SumFunctionOnSet(f, Rest(T)) \in Kind
      BY <1>1, <2>2, PickIn
    <3>2. SumFunctionOnSet(f, T) = f[Pick(T)] + SumFunctionOnSet(f, Rest(T))
      BY <2>2, SumUnfolds, FS_Subset
    <3> QED
      BY <3>1, <3>2
  <2> QED
    BY <2>1, <2>2
<1> HIDE DEF Good
<1>2. Good \in SUBSET SUBSET S
  BY DEF Good
<1>3. S \in Good
  BY <1>1, <1>2, SubsetInduction
<1> QED
  BY <1>3 DEF Good

LEMMA SumIsInt ==
    ASSUME NEW S, IsFiniteSet(S), NEW f, \A x \in S : f[x] \in Int
    PROVE  SumFunctionOnSet(f, S) \in Int
<1>1. 0 \in Int /\ \A a, b \in Int : a + b \in Int
  OBVIOUS
<1> QED
  BY <1>1, SumStaysIn

LEMMA SumIsNat ==
    ASSUME NEW S, IsFiniteSet(S), NEW f, \A x \in S : f[x] \in Nat
    PROVE  SumFunctionOnSet(f, S) \in Nat
<1>1. 0 \in Nat /\ \A a, b \in Nat : a + b \in Nat
  OBVIOUS
<1> QED
  BY <1>1, SumStaysIn

\* Only the values on the set count.
LEMMA SumOfSame ==
    ASSUME NEW S, IsFiniteSet(S), NEW f, NEW g, \A x \in S : f[x] = g[x]
    PROVE  SumFunctionOnSet(f, S) = SumFunctionOnSet(g, S)
<1> DEFINE Good == {T \in SUBSET S : SumFunctionOnSet(f, T) = SumFunctionOnSet(g, T)}
<1>1. ASSUME NEW T \in SUBSET S, \A U \in SUBSET T : U # T => U \in Good
      PROVE  T \in Good
  <2>1. CASE T = {}
    BY <2>1, SumOfNothing
  <2>2. CASE T # {}
    <3>1. Pick(T) \in T /\ SumFunctionOnSet(f, Rest(T)) = SumFunctionOnSet(g, Rest(T))
      BY <1>1, <2>2, PickIn
    <3>2. /\ SumFunctionOnSet(f, T) = f[Pick(T)] + SumFunctionOnSet(f, Rest(T))
          /\ SumFunctionOnSet(g, T) = g[Pick(T)] + SumFunctionOnSet(g, Rest(T))
      BY <2>2, SumUnfolds, FS_Subset
    <3> QED
      BY <3>1, <3>2
  <2> QED
    BY <2>1, <2>2
<1> HIDE DEF Good
<1>2. Good \in SUBSET SUBSET S
  BY DEF Good
<1>3. S \in Good
  BY <1>1, <1>2, SubsetInduction
<1> QED
  BY <1>3 DEF Good

\* Any element may be taken out, not only the one the fold takes: the order
\* does not matter.
LEMMA SumLessOne ==
    ASSUME NEW S, IsFiniteSet(S), NEW f, \A x \in S : f[x] \in Int, NEW e \in S
    PROVE  SumFunctionOnSet(f, S) = f[e] + SumFunctionOnSet(f, S \ {e})
<1> DEFINE Sum(T) == SumFunctionOnSet(f, T)
           Good == {T \in SUBSET S : \A x \in T : Sum(T) = f[x] + Sum(T \ {x})}
<1>1. \A T \in SUBSET S : IsFiniteSet(T) /\ Sum(T) \in Int
  <2> TAKE T \in SUBSET S
  <2>1. IsFiniteSet(T)
    BY FS_Subset
  <2> QED
    BY <2>1, SumIsInt
<1>2. ASSUME NEW T \in SUBSET S, \A U \in SUBSET T : U # T => U \in Good
      PROVE  T \in Good
  <2> SUFFICES ASSUME NEW x \in T
               PROVE  Sum(T) = f[x] + Sum(T \ {x})
    OBVIOUS
  <2> DEFINE p == Pick(T)
             both == (T \ {x}) \ {p}
  <2>1. p \in T /\ Sum(T) = f[p] + Sum(T \ {p})
    BY <1>1, SumUnfolds, PickIn DEF Rest
  <2> HIDE DEF p, Sum
  <2>2. CASE x = p
    BY <2>1, <2>2
  <2>3. CASE x # p
    <3>1. T \ {p} \in Good /\ x \in T \ {p} /\ (T \ {p}) \ {x} = both
      BY <1>2, <2>1, <2>3
    <3>2. T \ {x} \in Good /\ p \in T \ {x}
      BY <1>2, <2>1, <2>3
    <3>3. Sum(T \ {p}) = f[x] + Sum(both) /\ Sum(T \ {x}) = f[p] + Sum(both)
      BY <3>1, <3>2
    <3>4. f[x] \in Int /\ f[p] \in Int /\ Sum(both) \in Int
      BY <1>1, <2>1
    <3> QED
      BY <2>1, <3>3, <3>4
  <2> QED
    BY <2>2, <2>3
<1> HIDE DEF Good
<1>3. Good \in SUBSET SUBSET S
  BY DEF Good
<1>4. S \in Good
  BY <1>2, <1>3, SubsetInduction
<1> QED
  BY <1>4 DEF Good

LEMMA SumOneMore ==
    ASSUME NEW S, IsFiniteSet(S), NEW e, e \notin S, NEW f,
           \A x \in S \union {e} : f[x] \in Int
    PROVE  SumFunctionOnSet(f, S \union {e}) = SumFunctionOnSet(f, S) + f[e]
<1>1. IsFiniteSet(S \union {e}) /\ (S \union {e}) \ {e} = S
  BY FS_AddElement
<1>2. SumFunctionOnSet(f, S \union {e}) = f[e] + SumFunctionOnSet(f, S)
  BY <1>1, SumLessOne
<1> QED
  BY <1>2, SumIsInt

\* Changing one addend changes the sum by as much.
LEMMA SumChanges ==
    ASSUME NEW S, IsFiniteSet(S), NEW f, NEW g, NEW e \in S,
           \A x \in S : f[x] \in Int /\ g[x] \in Int,
           \A x \in S \ {e} : g[x] = f[x]
    PROVE  SumFunctionOnSet(g, S) = SumFunctionOnSet(f, S) - f[e] + g[e]
<1>1. IsFiniteSet(S \ {e})
  BY FS_RemoveElement
<1>2. /\ SumFunctionOnSet(f, S) = f[e] + SumFunctionOnSet(f, S \ {e})
      /\ SumFunctionOnSet(g, S) = g[e] + SumFunctionOnSet(g, S \ {e})
  BY SumLessOne
<1>3. SumFunctionOnSet(f, S \ {e}) = SumFunctionOnSet(g, S \ {e})
  BY <1>1, SumOfSame
<1>4. SumFunctionOnSet(f, S \ {e}) \in Int
  BY <1>1, SumIsInt
<1> QED
  BY <1>2, <1>3, <1>4

LEMMA SumWithOneChanged ==
    ASSUME NEW S, IsFiniteSet(S), NEW f \in [S -> Int], NEW e \in S, NEW d \in Int
    PROVE  SumFunction([f EXCEPT ![e] = @ + d]) = SumFunction(f) + d
<1> DEFINE g == [f EXCEPT ![e] = @ + d]
<1>1. /\ DOMAIN f = S /\ DOMAIN g = S /\ g[e] = f[e] + d
      /\ \A x \in S : f[x] \in Int /\ g[x] \in Int
      /\ \A x \in S \ {e} : g[x] = f[x]
  OBVIOUS
<1> HIDE DEF g
<1>2. SumFunctionOnSet(g, S) = SumFunctionOnSet(f, S) - f[e] + g[e]
  BY <1>1, SumChanges
<1>3. SumFunctionOnSet(f, S) \in Int
  BY <1>1, SumIsInt
<1>4. SumFunctionOnSet(g, S) = SumFunctionOnSet(f, S) + d
  BY <1>1, <1>2, <1>3
<1> QED
  BY <1>1, <1>4 DEF SumFunction, g

=============================================================================

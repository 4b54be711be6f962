-------------------------- MODULE FiniteSetLemmas --------------------------
(* What the proofs of several components need of finite sets: induction    *)
(* for a property given as a set, extremes, and sums.                      *)
EXTENDS FiniteSetsExt, FiniteSetTheorems, WellFoundedInduction, TLAPS

-----------------------------------------------------------------------------
(* Induction.                                                              *)

\* Induction over the subsets of a finite set.
LEMMA SubsetInduction ==
    ASSUME NEW S, IsFiniteSet(S), NEW G,
           \A T \in SUBSET S : (\A U \in SUBSET T : U # T => U \in G) => T \in G
    PROVE  S \in G
<1> DEFINE Bad == {T \in SUBSET S : T \notin G}
<1> SUFFICES ASSUME S \notin G PROVE FALSE
  OBVIOUS
<1>1. Bad \subseteq FiniteSubsetsOf(S) /\ Bad # {}
  BY FS_FiniteSubsetsOfFinite
<1>2. PICK T \in Bad : \A U \in Bad : <<U, T>> \notin StrictSubsetOrdering(S)
  <2> HIDE DEF Bad
  <2>1. IsWellFoundedOn(StrictSubsetOrdering(S), FiniteSubsetsOf(S))
    BY FS_StrictSubsetOrderingWellFounded
  <2> QED BY <1>1, <2>1, WFMin
<1>3. ASSUME NEW U \in SUBSET T, U # T PROVE U \in G
  <2>1. <<U, T>> \in StrictSubsetOrdering(S)
    BY <1>2, <1>3 DEF StrictSubsetOrdering
  <2>2. U \notin Bad
    BY <1>2, <2>1
  <2> QED BY <1>2, <1>3, <2>2
<1> QED BY <1>2, <1>3

\* Induction over a finite set, element by element.
LEMMA ElementInduction ==
    ASSUME NEW S, IsFiniteSet(S), NEW G, {} \in G,
           \A T \in SUBSET S : \A x \in S \ T : T \in G => T \cup {x} \in G
    PROVE  S \in G
<1>1. ASSUME NEW T \in SUBSET S, \A U \in SUBSET T : U # T => U \in G
      PROVE  T \in G
  <2>1. CASE T = {}
    BY <2>1
  <2>2. CASE T # {}
    <3>1. PICK x \in T : TRUE
      BY <2>2
    <3>2. T \ {x} \in G /\ T \ {x} \in SUBSET S /\ x \in S \ (T \ {x})
      BY <1>1, <3>1
    <3>3. (T \ {x}) \cup {x} = T
      BY <3>1
    <3> QED BY <3>2, <3>3
  <2> QED BY <2>1, <2>2
<1> QED BY <1>1, SubsetInduction

\* A set of naturals that is not empty has a least one.
LEMMA LeastNatural ==
    ASSUME NEW T \in SUBSET Nat, T # {}
    PROVE  \E n \in T : \A m \in T : n <= m
<1>1. PICK n \in T : \A m \in T : <<m, n>> \notin OpToRel(<, Nat)
  BY NatLessThanWellFounded, WFMin, Zenon
<1>2. \A m \in T : n <= m
  <2> SUFFICES ASSUME NEW m \in T PROVE n <= m
    OBVIOUS
  <2>1. m \in Nat /\ n \in Nat
    OBVIOUS
  <2>2. m < n => <<m, n>> \in OpToRel(<, Nat)
    BY <2>1 DEF OpToRel
  <2>3. ~(m < n)
    BY <1>1, <2>2
  <2> QED BY <2>1, <2>3
<1> QED BY <1>2

\* Induction over the naturals, for a set.
LEMMA SetInduction ==
    ASSUME NEW T \in SUBSET Nat, 0 \in T, \A n \in T : n + 1 \in T
    PROVE  T = Nat
<1> SUFFICES ASSUME Nat \ T # {} PROVE FALSE
  OBVIOUS
<1>1. PICK n \in Nat \ T : \A m \in Nat \ T : n <= m
  BY LeastNatural
<1>2. n \in Nat /\ n # 0 /\ n - 1 \in Nat
  <2>1. n \in Nat /\ n \notin T
    OBVIOUS
  <2>2. n # 0
    BY <2>1
  <2> QED BY <2>1, <2>2
<1>3. n - 1 \in T
  BY <1>1, <1>2
<1> QED BY <1>2, <1>3

-----------------------------------------------------------------------------
(* Extremes and images.                                                    *)

\* A finite set has a greatest element in any order that is total on it.
LEMMA TopExists ==
    ASSUME NEW S, IsFiniteSet(S), S # {}, NEW R,
           \A x, y \in S : <<x, y>> \in R \/ <<y, x>> \in R,
           \A x, y, z \in S : <<x, y>> \in R /\ <<y, z>> \in R => <<x, z>> \in R
    PROVE  \E x \in S : \A y \in S : <<y, x>> \in R
<1> DEFINE G == {T \in SUBSET S : T # {} => \E x \in T : \A y \in T : <<y, x>> \in R}
<1>1. {} \in G
  OBVIOUS
<1>2. ASSUME NEW T \in SUBSET S, NEW z \in S \ T, T \in G
      PROVE  T \cup {z} \in G
  <2>1. CASE T = {}
    BY <2>1
  <2>2. CASE T # {}
    <3>1. PICK x \in T : \A y \in T : <<y, x>> \in R
      BY <1>2, <2>2
    <3>2. CASE <<z, x>> \in R
      BY <3>1, <3>2
    <3>3. CASE <<x, z>> \in R
      <4>1. \A y \in T : <<y, z>> \in R
        BY <3>1, <3>3
      <4> QED BY <4>1
    <3> QED BY <3>2, <3>3
  <2> QED BY <2>1, <2>2
<1>3. S \in G
  <2> HIDE DEF G
  <2> QED BY <1>1, <1>2, ElementInduction
<1> QED BY <1>3

LEMMA MaxIs ==
    ASSUME NEW S \in SUBSET Int, IsFiniteSet(S), S # {}
    PROVE  Max(S) \in S /\ \A y \in S : Max(S) >= y
<1> DEFINE R == {p \in Int \X Int : p[1] <= p[2]}
<1>1. \A x, y \in Int : <<x, y>> \in R <=> x <= y
  OBVIOUS
<1>2. \E x \in S : \A y \in S : <<y, x>> \in R
  <2> HIDE DEF R
  <2>1. ASSUME NEW x \in S, NEW y \in S
        PROVE  <<x, y>> \in R \/ <<y, x>> \in R
    <3>1. x \in Int /\ y \in Int
      OBVIOUS
    <3>2. x <= y \/ y <= x
      BY <3>1
    <3> QED BY <1>1, <3>1, <3>2
  <2>2. \A x, y, z \in S : <<x, y>> \in R /\ <<y, z>> \in R => <<x, z>> \in R
    BY <1>1
  <2> QED BY <2>1, <2>2, TopExists
<1>3. \E x \in S : \A y \in S : x >= y
  BY <1>1, <1>2
<1> QED BY <1>3 DEF Max

LEMMA MinIs ==
    ASSUME NEW S \in SUBSET Int, IsFiniteSet(S), S # {}
    PROVE  Min(S) \in S /\ \A y \in S : Min(S) <= y
<1> DEFINE R == {p \in Int \X Int : p[1] >= p[2]}
<1>1. \A x, y \in Int : <<x, y>> \in R <=> x >= y
  OBVIOUS
<1>2. \E x \in S : \A y \in S : <<y, x>> \in R
  <2> HIDE DEF R
  <2>1. ASSUME NEW x \in S, NEW y \in S
        PROVE  <<x, y>> \in R \/ <<y, x>> \in R
    <3>1. x \in Int /\ y \in Int
      OBVIOUS
    <3>2. x <= y \/ y <= x
      BY <3>1
    <3> QED BY <1>1, <3>1, <3>2
  <2>2. \A x, y, z \in S : <<x, y>> \in R /\ <<y, z>> \in R => <<x, z>> \in R
    BY <1>1
  <2> QED BY <2>1, <2>2, TopExists
<1>3. \E x \in S : \A y \in S : x <= y
  BY <1>1, <1>2
<1> QED BY <1>3 DEF Min

\* The values of a function on a finite set.
LEMMA ImageIs ==
    ASSUME NEW S, IsFiniteSet(S), NEW f
    PROVE  LET T == {f[x] : x \in S}
           IN  /\ IsFiniteSet(T) /\ Cardinality(T) <= Cardinality(S)
               /\ (\A x, y \in S : f[x] = f[y] => x = y) => Cardinality(T) = Cardinality(S)
<1> DEFINE T == {f[x] : x \in S}
           g == [x \in S |-> f[x]]
<1>1. g \in Surjection(S, T)
  BY DEF Surjection
<1>2. (\A x, y \in S : f[x] = f[y] => x = y) => g \in Injection(S, T)
  BY DEF Injection, IsInjective
<1>3. /\ IsFiniteSet(T) /\ Cardinality(T) <= Cardinality(S)
      /\ Cardinality(T) = Cardinality(S) <=> g \in Injection(S, T)
  <2> HIDE DEF T, g
  <2> QED BY <1>1, FS_Surjection
<1> QED BY <1>2, <1>3

-----------------------------------------------------------------------------
(* Sums.                                                                   *)

\* SumFunctionOnSet takes the elements of a set away one at a time.
First(s) == CHOOSE x \in s : TRUE
Rest(s) == s \ {First(s)}
Peeled(f, g, s) == IF s = {} THEN 0 ELSE f[First(s)] + g[Rest(s)]

LEMMA RestIsSmaller ==
    ASSUME NEW s, IsFiniteSet(s), s # {}
    PROVE  /\ First(s) \in s /\ IsFiniteSet(Rest(s)) /\ Rest(s) \subseteq s
           /\ Cardinality(s) \in Nat /\ Cardinality(Rest(s)) \in Nat
           /\ Cardinality(Rest(s)) = Cardinality(s) - 1
<1>1. First(s) \in s
  BY DEF First
<1> QED BY <1>1, FS_RemoveElement, FS_CardinalityType DEF Rest

\* The recursion has a solution, and SumFunctionOnSet is its value.
LEMMA SumUnfolds ==
    ASSUME NEW f, NEW S, IsFiniteSet(S)
    PROVE  \E g : /\ g = [s \in SUBSET S |-> Peeled(f, g, s)]
                  /\ SumFunctionOnSet(f, S) = g[S]
<1> DEFINE Correct(g, n) ==
              /\ g = [s \in SUBSET S |-> g[s]]
              /\ \A s \in SUBSET S : Cardinality(s) <= n => g[s] = Peeled(f, g, s)
           T == {n \in Nat : \E g : Correct(g, n)}
           sum == CHOOSE g : g = [s \in SUBSET S |-> Peeled(f, g, s)]
<1>0. \A s \in SUBSET S : IsFiniteSet(s) /\ Cardinality(s) \in Nat
  BY FS_Subset, FS_CardinalityType
<1>1. 0 \in T
  <2> DEFINE g == [s \in SUBSET S |-> 0]
  <2>1. \A s \in SUBSET S : Cardinality(s) <= 0 => s = {}
    BY <1>0, FS_EmptySet
  <2>2. Correct(g, 0)
    BY <2>1 DEF Peeled
  <2> QED BY <2>2
<1>2. ASSUME NEW n \in T PROVE n + 1 \in T
  <2>1. PICK g : Correct(g, n)
    OBVIOUS
  <2> DEFINE h == [s \in SUBSET S |-> Peeled(f, g, s)]
  <2>2. ASSUME NEW s \in SUBSET S, Cardinality(s) <= n + 1
        PROVE  h[s] = Peeled(f, h, s)
    <3>1. CASE s = {}
      BY <3>1 DEF Peeled
    <3>2. CASE s # {}
      <4>1. Rest(s) \in SUBSET S /\ Cardinality(Rest(s)) <= n
        BY <1>0, <2>2, <3>2, RestIsSmaller
      <4>2. g[Rest(s)] = h[Rest(s)]
        BY <2>1, <4>1
      <4> QED BY <3>2, <4>2 DEF Peeled
    <3> QED BY <3>1, <3>2
  <2>3. Correct(h, n + 1)
    BY <2>2
  <2>4. n + 1 \in Nat
    OBVIOUS
  <2> QED
    <3> HIDE DEF h, Correct
    <3> QED BY <2>3, <2>4
<1>3. Cardinality(S) \in T
  <2>1. T = Nat
    <3> HIDE DEF T
    <3> QED BY <1>1, <1>2, SetInduction DEF T
  <2> QED BY <1>0, <2>1
<1>4. PICK g : Correct(g, Cardinality(S))
  BY <1>3
<1>5. \A s \in SUBSET S : Cardinality(s) <= Cardinality(S)
  BY FS_Subset
<1>6. \E h : h = [s \in SUBSET S |-> Peeled(f, h, s)]
  BY <1>4, <1>5
<1>7. SumFunctionOnSet(f, S) = sum[S]
  BY DEF SumFunctionOnSet, FoldFunctionOnSet, MapThenFoldSet, Peeled, First, Rest
<1>8. sum = [s \in SUBSET S |-> Peeled(f, sum, s)]
  BY <1>6, Zenon
<1> QED
  <2> HIDE DEF sum
  <2> QED BY <1>7, <1>8

\* The sum of a set is its first element's value and the sum of the rest.
LEMMA SumPeels ==
    ASSUME NEW f, NEW S, IsFiniteSet(S)
    PROVE  /\ S = {} => SumFunctionOnSet(f, S) = 0
           /\ S # {} => SumFunctionOnSet(f, S) = f[First(S)] + SumFunctionOnSet(f, Rest(S))
<1>1. PICK g : g = [s \in SUBSET S |-> Peeled(f, g, s)] /\ SumFunctionOnSet(f, S) = g[S]
  BY SumUnfolds
<1>2. S = {} => SumFunctionOnSet(f, S) = 0
  BY <1>1 DEF Peeled
<1>3. ASSUME S # {}
      PROVE  SumFunctionOnSet(f, S) = f[First(S)] + SumFunctionOnSet(f, Rest(S))
  <2> DEFINE R == Rest(S)
  <2>1. IsFiniteSet(R) /\ R \in SUBSET S
    BY <1>3, RestIsSmaller
  <2>2. PICK h : h = [s \in SUBSET R |-> Peeled(f, h, s)] /\ SumFunctionOnSet(f, R) = h[R]
    BY <2>1, SumUnfolds
  <2>3. SumFunctionOnSet(f, S) = f[First(S)] + g[R]
    BY <1>1, <1>3 DEF Peeled
  <2> HIDE DEF R
  <2> DEFINE T == {n \in Nat : \A s \in SUBSET R : Cardinality(s) = n => g[s] = h[s]}
  <2>0. \A s \in SUBSET R : s \in SUBSET S /\ IsFiniteSet(s) /\ Cardinality(s) \in Nat
    BY <2>1, FS_Subset, FS_CardinalityType
  <2>4. 0 \in T
    <3>1. \A s \in SUBSET R : Cardinality(s) = 0 => s = {}
      BY <2>0, FS_EmptySet
    <3>2. g[{}] = h[{}]
      BY <1>1, <2>2 DEF Peeled
    <3> QED BY <3>1, <3>2
  <2>5. ASSUME NEW n \in T PROVE n + 1 \in T
    <3>1. n \in Nat /\ n + 1 \in Nat /\ n + 1 # 0
      OBVIOUS
    <3>2. ASSUME NEW s \in SUBSET R, Cardinality(s) = n + 1
          PROVE  g[s] = h[s]
      <4>1. s # {}
        BY <3>1, <3>2, <2>0, FS_EmptySet
      <4>2. Rest(s) \in SUBSET R /\ Cardinality(Rest(s)) = n
        BY <2>0, <3>1, <3>2, <4>1, RestIsSmaller
      <4>3. g[Rest(s)] = h[Rest(s)]
        BY <4>2
      <4>4. g[s] = f[First(s)] + g[Rest(s)] /\ h[s] = f[First(s)] + h[Rest(s)]
        BY <1>1, <2>0, <2>2, <4>1 DEF Peeled
      <4> QED BY <4>3, <4>4
    <3> QED BY <3>1, <3>2
  <2>6. T = Nat
    <3> HIDE DEF T
    <3> QED BY <2>4, <2>5, SetInduction DEF T
  <2>7. Cardinality(R) \in T
    BY <2>0, <2>6
  <2>8. g[R] = h[R]
    BY <2>7
  <2> QED BY <2>2, <2>3, <2>8 DEF R
<1> QED BY <1>2, <1>3

LEMMA SumIsInt ==
    ASSUME NEW f, NEW S, IsFiniteSet(S), \A x \in S : f[x] \in Int
    PROVE  SumFunctionOnSet(f, S) \in Int
<1> DEFINE G == {T \in SUBSET S : SumFunctionOnSet(f, T) \in Int}
<1>1. ASSUME NEW T \in SUBSET S, \A U \in SUBSET T : U # T => U \in G
      PROVE  T \in G
  <2>1. IsFiniteSet(T)
    BY FS_Subset
  <2>2. CASE T = {}
    <3>1. SumFunctionOnSet(f, T) = 0
      BY <2>1, <2>2, SumPeels
    <3> QED BY <3>1
  <2>3. CASE T # {}
    <3>1. First(T) \in T /\ Rest(T) \in SUBSET T /\ Rest(T) # T
      BY <2>1, <2>3, RestIsSmaller DEF Rest
    <3>2. SumFunctionOnSet(f, Rest(T)) \in Int
      BY <1>1, <3>1
    <3>3. f[First(T)] \in Int
      BY <3>1
    <3> QED BY <2>1, <2>3, <3>2, <3>3, SumPeels
  <2> QED BY <2>2, <2>3
<1>2. S \in G
  <2> HIDE DEF G
  <2> QED BY <1>1, SubsetInduction
<1> QED BY <1>2

\* A sum does not depend on the order of its terms.
LEMMA SumTakes ==
    ASSUME NEW f, NEW S, IsFiniteSet(S), \A y \in S : f[y] \in Int, NEW x \in S
    PROVE  SumFunctionOnSet(f, S) = f[x] + SumFunctionOnSet(f, S \ {x})
<1> DEFINE G == {T \in SUBSET S : \A y \in T :
                    SumFunctionOnSet(f, T) = f[y] + SumFunctionOnSet(f, T \ {y})}
<1>1. ASSUME NEW T \in SUBSET S, \A U \in SUBSET T : U # T => U \in G
      PROVE  T \in G
  <2> SUFFICES ASSUME NEW y \in T
               PROVE  SumFunctionOnSet(f, T) = f[y] + SumFunctionOnSet(f, T \ {y})
    OBVIOUS
  <2> DEFINE c == First(T)
  <2>1. IsFiniteSet(T) /\ T # {} /\ \A U \in SUBSET T : IsFiniteSet(U)
    BY FS_Subset
  <2>2. c \in T /\ Rest(T) = T \ {c}
    BY <2>1, RestIsSmaller DEF Rest
  <2>3. SumFunctionOnSet(f, T) = f[c] + SumFunctionOnSet(f, T \ {c})
    BY <2>1, <2>2, SumPeels
  <2> HIDE DEF c
  <2>4. CASE y = c
    BY <2>3, <2>4
  <2>5. CASE y # c
    <3>1. T \ {c} \in G /\ y \in T \ {c}
      BY <1>1, <2>2, <2>5
    <3>2. T \ {y} \in G /\ c \in T \ {y}
      BY <1>1, <2>2, <2>5
    <3>3. (T \ {c}) \ {y} = (T \ {y}) \ {c}
      OBVIOUS
    <3> DEFINE R == (T \ {c}) \ {y}
    <3>4. SumFunctionOnSet(f, T \ {c}) = f[y] + SumFunctionOnSet(f, R)
      BY <3>1
    <3>5. SumFunctionOnSet(f, T \ {y}) = f[c] + SumFunctionOnSet(f, R)
      BY <3>2, <3>3
    <3>6. SumFunctionOnSet(f, R) \in Int
      <4>1. R \in SUBSET T /\ R \in SUBSET S
        OBVIOUS
      <4>2. \A z \in R : f[z] \in Int
        BY <4>1
      <4> HIDE DEF R
      <4> QED BY <2>1, <4>1, <4>2, SumIsInt
    <3>7. f[c] \in Int /\ f[y] \in Int
      BY <2>2
    <3> HIDE DEF R
    <3> QED BY <2>3, <3>4, <3>5, <3>6, <3>7
  <2> QED BY <2>4, <2>5
<1>2. S \in G
  <2> HIDE DEF G
  <2> QED BY <1>1, SubsetInduction
<1> QED BY <1>2

LEMMA SumAdds ==
    ASSUME NEW f, NEW S, IsFiniteSet(S), NEW x, x \notin S,
           \A y \in S \cup {x} : f[y] \in Int
    PROVE  SumFunctionOnSet(f, S \cup {x}) = f[x] + SumFunctionOnSet(f, S)
<1>1. IsFiniteSet(S \cup {x}) /\ (S \cup {x}) \ {x} = S /\ x \in S \cup {x}
  BY FS_AddElement
<1> QED BY <1>1, SumTakes

LEMMA SumOfNone ==
    ASSUME NEW f
    PROVE  SumFunctionOnSet(f, {}) = 0
BY SumPeels, FS_EmptySet

LEMMA SumOfOne ==
    ASSUME NEW f, NEW x, f[x] \in Int
    PROVE  SumFunctionOnSet(f, {x}) = f[x]
<1>1. SumFunctionOnSet(f, {} \cup {x}) = f[x] + SumFunctionOnSet(f, {})
  BY SumAdds, FS_EmptySet
<1>2. {} \cup {x} = {x}
  OBVIOUS
<1> QED BY <1>1, <1>2, SumOfNone

\* Sums of integers over finite sets.
Summable(f, S) == IsFiniteSet(S) /\ \A x \in S : f[x] \in Int

LEMMA SummableSubset ==
    ASSUME NEW f, NEW S, Summable(f, S), NEW T \in SUBSET S
    PROVE  Summable(f, T) /\ SumFunctionOnSet(f, T) \in Int
BY FS_Subset, SumIsInt DEF Summable

\* Terms that are at most as large add up to a sum that is at most as large.
LEMMA SumGrows ==
    ASSUME NEW f, NEW g, NEW S, Summable(f, S), Summable(g, S),
           \A x \in S : f[x] <= g[x]
    PROVE  SumFunctionOnSet(f, S) <= SumFunctionOnSet(g, S)
<1> DEFINE G == {T \in SUBSET S : SumFunctionOnSet(f, T) <= SumFunctionOnSet(g, T)}
<1>1. {} \in G
  BY SumOfNone
<1>2. ASSUME NEW T \in SUBSET S, NEW x \in S \ T, T \in G
      PROVE  T \cup {x} \in G
  <2>1. IsFiniteSet(T) /\ SumFunctionOnSet(f, T) \in Int /\ SumFunctionOnSet(g, T) \in Int
    BY SummableSubset DEF Summable
  <2>2. \A y \in T \cup {x} : f[y] \in Int /\ g[y] \in Int
    BY DEF Summable
  <2>3. /\ SumFunctionOnSet(f, T \cup {x}) = f[x] + SumFunctionOnSet(f, T)
        /\ SumFunctionOnSet(g, T \cup {x}) = g[x] + SumFunctionOnSet(g, T)
    BY <2>1, <2>2, SumAdds
  <2>4. SumFunctionOnSet(f, T) <= SumFunctionOnSet(g, T) /\ f[x] <= g[x]
    BY <1>2
  <2> QED BY <2>1, <2>2, <2>3, <2>4
<1>3. S \in G
  <2> HIDE DEF G
  <2> QED BY <1>1, <1>2, ElementInduction DEF Summable
<1> QED BY <1>3

LEMMA SumOfEquals ==
    ASSUME NEW f, NEW g, NEW S, Summable(f, S), \A x \in S : f[x] = g[x]
    PROVE  SumFunctionOnSet(f, S) = SumFunctionOnSet(g, S)
<1>1. Summable(g, S) /\ \A x \in S : f[x] <= g[x] /\ g[x] <= f[x]
  BY DEF Summable
<1>2. SumFunctionOnSet(f, S) \in Int /\ SumFunctionOnSet(g, S) \in Int
  BY <1>1, SummableSubset
<1>3. /\ SumFunctionOnSet(f, S) <= SumFunctionOnSet(g, S)
      /\ SumFunctionOnSet(g, S) <= SumFunctionOnSet(f, S)
  BY <1>1, SumGrows
<1> QED BY <1>2, <1>3

\* A sum over two disjoint sets.
LEMMA SumOfUnion ==
    ASSUME NEW f, NEW A, NEW B, Summable(f, A), Summable(f, B), A \cap B = {}
    PROVE  /\ Summable(f, A \cup B)
           /\ SumFunctionOnSet(f, A \cup B)
                 = SumFunctionOnSet(f, A) + SumFunctionOnSet(f, B)
<1> DEFINE G == {T \in SUBSET B : SumFunctionOnSet(f, A \cup T)
                                    = SumFunctionOnSet(f, A) + SumFunctionOnSet(f, T)}
<1>0. SumFunctionOnSet(f, A) \in Int
  BY SummableSubset
<1>1. {} \in G
  <2>1. A \cup {} = A
    OBVIOUS
  <2> QED BY <1>0, <2>1, SumOfNone
<1>2. ASSUME NEW T \in SUBSET B, NEW x \in B \ T, T \in G
      PROVE  T \cup {x} \in G
  <2>1. IsFiniteSet(T) /\ SumFunctionOnSet(f, T) \in Int /\ IsFiniteSet(A \cup T)
    BY SummableSubset, FS_Union DEF Summable
  <2>2. \A y \in (A \cup T) \cup {x} : f[y] \in Int
    BY DEF Summable
  <2>3. x \notin A \cup T /\ (A \cup T) \cup {x} = A \cup (T \cup {x})
    OBVIOUS
  <2>4. SumFunctionOnSet(f, (A \cup T) \cup {x}) = f[x] + SumFunctionOnSet(f, A \cup T)
    BY <2>1, <2>2, <2>3, SumAdds
  <2>5. SumFunctionOnSet(f, T \cup {x}) = f[x] + SumFunctionOnSet(f, T)
    BY <2>1, <2>2, SumAdds
  <2>6. SumFunctionOnSet(f, A \cup T) = SumFunctionOnSet(f, A) + SumFunctionOnSet(f, T)
    BY <1>2
  <2>7. f[x] \in Int
    BY <2>2
  <2>8. SumFunctionOnSet(f, A \cup (T \cup {x})) = f[x] + SumFunctionOnSet(f, A \cup T)
    BY <2>3, <2>4
  <2>9. SumFunctionOnSet(f, A \cup (T \cup {x}))
           = SumFunctionOnSet(f, A) + SumFunctionOnSet(f, T \cup {x})
    <3> HIDE <2>1, <2>2, <2>3
    <3> QED BY <1>0, <2>1, <2>5, <2>6, <2>7, <2>8
  <2> QED BY <2>9
<1>3. B \in G
  <2> HIDE DEF G
  <2> QED BY <1>1, <1>2, ElementInduction DEF Summable
<1>4. IsFiniteSet(A \cup B)
  BY FS_Union DEF Summable
<1> QED BY <1>3, <1>4 DEF Summable


LEMMA SumIsNat ==
    ASSUME NEW f, NEW S, IsFiniteSet(S), \A x \in S : f[x] \in Nat
    PROVE  Summable(f, S) /\ SumFunctionOnSet(f, S) \in Nat
<1> DEFINE G == {T \in SUBSET S : SumFunctionOnSet(f, T) \in Nat}
<1>1. {} \in G
  BY SumOfNone
<1>2. ASSUME NEW T \in SUBSET S, NEW x \in S \ T, T \in G
      PROVE  T \cup {x} \in G
  <2>1. IsFiniteSet(T) /\ \A y \in T \cup {x} : f[y] \in Int
    BY FS_Subset
  <2>2. SumFunctionOnSet(f, T \cup {x}) = f[x] + SumFunctionOnSet(f, T)
    BY <2>1, SumAdds
  <2>3. SumFunctionOnSet(f, T) \in Nat /\ f[x] \in Nat
    BY <1>2
  <2>4. f[x] + SumFunctionOnSet(f, T) \in Nat
    BY <2>3
  <2> QED BY <2>2, <2>4
<1>3. S \in G
  <2> HIDE DEF G
  <2> QED BY <1>1, <1>2, ElementInduction
<1> QED BY <1>3 DEF Summable

\* A part of a sum of naturals is at most the sum, and so is each of its terms.
LEMMA SumOfPart ==
    ASSUME NEW f, NEW S, IsFiniteSet(S), \A x \in S : f[x] \in Nat, NEW T \in SUBSET S
    PROVE  /\ SumFunctionOnSet(f, T) \in Nat /\ SumFunctionOnSet(f, S) \in Nat
           /\ SumFunctionOnSet(f, T) <= SumFunctionOnSet(f, S)
<1> DEFINE R == S \ T
<1>1. IsFiniteSet(T) /\ IsFiniteSet(R) /\ R \in SUBSET S
  BY FS_Subset
<1>2. /\ Summable(f, T) /\ SumFunctionOnSet(f, T) \in Nat
      /\ Summable(f, R) /\ SumFunctionOnSet(f, R) \in Nat
  BY <1>1, SumIsNat
<1>3. T \cup R = S /\ T \cap R = {}
  OBVIOUS
<1> HIDE DEF R
<1>4. SumFunctionOnSet(f, T \cup R) = SumFunctionOnSet(f, T) + SumFunctionOnSet(f, R)
  BY <1>2, <1>3, SumOfUnion
<1>5. SumFunctionOnSet(f, S) = SumFunctionOnSet(f, T) + SumFunctionOnSet(f, R)
  BY <1>3, <1>4
<1> QED BY <1>2, <1>5

LEMMA SumHasTerm ==
    ASSUME NEW f, NEW S, IsFiniteSet(S), \A y \in S : f[y] \in Nat, NEW x \in S
    PROVE  f[x] <= SumFunctionOnSet(f, S)
<1>1. SumFunctionOnSet(f, {x}) = f[x]
  BY SumOfOne
<1>2. {x} \in SUBSET S
  OBVIOUS
<1>3. SumFunctionOnSet(f, {x}) <= SumFunctionOnSet(f, S)
  BY <1>2, SumOfPart
<1> QED BY <1>1, <1>3

LEMMA SumOfZeros ==
    ASSUME NEW f, NEW S, IsFiniteSet(S), \A x \in S : f[x] = 0
    PROVE  SumFunctionOnSet(f, S) = 0
<1> DEFINE G == {T \in SUBSET S : SumFunctionOnSet(f, T) = 0}
<1>1. {} \in G
  BY SumOfNone
<1>2. ASSUME NEW T \in SUBSET S, NEW x \in S \ T, T \in G
      PROVE  T \cup {x} \in G
  <2>1. IsFiniteSet(T) /\ \A y \in T \cup {x} : f[y] \in Int
    BY FS_Subset
  <2>2. SumFunctionOnSet(f, T \cup {x}) = f[x] + SumFunctionOnSet(f, T)
    BY <2>1, SumAdds
  <2>3. SumFunctionOnSet(f, T) = 0 /\ f[x] = 0
    BY <1>2
  <2> QED BY <2>2, <2>3
<1>3. S \in G
  <2> HIDE DEF G
  <2> QED BY <1>1, <1>2, ElementInduction
<1> QED BY <1>3

\* A sum of sums, and a multiple of one.
LEMMA SumOfSums ==
    ASSUME NEW f, NEW g, NEW h, NEW S, Summable(f, S), Summable(g, S),
           \A x \in S : h[x] = f[x] + g[x]
    PROVE  SumFunctionOnSet(h, S) = SumFunctionOnSet(f, S) + SumFunctionOnSet(g, S)
<1> DEFINE G == {T \in SUBSET S : SumFunctionOnSet(h, T)
                    = SumFunctionOnSet(f, T) + SumFunctionOnSet(g, T)}
<1>1. {} \in G
  BY SumOfNone
<1>2. ASSUME NEW T \in SUBSET S, NEW x \in S \ T, T \in G
      PROVE  T \cup {x} \in G
  <2>1. /\ IsFiniteSet(T)
        /\ SumFunctionOnSet(f, T) \in Int /\ SumFunctionOnSet(g, T) \in Int
    BY SummableSubset DEF Summable
  <2>2. \A y \in T \cup {x} : f[y] \in Int /\ g[y] \in Int /\ h[y] = f[y] + g[y]
    BY DEF Summable
  <2>3. \A y \in T \cup {x} : h[y] \in Int
    BY <2>2
  <2>4. /\ SumFunctionOnSet(f, T \cup {x}) = f[x] + SumFunctionOnSet(f, T)
        /\ SumFunctionOnSet(g, T \cup {x}) = g[x] + SumFunctionOnSet(g, T)
        /\ SumFunctionOnSet(h, T \cup {x}) = h[x] + SumFunctionOnSet(h, T)
    BY <2>1, <2>2, <2>3, SumAdds
  <2>5. SumFunctionOnSet(h, T) = SumFunctionOnSet(f, T) + SumFunctionOnSet(g, T)
    BY <1>2
  <2>6. f[x] \in Int /\ g[x] \in Int /\ h[x] = f[x] + g[x]
    BY <2>2
  <2>7. SumFunctionOnSet(h, T \cup {x})
           = SumFunctionOnSet(f, T \cup {x}) + SumFunctionOnSet(g, T \cup {x})
    BY <2>1, <2>4, <2>5, <2>6
  <2> QED BY <2>7
<1>3. S \in G
  <2> HIDE DEF G
  <2> QED BY <1>1, <1>2, ElementInduction DEF Summable
<1> QED BY <1>3

LEMMA SumOfMultiples ==
    ASSUME NEW f, NEW g, NEW S, Summable(f, S), NEW c \in Int,
           \A x \in S : g[x] = c * f[x]
    PROVE  Summable(g, S) /\ SumFunctionOnSet(g, S) = c * SumFunctionOnSet(f, S)
<1> DEFINE G == {T \in SUBSET S : SumFunctionOnSet(g, T) = c * SumFunctionOnSet(f, T)}
<1>1. {} \in G
  BY SumOfNone
<1>2. ASSUME NEW T \in SUBSET S, NEW x \in S \ T, T \in G
      PROVE  T \cup {x} \in G
  <2>1. IsFiniteSet(T) /\ SumFunctionOnSet(f, T) \in Int
    BY SummableSubset DEF Summable
  <2>2. \A y \in T \cup {x} : f[y] \in Int /\ g[y] = c * f[y]
    BY DEF Summable
  <2>3. \A y \in T \cup {x} : g[y] \in Int
    BY <2>2
  <2>4. /\ SumFunctionOnSet(f, T \cup {x}) = f[x] + SumFunctionOnSet(f, T)
        /\ SumFunctionOnSet(g, T \cup {x}) = g[x] + SumFunctionOnSet(g, T)
    BY <2>1, <2>2, <2>3, SumAdds
  <2>5. SumFunctionOnSet(g, T) = c * SumFunctionOnSet(f, T)
    BY <1>2
  <2>6. f[x] \in Int /\ g[x] = c * f[x]
    BY <2>2
  <2>7. c * (f[x] + SumFunctionOnSet(f, T)) = c * f[x] + c * SumFunctionOnSet(f, T)
    BY <2>1, <2>6
  <2>8. SumFunctionOnSet(g, T \cup {x}) = c * SumFunctionOnSet(f, T \cup {x})
    BY <2>4, <2>5, <2>6, <2>7
  <2> QED BY <2>8
<1>3. S \in G
  <2> HIDE DEF G
  <2> QED BY <1>1, <1>2, ElementInduction DEF Summable
<1>4. \A x \in S : g[x] \in Int
  BY DEF Summable
<1> QED BY <1>3, <1>4 DEF Summable

\* The size of a set is a sum of ones.
LEMMA SumOfOnes ==
    ASSUME NEW f, NEW S, IsFiniteSet(S), \A x \in S : f[x] = 1
    PROVE  SumFunctionOnSet(f, S) = Cardinality(S)
<1> DEFINE G == {T \in SUBSET S : SumFunctionOnSet(f, T) = Cardinality(T)}
<1>1. {} \in G
  BY SumOfNone, FS_EmptySet
<1>2. ASSUME NEW T \in SUBSET S, NEW x \in S \ T, T \in G
      PROVE  T \cup {x} \in G
  <2>1. /\ IsFiniteSet(T) /\ Cardinality(T) \in Nat
        /\ Cardinality(T \cup {x}) = Cardinality(T) + 1
    BY FS_Subset, FS_CardinalityType, FS_AddElement
  <2>2. \A y \in T \cup {x} : f[y] \in Int
    OBVIOUS
  <2>3. SumFunctionOnSet(f, T \cup {x}) = f[x] + SumFunctionOnSet(f, T)
    BY <2>1, <2>2, SumAdds
  <2>4. SumFunctionOnSet(f, T) = Cardinality(T) /\ f[x] = 1
    BY <1>2
  <2>5. SumFunctionOnSet(f, T \cup {x}) = Cardinality(T \cup {x})
    BY <2>1, <2>3, <2>4
  <2> QED BY <2>5
<1>3. S \in G
  <2> HIDE DEF G
  <2> QED BY <1>1, <1>2, ElementInduction
<1> QED BY <1>3

-----------------------------------------------------------------------------
(* Sums by class.                                                          *)

Together(A, S) == UNION {A[x] : x \in S}

Disjoint(A, S) == \A x, y \in S : x # y => A[x] \cap A[y] = {}

\* The sums of disjoint sets add up to the sum of their union.
LEMMA SumOfParts ==
    ASSUME NEW f, NEW g, NEW A, NEW S, IsFiniteSet(S), Disjoint(A, S),
           \A x \in S : Summable(f, A[x]) /\ g[x] = SumFunctionOnSet(f, A[x])
    PROVE  /\ Summable(g, S) /\ Summable(f, Together(A, S))
           /\ SumFunctionOnSet(g, S) = SumFunctionOnSet(f, Together(A, S))
<1> DEFINE G == {T \in SUBSET S :
                    /\ Summable(f, Together(A, T))
                    /\ SumFunctionOnSet(g, T) = SumFunctionOnSet(f, Together(A, T))}
<1>0. \A x \in S : g[x] \in Int
  BY SummableSubset
<1>1. {} \in G
  <2>1. Together(A, {}) = {}
    BY DEF Together
  <2> QED BY <2>1, SumOfNone, FS_EmptySet DEF Summable
<1>2. ASSUME NEW T \in SUBSET S, NEW x \in S \ T, T \in G
      PROVE  T \cup {x} \in G
  <2>1. IsFiniteSet(T) /\ \A y \in T \cup {x} : g[y] \in Int
    BY <1>0, FS_Subset
  <2>2. SumFunctionOnSet(g, T \cup {x}) = g[x] + SumFunctionOnSet(g, T)
    BY <2>1, SumAdds
  <2>3. Together(A, T) \cap A[x] = {}
    <3>1. \A y \in T : A[y] \cap A[x] = {}
      BY DEF Disjoint
    <3> QED BY <3>1 DEF Together
  <2>4. /\ Summable(f, Together(A, T)) /\ Summable(f, A[x])
        /\ SumFunctionOnSet(g, T) = SumFunctionOnSet(f, Together(A, T))
        /\ g[x] = SumFunctionOnSet(f, A[x])
    BY <1>2
  <2> DEFINE U == Together(A, T)
             V == A[x]
  <2>5. U \cap V = {} /\ Summable(f, U) /\ Summable(f, V)
    BY <2>3, <2>4
  <2>6. Together(A, T \cup {x}) = U \cup V
    BY DEF Together
  <2>7. /\ SumFunctionOnSet(f, U) \in Int /\ SumFunctionOnSet(f, V) \in Int
        /\ SumFunctionOnSet(g, T) = SumFunctionOnSet(f, U)
        /\ g[x] = SumFunctionOnSet(f, V)
    BY <2>4, SummableSubset
  <2> HIDE DEF U, V
  <2>8. /\ Summable(f, U \cup V)
        /\ SumFunctionOnSet(f, U \cup V) = SumFunctionOnSet(f, U) + SumFunctionOnSet(f, V)
    BY <2>5, SumOfUnion
  <2>9. SumFunctionOnSet(g, T \cup {x}) = SumFunctionOnSet(f, U \cup V)
    BY <2>2, <2>7, <2>8
  <2> QED BY <2>6, <2>8, <2>9
<1>3. S \in G
  <2> HIDE DEF G
  <2> QED BY <1>1, <1>2, ElementInduction
<1> QED BY <1>0, <1>3 DEF Summable

\* The sizes of disjoint sets add up to the size of their union.
LEMMA SizesAddUp ==
    ASSUME NEW f, NEW A, NEW S, IsFiniteSet(S), Disjoint(A, S),
           \A x \in S : IsFiniteSet(A[x]) /\ f[x] = Cardinality(A[x])
    PROVE  /\ IsFiniteSet(Together(A, S)) /\ Summable(f, S)
           /\ SumFunctionOnSet(f, S) = Cardinality(Together(A, S))
<1> DEFINE one == [y \in Together(A, S) |-> 1]
<1>1. \A x \in S : A[x] \subseteq Together(A, S)
  BY DEF Together
<1>2. \A x \in S : Summable(one, A[x])
  BY <1>1 DEF Summable
<1>3. \A x \in S : f[x] = SumFunctionOnSet(one, A[x])
  <2> SUFFICES ASSUME NEW x \in S PROVE f[x] = SumFunctionOnSet(one, A[x])
    OBVIOUS
  <2>1. \A y \in A[x] : one[y] = 1
    BY <1>1
  <2> HIDE DEF one
  <2> QED BY <2>1, SumOfOnes
<1>4. \A y \in Together(A, S) : one[y] = 1
  OBVIOUS
<1> HIDE DEF one
<1>5. /\ Summable(f, S) /\ Summable(one, Together(A, S))
      /\ SumFunctionOnSet(f, S) = SumFunctionOnSet(one, Together(A, S))
  BY <1>2, <1>3, SumOfParts
<1> QED BY <1>4, <1>5, SumOfOnes DEF Summable

\* The sizes of any sets add up to at least the size of their union.
LEMMA UnionBySum ==
    ASSUME NEW f, NEW A, NEW S, IsFiniteSet(S),
           \A x \in S : /\ f[x] \in Nat /\ IsFiniteSet(A[x])
                        /\ Cardinality(A[x]) <= f[x]
    PROVE  /\ SumFunctionOnSet(f, S) \in Nat
           /\ IsFiniteSet(Together(A, S))
           /\ Cardinality(Together(A, S)) <= SumFunctionOnSet(f, S)
<1> DEFINE G == {T \in SUBSET S :
                    /\ IsFiniteSet(Together(A, T))
                    /\ Cardinality(Together(A, T)) <= SumFunctionOnSet(f, T)}
<1>1. {} \in G
  <2>1. Together(A, {}) = {}
    BY DEF Together
  <2>2. IsFiniteSet(Together(A, {})) /\ Cardinality(Together(A, {})) = 0
    BY <2>1, FS_EmptySet
  <2>3. SumFunctionOnSet(f, {}) = 0
    BY SumOfNone
  <2>4. Cardinality(Together(A, {})) <= SumFunctionOnSet(f, {})
    BY <2>2, <2>3
  <2> QED BY <2>2, <2>4
<1>2. ASSUME NEW T \in SUBSET S, NEW x \in S \ T, T \in G
      PROVE  T \cup {x} \in G
  <2>1. IsFiniteSet(T) /\ SumFunctionOnSet(f, T) \in Nat
    BY FS_Subset, SumIsNat
  <2>2. \A y \in T \cup {x} : f[y] \in Int
    OBVIOUS
  <2>3. SumFunctionOnSet(f, T \cup {x}) = f[x] + SumFunctionOnSet(f, T)
    BY <2>1, <2>2, SumAdds
  <2>4. Together(A, T \cup {x}) = Together(A, T) \cup A[x]
    BY DEF Together
  <2> DEFINE U == Together(A, T)
             V == A[x]
  <2>5. /\ IsFiniteSet(U) /\ IsFiniteSet(V)
        /\ Cardinality(U) <= SumFunctionOnSet(f, T) /\ Cardinality(V) <= f[x]
    BY <1>2
  <2> HIDE DEF U, V
  <2>6. /\ IsFiniteSet(U \cup V)
        /\ Cardinality(U \cup V) = Cardinality(U) + Cardinality(V) - Cardinality(U \cap V)
        /\ Cardinality(U) \in Nat /\ Cardinality(V) \in Nat /\ Cardinality(U \cap V) \in Nat
    BY <2>5, FS_Union, FS_CardinalityType, FS_Intersection
  <2>7. Cardinality(U \cup V) <= SumFunctionOnSet(f, T \cup {x})
    BY <2>1, <2>2, <2>3, <2>5, <2>6
  <2> QED BY <2>4, <2>6, <2>7 DEF U, V
<1>3. S \in G
  <2> HIDE DEF G
  <2> QED BY <1>1, <1>2, ElementInduction
<1> QED BY <1>3, SumIsNat

=============================================================================

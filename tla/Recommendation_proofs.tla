------------------------ MODULE Recommendation_proofs -----------------------
(***************************************************************************)
(* Theorems about Recommendation, for any options, pages, orders, requests *)
(* and budgets, and for any number of conditions, axes and answers.        *)
(*                                                                         *)
(* The sums and the dominance of candidates need induction over finite     *)
(* sets: SetInduction of FiniteSetLemmas, for the set of sizes at which a  *)
(* statement holds.                                                        *)
(***************************************************************************)
EXTENDS Recommendation, FiniteSetLemmas

-----------------------------------------------------------------------------
(* Naturals, finite sets and places in a sequence.                         *)

\* Every place is the k-th one for exactly one k.
LEMMA PlacesInOrder ==
  ASSUME NEW P \in SUBSET Int, IsFiniteSet(P)
  PROVE  /\ \A k \in 1..Cardinality(P) : Nth(P, k) \in P
         /\ \A i \in P : \E k \in 1..Cardinality(P) : Nth(P, k) = i
         /\ \A k, l \in 1..Cardinality(P) : Nth(P, k) = Nth(P, l) => k = l
<1> DEFINE upTo(i) == {j \in P : j <= i}
           n == Cardinality(P)
           rank == [i \in P |-> Cardinality(upTo(i))]
<1>1. n \in Nat /\ IsFiniteSet(1..n) /\ Cardinality(1..n) = n
  <2>1. n \in Nat
    BY FS_CardinalityType
  <2>2. QED
    BY <2>1, FS_Interval
<1>2. ASSUME NEW i \in P
      PROVE  IsFiniteSet(upTo(i)) /\ Cardinality(upTo(i)) \in 1..n
  <2>1. upTo(i) \in SUBSET P /\ upTo(i) # {}
    OBVIOUS
  <2>2. /\ IsFiniteSet(upTo(i)) /\ Cardinality(upTo(i)) <= n
        /\ Cardinality(upTo(i)) \in Nat
    BY <2>1, FS_Subset, FS_CardinalityType
  <2>3. Cardinality(upTo(i)) # 0
    BY <2>1, <2>2, FS_EmptySet
  <2>4. QED
    BY <1>1, <2>2, <2>3
<1>3. ASSUME NEW i \in P, NEW j \in P, i < j
      PROVE  rank[i] # rank[j]
  <2>0. i \in Int /\ j \in Int /\ \A x \in P : x \in Int
    OBVIOUS
  <2>1. upTo(i) \in SUBSET upTo(j) /\ j \in upTo(j) /\ j \notin upTo(i)
    <3>1. \A x \in P : x <= i => x <= j
      BY <1>3, <2>0
    <3>2. j <= j /\ ~(j <= i)
      BY <1>3, <2>0
    <3>3. QED
      BY <3>1, <3>2
  <2>2. upTo(i) # upTo(j)
    BY <2>1
  <2>3. IsFiniteSet(upTo(j))
    BY <1>2
  <2> HIDE DEF upTo
  <2>4. Cardinality(upTo(i)) # Cardinality(upTo(j))
    BY <2>1, <2>2, <2>3, FS_Subset
  <2>5. QED
    BY <2>4
<1>4. rank \in [P -> 1..n]
  <2> HIDE DEF upTo, n
  <2> QED BY <1>2
<1>5. IsInjective(rank)
  <2> SUFFICES ASSUME NEW i \in P, NEW j \in P, rank[i] = rank[j]
               PROVE  i = j
    BY DEF IsInjective
  <2>1. ~(i < j) /\ ~(j < i)
    BY <1>3
  <2>2. QED
    BY <2>1
<1> HIDE DEF rank
<1>6. rank \in Injection(P, 1..n)
  BY <1>4, <1>5 DEF Injection
<1>7. rank \in Surjection(P, 1..n)
  <2>1. Cardinality(P) = Cardinality(1..n)
    BY <1>1
  <2>2. QED
    BY <1>1, <1>6, <2>1, FS_Injection
<1>8. \A k \in 1..n : \E i \in P : rank[i] = k
  BY <1>7 DEF Surjection
<1>9. \A i \in P : rank[i] = Cardinality({j \in P : j <= i})
  BY DEF rank
<1>10. ASSUME NEW k \in 1..n
       PROVE  Nth(P, k) \in P /\ rank[Nth(P, k)] = k
  <2>1. \E i \in P : Cardinality({j \in P : j <= i}) = k
    BY <1>8, <1>9
  <2>2. Nth(P, k) \in P /\ Cardinality({j \in P : j <= Nth(P, k)}) = k
    BY <2>1, Zenon DEF Nth
  <2>3. QED
    BY <1>9, <2>2
<1>11. ASSUME NEW i \in P
       PROVE  \E k \in 1..n : Nth(P, k) = i
  <2>1. rank[i] \in 1..n
    BY <1>4
  <2>2. Nth(P, rank[i]) \in P /\ rank[Nth(P, rank[i])] = rank[i]
    BY <1>10, <2>1
  <2>3. QED
    BY <1>4, <1>5, <2>1, <2>2 DEF IsInjective
<1>12. \A k, l \in 1..n : Nth(P, k) = Nth(P, l) => k = l
  BY <1>10
<1>13. QED
  BY <1>10, <1>11, <1>12

\* The elements at some places of a sequence: one for each of them, and they
\* repeat nothing unless the sequence does at those places.
LEMMA ElementsAt ==
  ASSUME NEW S, NEW s \in Seq(S), NEW P \in SUBSET DOMAIN s
  PROVE  /\ IsFiniteSet(P) /\ Cardinality(P) \in Nat
         /\ At(s, P) \in Seq(S)
         /\ Len(At(s, P)) = Cardinality(P)
         /\ DOMAIN At(s, P) = 1..Cardinality(P)
         /\ \A k \in 1..Cardinality(P) : Nth(P, k) \in P /\ At(s, P)[k] = s[Nth(P, k)]
         /\ Range(At(s, P)) = {s[i] : i \in P}
         /\ (\A i, j \in P : s[i] = s[j] => i = j) => IsInjective(At(s, P))
<1> DEFINE n == Cardinality(P)
<1>1. Len(s) \in Nat /\ DOMAIN s = 1..Len(s)
  OBVIOUS
<1>2. IsFiniteSet(P) /\ n \in Nat /\ P \in SUBSET Int
  <2>1. IsFiniteSet(1..Len(s))
    BY <1>1, FS_Interval
  <2>2. IsFiniteSet(P)
    BY <1>1, <2>1, FS_Subset
  <2>3. QED
    BY <1>1, <2>2, FS_CardinalityType
<1>3. /\ \A k \in 1..n : Nth(P, k) \in P
      /\ \A i \in P : \E k \in 1..n : Nth(P, k) = i
      /\ \A k, l \in 1..n : Nth(P, k) = Nth(P, l) => k = l
  BY <1>2, PlacesInOrder
<1>4. At(s, P) = [k \in 1..n |-> s[Nth(P, k)]]
  BY DEF At
<1> HIDE DEF n
<1>5. \A k \in 1..n : s[Nth(P, k)] \in S
  BY <1>3
<1>6. At(s, P) \in Seq(S) /\ Len(At(s, P)) = n /\ DOMAIN At(s, P) = 1..n
  BY <1>2, <1>4, <1>5
<1>7. Range(At(s, P)) = {s[i] : i \in P}
  BY <1>3, <1>4 DEF Range
<1>8. (\A i, j \in P : s[i] = s[j] => i = j) => IsInjective(At(s, P))
  BY <1>3, <1>4 DEF IsInjective
<1>9. QED
  BY <1>2, <1>3, <1>4, <1>6, <1>7, <1>8 DEF n

-----------------------------------------------------------------------------
(* What was found, and what is inspected next.                             *)

\* A sequence that repeats nothing has as many elements as places.
LEMMA ElementsOf ==
  ASSUME NEW S, NEW s \in Seq(S)
  PROVE  /\ IsFiniteSet(Range(s)) /\ Range(s) \subseteq S
         /\ Cardinality(Range(s)) \in Nat /\ Len(s) \in Nat
         /\ IsInjective(s) => Cardinality(Range(s)) = Len(s)
<1>1. Len(s) \in Nat /\ DOMAIN s = 1..Len(s) /\ s \in [1..Len(s) -> S]
  OBVIOUS
<1>2. IsFiniteSet(1..Len(s)) /\ Cardinality(1..Len(s)) = Len(s)
  BY <1>1, FS_Interval
<1>3. s \in Surjection(1..Len(s), Range(s)) /\ Range(s) \subseteq S
  BY <1>1 DEF Surjection, Range
<1>4. /\ IsFiniteSet(Range(s))
      /\ Cardinality(Range(s)) = Cardinality(1..Len(s)) <=> s \in Injection(1..Len(s), Range(s))
  BY <1>2, <1>3, FS_Surjection
<1>5. IsInjective(s) => s \in Injection(1..Len(s), Range(s))
  BY <1>1 DEF Injection, Range
<1>6. QED
  BY <1>1, <1>2, <1>3, <1>4, <1>5, FS_CardinalityType

\* Merging keeps the options apart.
LEMMA MergedType ==
  ASSUME NEW seen \in Seq(Option), IsInjective(seen), NEW items \in Seq(Option)
  PROVE  Merged(seen, items) \in Seq(Option) /\ IsInjective(Merged(seen, items))
<1> DEFINE fresh == {i \in DOMAIN items : /\ items[i] \notin Range(seen)
                                          /\ \A j \in 1..i - 1 : items[j] # items[i]}
           new == At(items, fresh)
<1>1. fresh \in SUBSET DOMAIN items
  OBVIOUS
<1>2. \A i, j \in fresh : items[i] = items[j] => i = j
  <2> SUFFICES ASSUME NEW i \in fresh, NEW j \in fresh, i < j
               PROVE  items[i] # items[j]
    OBVIOUS
  <2>1. i \in 1..j - 1
    OBVIOUS
  <2>2. QED
    BY <2>1
<1>3. \A i \in fresh : items[i] \notin Range(seen)
  OBVIOUS
<1>4. Merged(seen, items) = seen \o new
  BY DEF Merged
<1> HIDE DEF fresh
<1>5. new \in Seq(Option) /\ IsInjective(new) /\ Range(new) = {items[i] : i \in fresh}
  BY <1>1, <1>2, ElementsAt
<1>6. \A x \in Range(new) : x \notin Range(seen)
  BY <1>3, <1>5
<1> HIDE DEF new
<1>7. seen \o new \in Seq(Option) /\ IsInjective(seen \o new)
  <2>1. seen \o new \in Seq(Option) /\ DOMAIN (seen \o new) = 1..Len(seen) + Len(new)
    BY <1>5
  <2>2. ASSUME NEW i \in 1..Len(seen) + Len(new), NEW j \in 1..Len(seen) + Len(new),
               (seen \o new)[i] = (seen \o new)[j]
        PROVE  i = j
    <3>1. CASE i <= Len(seen) /\ j <= Len(seen)
      BY <2>2, <3>1, <1>5 DEF IsInjective
    <3>2. CASE i <= Len(seen) /\ j > Len(seen)
      <4>1. (seen \o new)[i] = seen[i] /\ i \in DOMAIN seen
        BY <3>2, <1>5
      <4>2. (seen \o new)[j] = new[j - Len(seen)] /\ j - Len(seen) \in DOMAIN new
        BY <3>2, <1>5
      <4>3. QED
        BY <1>6, <2>2, <4>1, <4>2 DEF Range
    <3>3. CASE i > Len(seen) /\ j <= Len(seen)
      <4>1. (seen \o new)[j] = seen[j] /\ j \in DOMAIN seen
        BY <3>3, <1>5
      <4>2. (seen \o new)[i] = new[i - Len(seen)] /\ i - Len(seen) \in DOMAIN new
        BY <3>3, <1>5
      <4>3. QED
        BY <1>6, <2>2, <4>1, <4>2 DEF Range
    <3>4. CASE i > Len(seen) /\ j > Len(seen)
      <4>1. (seen \o new)[i] = new[i - Len(seen)] /\ i - Len(seen) \in DOMAIN new
        BY <3>4, <1>5
      <4>2. (seen \o new)[j] = new[j - Len(seen)] /\ j - Len(seen) \in DOMAIN new
        BY <3>4, <1>5
      <4>3. i - Len(seen) = j - Len(seen)
        BY <1>5, <2>2, <4>1, <4>2 DEF IsInjective
      <4>4. QED
        BY <4>3
    <3>5. QED
      BY <3>1, <3>2, <3>3, <3>4, <1>5
  <2>3. QED
    BY <2>1, <2>2 DEF IsInjective
<1>8. QED
  BY <1>4, <1>7

\* A share of a total leaves at least one for every other part.
LEMMA ShareLeavesOne ==
  ASSUME NEW most \in Nat, NEW total \in Nat, NEW parts \in Nat, 1 <= parts, parts <= total
  PROVE  /\ Share(most, total, parts) \in Nat
         /\ Share(most, total, parts) <= total
         /\ parts - 1 <= total - Share(most, total, parts)
<1> DEFINE q == (total + parts - 1) \div parts
<1>1. q \in Nat /\ q * parts <= total + parts - 1
  OBVIOUS
<1> HIDE DEF q
<1>2. q <= total - parts + 1
  <2> SUFFICES ASSUME q >= total - parts + 2 PROVE FALSE
    BY <1>1
  <2>1. q - 2 \in Nat /\ parts - 1 \in Nat
    BY <1>1
  <2>2. (q - 2) * (parts - 1) >= 0
    BY <2>1
  <2>3. (q - 2) * (parts - 1) = q * parts - q - 2 * parts + 2
    BY <1>1
  <2>4. QED
    BY <1>1, <2>2, <2>3
<1>3. Share(most, total, parts) = IF most < q THEN most ELSE q
  BY DEF Share, Min2, q
<1>4. QED
  BY <1>1, <1>2, <1>3

\* The option inspected next is one that was found and not tried.
LEMMA NextIsUntried ==
  ASSUME found \in Seq(Option), Range(found) \ tried # {}
  PROVE  NextOption \in Range(found) \ tried
<1> DEFINE F == Range(found)
           U == F \ tried
<1>0. IsFiniteSet(F) /\ Len(found) \in Nat /\ DOMAIN found = 1..Len(found)
  BY ElementsOf
<1>1. ASSUME NEW o \in F
      PROVE  Place(o) \in DOMAIN found /\ found[Place(o)] = o /\ Place(o) \in Nat
  <2>1. \E i \in DOMAIN found : found[i] = o
    BY DEF Range
  <2>2. Place(o) \in DOMAIN found /\ found[Place(o)] = o
    BY <2>1, Zenon DEF Place
  <2>3. QED
    BY <1>0, <2>2
<1>2. \A o, p \in F : Place(o) = Place(p) => o = p
  BY <1>1
<1>3. ASSUME NEW o \in F
      PROVE  \E p \in Siblings(o) : FirstPlace(o) = Place(p)
  <2> DEFINE T == {Place(p) : p \in Siblings(o)}
  <2>1. o \in Siblings(o) /\ Siblings(o) \subseteq F
    BY DEF Siblings
  <2>2. T \in SUBSET Nat /\ T # {}
    BY <1>1, <2>1
  <2> HIDE DEF T
  <2>3. \E i \in T : \A j \in T : i <= j
    BY <2>2, LeastNatural
  <2>4. \E i \in T : \A p \in Siblings(o) : i <= Place(p)
    BY <2>3 DEF T
  <2>5. FirstPlace(o) = CHOOSE i \in T : \A p \in Siblings(o) : i <= Place(p)
    BY DEF FirstPlace, T
  <2>6. FirstPlace(o) \in T
    BY <2>4, <2>5, Zenon
  <2>7. QED
    BY <2>6 DEF T
<1>4. ASSUME NEW o \in F
      PROVE  FirstPlace(o) \in Nat
  BY <1>1, <1>3 DEF Siblings
<1>5. ASSUME NEW o \in F
      PROVE  /\ IsFiniteSet({p \in Siblings(o) : Place(p) < Place(o)})
             /\ Depth(o) \in Nat
  <2>1. {p \in Siblings(o) : Place(p) < Place(o)} \in SUBSET F
    BY DEF Siblings
  <2>2. IsFiniteSet({p \in Siblings(o) : Place(p) < Place(o)})
    BY <1>0, <2>1, FS_Subset
  <2>3. QED
    BY <2>2, FS_CardinalityType DEF Depth
<1>6. ASSUME NEW o \in F, NEW p \in F, FirstPlace(o) = FirstPlace(p)
      PROVE  Siblings(o) = Siblings(p)
  <2>1. PICK x \in Siblings(o) : FirstPlace(o) = Place(x)
    BY <1>3
  <2>2. PICK y \in Siblings(p) : FirstPlace(p) = Place(y)
    BY <1>3
  <2>3. x = y
    BY <1>2, <1>6, <2>1, <2>2 DEF Siblings
  <2>4. Page[o] = Page[p]
    BY <2>1, <2>2, <2>3 DEF Siblings
  <2>5. QED
    BY <2>4 DEF Siblings
<1>7. ASSUME NEW o \in F, NEW p \in F, Siblings(o) = Siblings(p), Place(o) < Place(p)
      PROVE  Depth(o) # Depth(p)
  <2> DEFINE A == {x \in Siblings(o) : Place(x) < Place(o)}
             B == {x \in Siblings(p) : Place(x) < Place(p)}
  <2>1. A \in SUBSET B
    <3>1. \A x \in Siblings(o) : Place(x) \in Nat
      BY <1>1 DEF Siblings
    <3>2. \A x \in Siblings(o) : Place(x) < Place(o) => Place(x) < Place(p)
      BY <1>1, <1>7, <3>1
    <3>3. QED
      BY <1>7, <3>2
  <2>2. o \in B /\ o \notin A
    <3>1. o \in Siblings(o) /\ ~(Place(o) < Place(o))
      BY <1>1 DEF Siblings
    <3>2. QED
      BY <1>7, <3>1
  <2>3. IsFiniteSet(B) /\ A # B
    BY <1>5, <2>2
  <2>4. Depth(o) = Cardinality(A) /\ Depth(p) = Cardinality(B)
    BY DEF Depth
  <2> HIDE DEF A, B
  <2>5. QED
    BY <2>1, <2>3, <2>4, FS_Subset
<1>8. ASSUME NEW o \in F, NEW p \in F, Depth(o) = Depth(p), FirstPlace(o) = FirstPlace(p)
      PROVE  o = p
  <2>1. Siblings(o) = Siblings(p)
    BY <1>6, <1>8
  <2>2. ~(Place(o) < Place(p)) /\ ~(Place(p) < Place(o))
    BY <1>7, <1>8, <2>1
  <2>3. Place(o) = Place(p)
    BY <1>1, <2>2
  <2>4. QED
    BY <1>2, <2>3
<1>9. \E o \in U : \A p \in U : p = o \/ Sooner(o, p)
  <2> DEFINE D == {Depth(o) : o \in U}
  <2>1. D \in SUBSET Nat /\ D # {}
    BY <1>5
  <2>2. PICK d \in D : \A e \in D : d <= e
    BY <2>1, LeastNatural
  <2> DEFINE V == {o \in U : Depth(o) = d}
             W == {FirstPlace(o) : o \in V}
  <2>3. W \in SUBSET Nat /\ W # {}
    BY <1>4
  <2>4. PICK w \in W : \A e \in W : w <= e
    BY <2>3, LeastNatural
  <2>5. PICK o \in V : FirstPlace(o) = w
    OBVIOUS
  <2>6. ASSUME NEW p \in U
        PROVE  p = o \/ Sooner(o, p)
    <3>1. d <= Depth(p) /\ Depth(o) = d /\ Depth(p) \in Nat /\ d \in Nat
      BY <1>5, <2>2
    <3>2. CASE d < Depth(p)
      BY <3>1, <3>2 DEF Sooner
    <3>3. CASE d = Depth(p)
      <4>1. p \in V
        BY <3>3
      <4>2. w <= FirstPlace(p) /\ FirstPlace(p) \in Nat /\ w \in Nat
        BY <1>4, <2>3, <2>4, <4>1
      <4>3. w = FirstPlace(p) => p = o
        BY <1>8, <2>5, <3>1, <3>3
      <4>4. QED
        BY <2>5, <3>1, <3>3, <4>2, <4>3 DEF Sooner
    <3>4. QED
      BY <3>1, <3>2, <3>3
  <2>7. QED
    BY <2>6
<1>10. QED
  BY <1>9, Zenon DEF NextOption

-----------------------------------------------------------------------------
(* Sums under other names.                                                 *)

\* A sum does not depend on how its terms are named.
LEMMA SumRenamed ==
  ASSUME NEW I, NEW P, IsFiniteSet(I), IsFiniteSet(P), NEW e, NEW f, NEW k \in [I -> P],
         \A i, j \in I : k[i] = k[j] => i = j,
         \A p \in P : \E i \in I : k[i] = p,
         \A i \in I : e[i] = f[k[i]] /\ e[i] \in Nat
  PROVE  SumFunctionOnSet(e, I) = SumFunctionOnSet(f, P)
<1> DEFINE Image(J) == {k[i] : i \in J}
           Same(J) == SumFunctionOnSet(e, J) = SumFunctionOnSet(f, Image(J))
           T == {n \in Nat : \A J \in SUBSET I : Cardinality(J) = n => Same(J)}
<1>0. \A J \in SUBSET I : IsFiniteSet(J) /\ Cardinality(J) \in Nat /\ Image(J) \in SUBSET P
  BY FS_Subset, FS_CardinalityType
<1>1. \A Q \in SUBSET P : IsFiniteSet(Q) /\ \A p \in Q : f[p] \in Nat
  BY FS_Subset
<1>2. 0 \in T
  <2>1. \A J \in SUBSET I : Cardinality(J) = 0 => J = {}
    BY <1>0, FS_EmptySet
  <2>2. Image({}) = {}
    OBVIOUS
  <2>3. SumFunctionOnSet(e, {}) = 0 /\ SumFunctionOnSet(f, {}) = 0
    BY SumPeels, FS_EmptySet
  <2>4. QED
    BY <2>1, <2>2, <2>3
<1>3. ASSUME NEW n \in T PROVE n + 1 \in T
  <2>1. n \in Nat /\ n + 1 \in Nat /\ n + 1 # 0
    OBVIOUS
  <2>2. ASSUME NEW J \in SUBSET I, Cardinality(J) = n + 1
        PROVE  Same(J)
    <3>1. IsFiniteSet(J) /\ J # {}
      BY <1>0, <2>1, <2>2, FS_EmptySet
    <3>2. PICK x \in J : TRUE
      BY <3>1
    <3> DEFINE R == J \ {x}
    <3>3. Cardinality(R) = Cardinality(J) - 1
      BY <3>1, FS_RemoveElement
    <3>4. R \in SUBSET I /\ Cardinality(R) = n /\ Same(R)
      BY <2>1, <2>2, <3>3
    <3>5. Image(R) = Image(J) \ {k[x]} /\ k[x] \in Image(J)
      OBVIOUS
    <3>6. SumFunctionOnSet(e, J) = e[x] + SumFunctionOnSet(e, R)
      <4>1. \A i \in J : e[i] \in Int
        OBVIOUS
      <4>2. QED
        BY <3>1, <4>1, SumTakes
    <3>7. SumFunctionOnSet(f, Image(J)) = f[k[x]] + SumFunctionOnSet(f, Image(J) \ {k[x]})
      <4>1. Image(J) \in SUBSET P
        BY <1>0
      <4>2. IsFiniteSet(Image(J)) /\ \A p \in Image(J) : f[p] \in Int
        BY <1>1, <4>1
      <4> HIDE DEF Image
      <4>3. QED
        BY <3>5, <4>2, SumTakes
    <3>8. e[x] = f[k[x]]
      OBVIOUS
    <3>9. QED
      BY <3>4, <3>5, <3>6, <3>7, <3>8
  <2>3. QED
    BY <2>1, <2>2
<1>4. T = Nat
  <2> HIDE DEF T
  <2> QED BY <1>2, <1>3, SetInduction DEF T
<1>5. I \in SUBSET I /\ Cardinality(I) \in T
  BY <1>0, <1>4
<1>6. Image(I) = P
  OBVIOUS
<1>7. Same(I)
  BY <1>5
<1>8. QED
  BY <1>6, <1>7

-----------------------------------------------------------------------------
(* Comparisons.                                                            *)

\* A reading is unknown or one number.
LEMMA ReadingType ==
  ASSUME NEW d \in Details, NEW x \in Axes
  PROVE  Reading(d, x.field) # Unknown => \E v \in Int : Reading(d, x.field) = {v}
<1> DEFINE o == d.fields[x.field]
<1>1. CASE x.field \in Capacities
  <2> DEFINE rows == o.rows
             alone == {i \in DOMAIN rows : rows[i].kind = "standalone"}
             last == CHOOSE i \in alone : \A j \in alone : j <= i
             row == rows[last]
  <2>1. rows \in Seq(Row)
    BY <1>1, DetailAssumption
  <2>2. Reading(d, x.field) = CapacityReading(o)
    BY <1>1 DEF Reading
  <2> SUFFICES ASSUME CapacityReading(o) # Unknown
               PROVE  \E v \in Int : CapacityReading(o) = {v}
    BY <2>2
  <2>3. alone # {}
    BY DEF CapacityReading
  <2>4. \E i \in alone : \A j \in alone : j <= i
    <3> DEFINE n == Len(rows)
               T == {n - i : i \in alone}
    <3>1. n \in Nat /\ DOMAIN rows = 1..n
      BY <2>1
    <3> HIDE DEF n, rows
    <3>2. \A i \in alone : i \in 1..n
      BY <3>1
    <3> HIDE DEF alone
    <3>3. T \in SUBSET Nat /\ T # {}
      BY <2>3, <3>1, <3>2
    <3>4. PICK t \in T : \A u \in T : t <= u
      BY <3>3, LeastNatural
    <3>5. PICK i \in alone : t = n - i
      OBVIOUS
    <3>6. \A j \in alone : n - i <= n - j
      BY <3>4, <3>5
    <3>7. \A j \in alone : j <= i
      BY <3>1, <3>2, <3>6
    <3>8. QED
      BY <3>7
  <2>5. last \in alone
    <3> HIDE DEF alone
    <3> QED BY <2>4, Zenon
  <2>6. row \in Row
    <3>1. last \in DOMAIN rows
      BY <2>5
    <3> HIDE DEF last, rows
    <3>2. QED
      BY <2>1, <3>1
  <2>7. row.amount \in Int /\ row.amount \div 1000 \in Int
    <3> HIDE DEF row
    <3>1. row.amount \in Nat
      BY <2>6 DEF Row
    <3>2. QED
      BY <3>1
  <2>8. CapacityReading(o) = CASE row.unit = "TB" -> Known(row.amount)
                               [] row.unit = "GB" /\ row.amount % 1000 = 0 -> Known(row.amount \div 1000)
                               [] OTHER -> Unknown
    BY DEF CapacityReading
  <2>9. QED
    <3> HIDE DEF row
    <3> QED BY <2>7, <2>8 DEF Known
<1>2. CASE x.field \notin Capacities
  <2> DEFINE stated == o.card \cup o.detail
  <2>1. /\ o.card \in SUBSET Int /\ IsFiniteSet(o.card)
        /\ o.detail \in SUBSET Int /\ IsFiniteSet(o.detail)
    BY <1>2, DetailAssumption
  <2>2. stated \in SUBSET Int /\ IsFiniteSet(stated)
    BY <2>1, FS_Union
  <2>3. Reading(d, x.field) = IF o.sound /\ Cardinality(stated) = 1 THEN stated ELSE Unknown
    BY <1>2 DEF Reading, ScalarReading
  <2> HIDE DEF stated
  <2>4. Cardinality(stated) = 1 => \E v : stated = {v}
    BY <2>2, FS_Singleton
  <2>5. QED
    BY <2>2, <2>3, <2>4
<1>3. QED
  BY <1>1, <1>2

\* What it means that a product is dominated by another.
Worse(d, e) ==
    /\ Axes # {} /\ \A x \in Axes : Comparable(d, e, x)
    /\ \E x \in Axes : Better(e, d, x)
    /\ \A x \in Axes : ~Better(d, e, x)

\* One product dominates another exactly where the other is dominated.
LEMMA RelationIs ==
  ASSUME NEW d, NEW e
  PROVE  /\ Relation(d, e, Axes) = "dominated" <=> Worse(d, e)
         /\ Relation(d, e, Axes) = "dominates" <=> Worse(e, d)
<1>1. \A x \in Axes : Comparable(d, e, x) <=> Comparable(e, d, x)
  BY DEF Comparable
<1> DEFINE unlike == \E x \in Axes : ~Comparable(d, e, x)
           better == \E x \in Axes : Better(d, e, x)
           worse == \E x \in Axes : Better(e, d, x)
<1>2. Relation(d, e, Axes) = IF Axes = {} THEN "not_requested"
                             ELSE IF unlike THEN "unknown"
                             ELSE IF better /\ worse THEN "tradeoff"
                             ELSE IF better THEN "dominates"
                             ELSE IF worse THEN "dominated"
                             ELSE "equal"
  BY DEF Relation
<1>3. Worse(d, e) <=> Axes # {} /\ ~unlike /\ worse /\ ~better
  BY DEF Worse
<1>4. Worse(e, d) <=> Axes # {} /\ ~unlike /\ better /\ ~worse
  BY <1>1 DEF Worse
<1>5. QED
  <2> HIDE DEF unlike, better, worse
  <2> QED BY <1>2, <1>3, <1>4

\* Dominance is a strict partial order: it follows from one to the next, and
\* never comes back.
LEMMA WorseIsOrder ==
  ASSUME NEW a \in Details, NEW b \in Details, NEW c \in Details
  PROVE  ~Worse(a, a) /\ (Worse(a, b) /\ Worse(b, c) => Worse(a, c))
<1>1. ~Worse(a, a)
  BY DEF Worse
<1>2. ASSUME Worse(a, b), Worse(b, c) PROVE Worse(a, c)
  <2>1. \A x \in Axes : Comparable(a, b, x) /\ Comparable(b, c, x)
    BY <1>2 DEF Worse
  <2>2. \A x \in Axes : Comparable(a, c, x)
    BY <2>1 DEF Comparable
  <2>3. ASSUME NEW x \in Axes
        PROVE  /\ ~Better(a, c, x)
               /\ Better(b, a, x) => Better(c, a, x)
    <3>1. /\ Reading(a, x.field) # Unknown /\ Reading(b, x.field) # Unknown
          /\ Reading(c, x.field) # Unknown
      BY <2>1 DEF Comparable
    <3>2. PICK u \in Int : Reading(a, x.field) = {u}
      BY <3>1, ReadingType
    <3>3. PICK v \in Int : Reading(b, x.field) = {v}
      BY <3>1, ReadingType
    <3>4. PICK w \in Int : Reading(c, x.field) = {w}
      BY <3>1, ReadingType
    <3>5. ~Better(a, b, x) /\ ~Better(b, c, x)
      BY <1>2 DEF Worse
    <3>6. QED
      BY <3>2, <3>3, <3>4, <3>5 DEF Better
  <2>4. QED
    BY <1>2, <2>2, <2>3 DEF Worse
<1>3. QED
  BY <1>1, <1>2

\* Of finitely many, one that is below another is below one that is not.
StrictOrder(R, C) ==
    /\ \A i \in C : <<i, i>> \notin R
    /\ \A i, j, k \in C : <<i, j>> \in R /\ <<j, k>> \in R => <<i, k>> \in R
Below(R, C, i) == \E j \in C : <<i, j>> \in R

\* In a finite strict order, what is below something is below a top.
LEMMA TopsExist ==
  ASSUME NEW C, IsFiniteSet(C), NEW R, StrictOrder(R, C), NEW i \in C, Below(R, C, i)
  PROVE  \E j \in C : <<i, j>> \in R /\ ~Below(R, C, j)
<1> DEFINE above(x) == {y \in C : <<x, y>> \in R}
           T == {Cardinality(above(y)) : y \in above(i)}
<1>1. \A x \in C : IsFiniteSet(above(x)) /\ Cardinality(above(x)) \in Nat
  <2> SUFFICES ASSUME NEW x \in C
               PROVE  IsFiniteSet(above(x)) /\ Cardinality(above(x)) \in Nat
    OBVIOUS
  <2>1. above(x) \in SUBSET C
    OBVIOUS
  <2> HIDE DEF above
  <2>2. QED
    BY <2>1, FS_Subset, FS_CardinalityType
<1>2. T \in SUBSET Nat /\ T # {}
  <2>1. \A y \in above(i) : y \in C
    OBVIOUS
  <2>2. above(i) # {}
    BY DEF Below
  <2> HIDE DEF above
  <2>3. QED
    BY <1>1, <2>1, <2>2
<1>3. PICK t \in T : \A u \in T : t <= u
  <2> HIDE DEF T
  <2> QED BY <1>2, LeastNatural
<1>4. PICK j \in above(i) : t = Cardinality(above(j))
  OBVIOUS
<1>5. ASSUME NEW k \in C, <<j, k>> \in R PROVE FALSE
  <2>1. k \in above(i) /\ k \in above(j) /\ k \notin above(k)
    BY <1>5 DEF StrictOrder
  <2>2. above(k) \in SUBSET above(j) /\ above(k) # above(j)
    BY <1>5, <2>1 DEF StrictOrder
  <2>3. t <= Cardinality(above(k))
    <3>1. k \in above(i)
      BY <2>1
    <3>2. Cardinality(above(k)) \in T
      <4> HIDE DEF above
      <4> QED BY <3>1
    <3>3. QED
      BY <1>3, <3>2
  <2>4. j \in C /\ k \in C
    BY <1>4
  <2> HIDE DEF above
  <2>5. Cardinality(above(k)) <= t /\ Cardinality(above(k)) # t
    BY <1>1, <1>4, <2>2, <2>4, FS_Subset
  <2>6. QED
    BY <1>1, <1>4, <2>3, <2>4, <2>5
<1>6. QED
  BY <1>4, <1>5 DEF Below

-----------------------------------------------------------------------------
(* The inductive invariant.                                                *)

Before == {"start", "refine", "research"}
After == {"inspect", "purchases", "conclude"}
Stages == Before \cup After \cup {"discover", "done", "failed"}
SourceStops == Denials \cup {"", "source_category_changed", "source_filter_unverified"}
Inspection == [option : Option, detail : Details, omitted : BOOLEAN]
Uninspected == Range(found) \ tried
InspectedOptions == {inspected[i].option : i \in DOMAIN inspected}

\* Every variable but the result has its type, and no option is found twice.
Typed ==
    /\ stage \in Stages /\ req \in Requests
    /\ expired \in BOOLEAN /\ incomplete \in BOOLEAN /\ failed \in BOOLEAN /\ limited \in BOOLEAN
    /\ choices \in Seq(STRING) /\ selections \in Seq(STRING) /\ trail \in Nat
    /\ initial \in Answers \cup {NoAnswer}
    /\ reserved \in Nat /\ left \in Nat /\ reviewsLeft \in Nat /\ examined \in Nat
    /\ round \in Nat /\ todo \in Seq(Range(Sorts)) /\ active \in [Range(Sorts) -> BOOLEAN]
    /\ found \in Seq(Option) /\ IsInjective(found)
    /\ inspected \in Seq(Inspection)
    /\ counts \in [Pages -> SUBSET Nat]
    /\ exhausted \in SUBSET Range(Sorts)

\* Until research begins nothing was found, and only a call that returned has a result.
Pristine ==
    /\ stage \in Before =>
          /\ stop = "" /\ ~incomplete /\ ~limited /\ round = 1 /\ todo = <<>> /\ found = <<>>
          /\ exhausted = {}
    /\ stage \in Before \cup {"discover"} =>
          /\ tried = {} /\ inspected = <<>> /\ examined = 0
    /\ stage # "done" => outcome = NoResult /\ searched = <<>>

\* Documents and reviews are spent within the allowances, and while inspection
\* goes on there is an option, a document and a review for each read left.
Spent ==
    /\ reserved <= DocumentBudget
    /\ examined + reviewsLeft = req.reviewCap
    /\ stage = "inspect" =>
          /\ left <= DocumentBudget - reserved
          /\ left <= reviewsLeft
          /\ left <= Cardinality(Uninspected)

\* Why the source was left: nothing is left to search then, and a result names it.
Stopped ==
    /\ stage \in {"discover"} \cup After => stop \in SourceStops
    /\ stage = "discover" /\ todo # <<>> => stop = ""
    /\ stage \in {"purchases", "conclude"} /\ stop # "" => inspectionStop = stop

\* While orders are searched: one that is neither active nor exhausted is still
\* to be searched in the first round, unless something went wrong.
Searching ==
    /\ stage = "refine" => failed = initial.rejected
    /\ stage = "research" => expired
    /\ stage = "discover" =>
          /\ failed => incomplete \/ expired
          /\ \A s \in Range(Sorts) :
                \/ active[s] \/ s \in exhausted
                \/ round = 1 /\ s \in Range(todo)
                \/ incomplete \/ stop # "" \/ expired \/ limited

\* What is not incomplete has seen everything: the orders exhausted, no failure,
\* and every option found inspected, or queued for it, with a verdict.
Earning ==
    stage \in After /\ ~incomplete =>
        /\ exhausted = Range(Sorts) /\ ~failed
        /\ tried \subseteq InspectedOptions
        /\ \A i \in DOMAIN inspected : Unverified(Detail(i), Conditions) = {}
        /\ IF stage = "inspect" THEN Cardinality(Uninspected) <= left ELSE Uninspected = {}
        /\ stage = "conclude" /\ req.purchases => purchases = "available"

\* The count of a page is the one all its inspected options agree on.
Counted ==
    \A i \in DOMAIN inspected :
        LET count == counts[Page[inspected[i].option]]
        IN  count # Unknown => count = UsableCount(Detail(i))

IInv == Typed /\ Pristine /\ Spent /\ Stopped /\ Searching /\ Earning /\ Counted

-----------------------------------------------------------------------------
(* What a conclusion and an explicit search say.                           *)

\* Everything dropped was dropped for something kept, so that dropping leaves
\* somebody.
LEMMA DroppedForKept ==
  ASSUME inspected \in Seq(Inspection)
  PROVE  /\ \A i \in Candidates \ Retained : \E j \in Retained :
                Relation(Detail(j), Detail(i), Axes) = "dominates"
         /\ Retained = {} => Candidates = {}
<1> DEFINE R == {p \in Candidates \X Candidates : Worse(Detail(p[1]), Detail(p[2]))}
<1>1. IsFiniteSet(Candidates)
  <2>1. Candidates \in SUBSET (1..Len(inspected)) /\ Len(inspected) \in Nat
    BY DEF Candidates
  <2>2. IsFiniteSet(1..Len(inspected))
    BY <2>1, FS_Interval
  <2>3. QED
    BY <2>1, <2>2, FS_Subset
<1>2. \A i \in Candidates : Detail(i) \in Details
  <2>1. \A i \in Candidates : inspected[i] \in Inspection
    BY DEF Candidates
  <2>2. QED
    BY <2>1 DEF Detail, Inspection
<1>3. \A i, j \in Candidates : <<i, j>> \in R <=> Worse(Detail(i), Detail(j))
  OBVIOUS
<1>5. \A i \in Candidates : <<i, i>> \notin R
  BY <1>2, <1>3, WorseIsOrder
<1>6. \A i, j, k \in Candidates : <<i, j>> \in R /\ <<j, k>> \in R => <<i, k>> \in R
  BY <1>2, <1>3, WorseIsOrder
<1>7. StrictOrder(R, Candidates)
  BY <1>5, <1>6 DEF StrictOrder
<1>8. ASSUME NEW i \in Candidates
      PROVE  Dominated(i) <=> Below(R, Candidates, i)
  <2>1. \A j \in Candidates : Relation(Detail(i), Detail(j), Axes) = "dominated" <=> <<i, j>> \in R
    BY <1>3, RelationIs
  <2>2. Dominated(i) <=> \E j \in Candidates \ {i} : <<i, j>> \in R
    BY <2>1 DEF Dominated
  <2> HIDE DEF R
  <2>3. QED
    BY <1>5, <2>2 DEF Below
<1> HIDE DEF R
<1>9. ASSUME NEW i \in Candidates \ Retained
      PROVE  \E j \in Retained : Relation(Detail(j), Detail(i), Axes) = "dominates"
  <2>1. i \in Candidates /\ Below(R, Candidates, i)
    BY <1>8 DEF Retained
  <2>2. PICK j \in Candidates : <<i, j>> \in R /\ ~Below(R, Candidates, j)
    BY <1>1, <1>7, <2>1, TopsExist
  <2>3. j \in Retained
    BY <1>8, <2>2 DEF Retained
  <2>4. Worse(Detail(i), Detail(j))
    BY <1>3, <2>1, <2>2
  <2>5. QED
    BY <2>3, <2>4, RelationIs
<1>10. QED
  BY <1>9 DEF Retained

\* The review total has the count of every page once, and is known only if all
\* options of a page agree on it.
LEMMA ReviewsAddUp ==
  ASSUME Typed, Counted, NEW n \in ReviewTotal
  PROVE  /\ \A i, j \in DOMAIN inspected :
               Page[inspected[i].option] = Page[inspected[j].option] =>
                   UsableCount(Detail(i)) = UsableCount(Detail(j)) /\ UsableCount(Detail(i)) # Unknown
         /\ n = SumFunctionOnSet([i \in DOMAIN inspected |-> Value(Detail(i).reviewCount)],
                   {i \in DOMAIN inspected :
                       \A j \in 1..i - 1 : Page[inspected[j].option] # Page[inspected[i].option]})
<1> DEFINE page(i) == Page[inspected[i].option]
           known == [p \in InspectedPages |-> Value(counts[p])]
           stated == [i \in DOMAIN inspected |-> Value(Detail(i).reviewCount)]
           leads == {i \in DOMAIN inspected :
                       \A j \in 1..i - 1 : Page[inspected[j].option] # Page[inspected[i].option]}
<1>0. /\ Len(inspected) \in Nat /\ DOMAIN inspected = 1..Len(inspected)
      /\ \A i \in DOMAIN inspected : inspected[i] \in Inspection
  BY DEF Typed
<1>1. /\ \A p \in InspectedPages : counts[p] # Unknown
      /\ n = SumFunctionOnSet(known, InspectedPages)
  <2> HIDE DEF known
  <2>1. ReviewTotal = IF InspectedPages = {} \/ \E p \in InspectedPages : counts[p] = Unknown
                      THEN Unknown ELSE Known(SumFunctionOnSet(known, InspectedPages))
    BY DEF ReviewTotal, known
  <2>2. ReviewTotal # Unknown
    BY DEF Unknown
  <2>3. QED
    BY <2>1, <2>2 DEF Known
<1>2. \A i \in DOMAIN inspected : page(i) \in InspectedPages
  BY DEF InspectedPages
<1>3. \A i \in DOMAIN inspected : counts[page(i)] = UsableCount(Detail(i))
  BY <1>1, <1>2 DEF Counted
<1>4. \A i, j \in DOMAIN inspected :
          page(i) = page(j) => /\ UsableCount(Detail(i)) = UsableCount(Detail(j))
                               /\ UsableCount(Detail(i)) # Unknown
  BY <1>1, <1>2, <1>3
<1>5. \A i \in DOMAIN inspected : /\ stated[i] = known[page(i)]
                                  /\ stated[i] \in Nat
  <2> SUFFICES ASSUME NEW i \in DOMAIN inspected
               PROVE  stated[i] = known[page(i)] /\ stated[i] \in Nat
    OBVIOUS
  <2>1. counts[page(i)] = UsableCount(Detail(i)) /\ UsableCount(Detail(i)) # Unknown
    BY <1>3, <1>4
  <2>2. UsableCount(Detail(i)) = Detail(i).reviewCount
    BY <2>1 DEF UsableCount
  <2>3. Detail(i).reviewCount \in SUBSET Nat
    BY <1>0, DetailAssumption DEF Detail, Inspection
  <2>4. Value(Detail(i).reviewCount) \in Detail(i).reviewCount
    BY <2>1, <2>2 DEF Value, Unknown
  <2>5. known[page(i)] = Value(counts[page(i)]) /\ stated[i] = Value(Detail(i).reviewCount)
    BY <1>2
  <2>6. QED
    BY <2>1, <2>2, <2>3, <2>4, <2>5
<1>6. IsFiniteSet(DOMAIN inspected) /\ IsFiniteSet(leads) /\ leads \in SUBSET DOMAIN inspected
  <2>1. IsFiniteSet(DOMAIN inspected)
    BY <1>0, FS_Interval
  <2>2. leads \in SUBSET DOMAIN inspected
    OBVIOUS
  <2> HIDE DEF leads
  <2>3. QED
    BY <2>1, <2>2, FS_Subset
<1> DEFINE named == [i \in leads |-> page(i)]
<1>7. named \in [leads -> InspectedPages]
  BY <1>2, <1>6
<1>8. \A i, j \in leads : named[i] = named[j] => i = j
  <2> SUFFICES ASSUME NEW i \in leads, NEW j \in leads, i < j
               PROVE  page(i) # page(j)
    BY <1>0, <1>6
  <2>1. i \in 1..j - 1
    BY <1>0
  <2>2. QED
    BY <2>1
<1>9. \A p \in InspectedPages : \E i \in leads : named[i] = p
  <2> SUFFICES ASSUME NEW p \in InspectedPages
               PROVE  \E i \in leads : page(i) = p
    OBVIOUS
  <2> DEFINE T == {i \in DOMAIN inspected : page(i) = p}
  <2>1. T \in SUBSET Nat /\ T # {}
    BY <1>0 DEF InspectedPages
  <2>2. PICK i \in T : \A j \in T : i <= j
    <3> HIDE DEF T
    <3> QED BY <2>1, LeastNatural
  <2>3. \A j \in 1..i - 1 : j \in DOMAIN inspected /\ ~(i <= j)
    BY <1>0
  <2>4. \A j \in 1..i - 1 : page(j) # page(i)
    BY <2>2, <2>3
  <2>5. QED
    BY <2>2, <2>4
<1>10. IsFiniteSet(InspectedPages)
  <2>1. named \in Surjection(leads, InspectedPages)
    <3> HIDE DEF named, leads
    <3> QED BY <1>7, <1>9 DEF Surjection
  <2> HIDE DEF named, leads
  <2>2. QED
    BY <1>6, <2>1, FS_Surjection
<1>11. \A i \in leads : stated[i] = known[named[i]] /\ stated[i] \in Nat
  BY <1>5, <1>6
<1>12. SumFunctionOnSet(stated, leads) = SumFunctionOnSet(known, InspectedPages)
  <2> HIDE DEF stated, known, leads, named
  <2> QED BY <1>6, <1>7, <1>8, <1>9, <1>10, <1>11, SumRenamed
<1>13. QED
  BY <1>1, <1>4, <1>12

\* What an explicit search shows counts every card that satisfies its filters.
LEMMA ListingIsHonest ==
  ASSUME NEW answer \in Shelves, NEW wish \in Wishes, NEW linked,
         Listing(answer, wish, linked).unavailable = {},
         Len(Listing(answer, wish, linked).items) < wish.limit,
         ~wish.variants,
         \A f \in wish.filters : f.field \notin Guessed
  PROVE  LET shown == Listing(answer, wish, linked).items
         IN  SumFunctionOnSet([i \in DOMAIN shown |-> shown[i].variants], DOMAIN shown)
                = Cardinality({i \in DOMAIN answer.items : \A f \in wish.filters :
                      answer.items[i].fields[f.field] # {} => Satisfies(answer.items[i], f)})
<1> DEFINE cards == answer.items
           pass == {i \in DOMAIN cards : \A f \in wish.filters :
                       Satisfies(cards[i], f) \/ (f.field = "used" /\ cards[i].fields.used = {})}
           sorted == Sorted(At(cards, pass), wish.order)
           first == Leaders(sorted)
           kept == At(sorted, first)
           size(k) == Cardinality(Variants(sorted, kept[k].page))
           all == [k \in DOMAIN kept |-> [card |-> kept[k], variants |-> size(k)]]
           cut == IF Len(all) < wish.limit THEN Len(all) ELSE wish.limit
           m == Cardinality(first)
           n == Cardinality(pass)
<1>1. {i \in DOMAIN cards : \A f \in wish.filters :
          cards[i].fields[f.field] # {} => Satisfies(cards[i], f)} = pass
  <2>1. ASSUME NEW f \in wish.filters, NEW i \in DOMAIN cards
        PROVE  cards[i].fields[f.field] # {} /\ f.field # "used"
    <3>1. f.field \notin UnavailableFields(cards, wish.filters)
      BY DEF Listing
    <3>2. QED
      BY <3>1 DEF UnavailableFields, Guessed
  <2>2. QED
    BY <2>1
<1>2. Listing(answer, wish, linked).items = SubSeq(all, 1, cut)
  BY DEF Listing, Filtered, Collapsed
<1>3. cards \in Seq(Range(cards)) /\ pass \in SUBSET DOMAIN cards /\ wish.limit \in Nat
  BY SourceAssumption
<1> HIDE DEF cards, pass
<1>4. DOMAIN At(cards, pass) = 1..n /\ At(cards, pass) \in Seq(Range(cards)) /\ n \in Nat
  BY <1>3, ElementsAt
<1>5. DOMAIN sorted = 1..n /\ sorted \in Seq(Range(sorted))
  <2> DEFINE c == At(cards, pass)
             places == SortSeq([i \in DOMAIN c |-> i], LAMBDA i, j : Precedes(wish.order, c, i, j))
  <2>1. CASE wish.order \notin LocalOrders
    <3>1. sorted = c
      BY <2>1 DEF Sorted
    <3> HIDE DEF c, sorted
    <3>2. sorted \in [1..n -> Range(sorted)] /\ DOMAIN sorted = 1..n
      BY <1>4, <3>1 DEF Range, c
    <3>3. QED
      BY <1>4, <3>2
  <2>2. CASE wish.order \in LocalOrders
    <3>1. sorted = [i \in 1..n |-> c[places[i]]]
      BY <1>4, <2>2 DEF Sorted
    <3> HIDE DEF c, sorted, places
    <3>2. sorted \in [1..n -> Range(sorted)] /\ DOMAIN sorted = 1..n
      BY <3>1 DEF Range
    <3>3. QED
      BY <1>4, <3>2
  <2>3. QED
    BY <2>1, <2>2
<1> HIDE DEF sorted, n
<1>6. first \in SUBSET DOMAIN sorted
  BY DEF Leaders
<1>7. \A i, j \in first : sorted[i].page = sorted[j].page => i = j
  <2> SUFFICES ASSUME NEW i \in first, NEW j \in first, sorted[i].page = sorted[j].page
               PROVE  i = j
    OBVIOUS
  <2>1. /\ j \in Variants(sorted, sorted[i].page) /\ i \in Variants(sorted, sorted[j].page)
    BY <1>6 DEF Variants
  <2>2. i <= j /\ j <= i /\ i \in Int /\ j \in Int
    BY <1>4, <1>5, <1>6, <2>1 DEF Leaders
  <2>3. QED
    BY <2>2
<1>8. ASSUME NEW i \in DOMAIN sorted
      PROVE  \E j \in first : sorted[j].page = sorted[i].page
  <2> DEFINE V == Variants(sorted, sorted[i].page)
  <2>1. V \in SUBSET Nat /\ V # {}
    BY <1>4, <1>5 DEF Variants
  <2>2. PICK j \in V : \A l \in V : j <= l
    <3> HIDE DEF V
    <3> QED BY <2>1, LeastNatural
  <2>3. j \in DOMAIN sorted /\ sorted[j].page = sorted[i].page
    BY DEF Variants
  <2>4. j \in first
    BY <2>2, <2>3 DEF Leaders
  <2>5. QED
    BY <2>3, <2>4
<1> HIDE DEF first
<1>9. /\ IsFiniteSet(first) /\ m \in Nat
      /\ kept \in Seq(Range(sorted)) /\ DOMAIN kept = 1..m
      /\ \A k \in 1..m : Nth(first, k) \in first /\ kept[k] = sorted[Nth(first, k)]
  <2> DEFINE S == Range(sorted)
  <2>1. sorted \in Seq(S) /\ first \in SUBSET DOMAIN sorted
    BY <1>5, <1>6
  <2> HIDE DEF S
  <2>2. /\ IsFiniteSet(first) /\ Cardinality(first) \in Nat
        /\ At(sorted, first) \in Seq(S) /\ DOMAIN At(sorted, first) = 1..Cardinality(first)
        /\ \A k \in 1..Cardinality(first) :
              Nth(first, k) \in first /\ At(sorted, first)[k] = sorted[Nth(first, k)]
    BY <2>1, ElementsAt
  <2>3. QED
    BY <2>2 DEF S
<1>10. /\ \A i \in first : \E k \in 1..m : Nth(first, k) = i
       /\ \A k, l \in 1..m : Nth(first, k) = Nth(first, l) => k = l
  <2>1. first \in SUBSET Int
    BY <1>4, <1>5, <1>6
  <2>2. QED
    BY <1>9, <2>1, PlacesInOrder
<1> HIDE DEF kept, m
<1>11. /\ all \in Seq(Range(all)) /\ DOMAIN all = 1..m /\ Len(all) = m
       /\ \A k \in 1..m : all[k].variants = size(k)
  <2>1. all = [k \in 1..m |-> [card |-> kept[k], variants |-> size(k)]]
    BY <1>9
  <2> HIDE DEF all, size
  <2>2. all \in [1..m -> Range(all)]
    BY <2>1 DEF Range
  <2>3. QED
    BY <1>9, <2>1, <2>2
<1> HIDE DEF all
<1>12. Listing(answer, wish, linked).items = all
  <2>1. cut \in Nat /\ cut <= Len(all)
    BY <1>3, <1>9, <1>11
  <2>2. Len(SubSeq(all, 1, cut)) = cut
    <3> HIDE DEF cut
    <3> QED BY <1>9, <1>11, <2>1
  <2>3. cut = Len(all)
    BY <1>2, <1>3, <1>9, <1>11, <2>2
  <2>4. SubSeq(all, 1, Len(all)) = all
    BY <1>9, <1>11
  <2>5. QED
    BY <1>2, <2>3, <2>4
<1> DEFINE A == [k \in 1..m |-> Variants(sorted, kept[k].page)]
           f == [k \in 1..m |-> all[k].variants]
<1>13. \A k \in 1..m : A[k] \in SUBSET DOMAIN sorted /\ kept[k].page = sorted[Nth(first, k)].page
  BY <1>9 DEF Variants
<1>14. IsFiniteSet(DOMAIN sorted) /\ Cardinality(DOMAIN sorted) = n /\ IsFiniteSet(1..m)
  BY <1>4, <1>5, <1>9, FS_Interval
<1>15. \A k \in 1..m : IsFiniteSet(A[k]) /\ f[k] = Cardinality(A[k])
  <2>1. \A k \in 1..m : IsFiniteSet(A[k])
    <3> HIDE DEF A
    <3> QED BY <1>13, <1>14, FS_Subset
  <2>2. QED
    BY <1>11, <2>1
<1>16. \A k, l \in 1..m : k # l => A[k] \cap A[l] = {}
  <2> SUFFICES ASSUME NEW k \in 1..m, NEW l \in 1..m, NEW i \in A[k], i \in A[l]
               PROVE  k = l
    OBVIOUS
  <2>1. kept[k].page = kept[l].page
    BY DEF Variants
  <2>2. Nth(first, k) = Nth(first, l)
    BY <1>7, <1>9, <1>13, <2>1
  <2>3. QED
    BY <1>10, <2>2
<1>17. Together(A, 1..m) = DOMAIN sorted
  <2>1. ASSUME NEW i \in DOMAIN sorted
        PROVE  \E k \in 1..m : i \in A[k]
    <3>1. PICK j \in first : sorted[j].page = sorted[i].page
      BY <1>8
    <3>2. PICK k \in 1..m : Nth(first, k) = j
      BY <1>10
    <3>3. i \in A[k]
      BY <1>13, <3>1, <3>2 DEF Variants
    <3>4. QED
      BY <3>3
  <2> HIDE DEF A
  <2>2. QED
    BY <1>13, <2>1 DEF Together
<1>18. SumFunctionOnSet(f, 1..m) = n
  <2>1. SumFunctionOnSet(f, 1..m) = Cardinality(Together(A, 1..m))
    <3> HIDE DEF f, A
    <3> DEFINE S == 1..m
    <3>1. /\ IsFiniteSet(S) /\ Disjoint(A, S)
          /\ \A x \in S : IsFiniteSet(A[x]) /\ f[x] = Cardinality(A[x])
      BY <1>14, <1>15, <1>16 DEF Disjoint
    <3> HIDE DEF S
    <3>2. SumFunctionOnSet(f, S) = Cardinality(Together(A, S))
      BY <3>1, SizesAddUp
    <3>3. QED
      BY <3>2 DEF S
  <2> HIDE DEF f, A
  <2>2. QED
    BY <1>14, <1>17, <2>1
<1>19. SumFunctionOnSet([i \in DOMAIN all |-> all[i].variants], DOMAIN all) = n
  BY <1>11, <1>18
<1>20. QED
  BY <1>1, <1>12, <1>19 DEF cards, n

-----------------------------------------------------------------------------
(* The invariant holds at first and through refinement.                    *)

\* Answers of the source have their types, failed ones as well.
LEMMA AnswerType ==
  ASSUME NEW a \in Answers \cup {NoAnswer}
  PROVE  /\ a.items \in Seq(Option) /\ a.none \in BOOLEAN /\ a.rejected \in BOOLEAN
         /\ a.moved \in BOOLEAN
<1>1. CASE a \in Answers
  BY <1>1, SourceAssumption
<1>2. CASE a = NoAnswer
  <2>1. a.items = <<>> /\ a.none = FALSE /\ a.rejected = FALSE /\ a.moved = FALSE
    BY <1>2 DEF NoAnswer
  <2>2. <<>> \in Seq(Option)
    OBVIOUS
  <2>3. QED
    BY <2>1, <2>2
<1>3. QED
  BY <1>1, <1>2

\* What a search answers, in every case, has its types.
LEMMA ReplyType ==
  ASSUME NEW chosen, NEW reply \in Replies(chosen)
  PROVE  /\ reply.error \in Errors \cup {""}
         /\ reply.answer \in Answers \cup {NoAnswer}
         /\ reply.answer.items \in Seq(Option) /\ reply.answer.none \in BOOLEAN
         /\ reply.answer.rejected \in BOOLEAN /\ reply.answer.moved \in BOOLEAN
<1>1. reply.error \in Errors \cup {""} /\ reply.answer \in Answers \cup {NoAnswer}
  <2>1. \/ \E e \in Errors : reply = [error |-> e, answer |-> NoAnswer]
        \/ \E a \in Answers : reply = [error |-> "", answer |-> a]
    BY DEF Replies
  <2>2. CASE \E e \in Errors : reply = [error |-> e, answer |-> NoAnswer]
    <3>1. PICK e \in Errors : reply = [error |-> e, answer |-> NoAnswer]
      BY <2>2
    <3>2. reply.error = e /\ reply.answer = NoAnswer
      BY <3>1
    <3>3. QED
      BY <3>2
  <2>3. CASE \E a \in Answers : reply = [error |-> "", answer |-> a]
    <3>1. PICK a \in Answers : reply = [error |-> "", answer |-> a]
      BY <2>3
    <3>2. reply.error = "" /\ reply.answer = a
      BY <3>1
    <3>3. QED
      BY <3>2
  <2>4. QED
    BY <2>1, <2>2, <2>3
<1>2. QED
  BY <1>1, AnswerType

\* The ranking order is searched first, and the others wait.
LEMMA RankingType == Ranking \in Range(Sorts) /\ Tail(Sorts) \in Seq(Range(Sorts))
                     /\ \A s \in Range(Sorts) : s = Ranking \/ s \in Range(Tail(Sorts))
<1>1. Sorts \in Seq(Range(Sorts)) /\ Sorts # <<>> /\ Len(Sorts) \in Nat /\ DOMAIN Sorts = 1..Len(Sorts)
  BY SourceAssumption
<1>2. Ranking \in Range(Sorts) /\ Tail(Sorts) \in Seq(Range(Sorts))
  <2>1. Ranking = Sorts[1] /\ 1 \in DOMAIN Sorts
    BY <1>1 DEF Ranking
  <2>2. QED
    BY <1>1, <2>1 DEF Range
<1>3. ASSUME NEW s \in Range(Sorts), s # Ranking PROVE s \in Range(Tail(Sorts))
  <2>1. PICK i \in 1..Len(Sorts) : s = Sorts[i]
    BY <1>1 DEF Range
  <2>2. i # 1
    BY <1>1, <1>3, <2>1 DEF Ranking
  <2>3. i - 1 \in DOMAIN Tail(Sorts) /\ Tail(Sorts)[i - 1] = Sorts[i]
    BY <1>1, <2>1, <2>2
  <2>4. QED
    BY <2>1, <2>3 DEF Range
<1>4. QED
  BY <1>2, <1>3

\* An order is searched first in a queue, or it waits in the rest of it.
LEMMA QueueSplits ==
  ASSUME NEW S, NEW s \in Seq(S), s # <<>>
  PROVE  /\ Head(s) \in S /\ Head(s) \in Range(s) /\ Tail(s) \in Seq(S)
         /\ \A x \in Range(s) : x = Head(s) \/ x \in Range(Tail(s))
<1>1. /\ Len(s) \in Nat \ {0} /\ DOMAIN s = 1..Len(s) /\ Head(s) = s[1]
      /\ 1 \in DOMAIN s /\ s[1] \in S /\ Tail(s) \in Seq(S)
  OBVIOUS
<1>2. ASSUME NEW x \in Range(s), x # Head(s) PROVE x \in Range(Tail(s))
  <2>1. PICK i \in 1..Len(s) : x = s[i]
    BY <1>1 DEF Range
  <2>2. i # 1
    BY <1>1, <1>2, <2>1
  <2>3. i - 1 \in DOMAIN Tail(s) /\ Tail(s)[i - 1] = s[i]
    BY <1>1, <2>1, <2>2
  <2>4. QED
    BY <2>1, <2>3 DEF Range
<1>3. QED
  BY <1>1, <1>2 DEF Range

\* At the start nothing was read, found or claimed.
LEMMA InitIInv == Init => IInv
<1> SUFFICES ASSUME Init PROVE IInv
  OBVIOUS
<1>0. /\ stage = "start" /\ req \in Requests /\ choices = req.answers /\ initial = NoAnswer
      /\ expired = FALSE /\ stop = "" /\ incomplete = FALSE /\ limited = FALSE /\ failed = FALSE
      /\ selections = <<>> /\ trail = 0 /\ reserved = 1 /\ round = 1 /\ left = 0 /\ examined = 0
      /\ todo = <<>> /\ found = <<>> /\ inspected = <<>> /\ searched = <<>>
      /\ tried = {} /\ exhausted = {} /\ outcome = NoResult /\ reviewsLeft = req.reviewCap
  BY DEF Init
<1>1. Typed
  <2>1. IsInjective(<<>>)
    BY DEF IsInjective
  <2>2. req.answers \in Seq(STRING) /\ req.reviewCap \in Nat
    BY <1>0, RequestAssumption
  <2>3. active \in [Range(Sorts) -> BOOLEAN] /\ counts \in [Pages -> SUBSET Nat]
    BY DEF Init, Unknown
  <2>4. /\ stage \in Stages /\ initial \in Answers \cup {NoAnswer}
        /\ exhausted \in SUBSET Range(Sorts)
    BY <1>0 DEF Stages, Before
  <2>5. /\ <<>> \in Seq(Range(Sorts)) /\ <<>> \in Seq(Option) /\ <<>> \in Seq(Inspection)
        /\ <<>> \in Seq(STRING)
    OBVIOUS
  <2>6. QED
    BY <1>0, <2>1, <2>2, <2>3, <2>4, <2>5 DEF Typed
<1>2. Pristine
  BY <1>0 DEF Pristine, Before
<1>3. Spent
  <2>1. req.reviewCap \in Nat
    BY <1>0, RequestAssumption
  <2>2. DocumentBudget >= 1
    BY BudgetAssumption
  <2>3. stage = "start" /\ reserved = 1 /\ examined = 0 /\ reviewsLeft = req.reviewCap
    BY <1>0
  <2>4. QED
    BY <2>1, <2>2, <2>3 DEF Spent
<1>4. Stopped /\ Searching /\ Earning
  BY <1>0 DEF Stopped, Searching, Earning, After
<1>5. Counted
  <2>1. inspected \in Seq(Inspection) /\ inspected = <<>>
    BY <1>0, <1>1 DEF Typed
  <2>2. DOMAIN inspected = {}
    BY <2>1
  <2>3. QED
    BY <2>2 DEF Counted
<1>6. QED
  BY <1>1, <1>2, <1>3, <1>4, <1>5 DEF IInv

\* The first search may fail, and the deadline may be its error.
LEMMA FirstSearchIInv == IInv /\ FirstSearch => IInv'
<1> SUFFICES ASSUME IInv, FirstSearch PROVE IInv'
  OBVIOUS
<1>1. PICK reply \in Replies(<<>>) :
          /\ expired => reply.error = "error"
          /\ stage' = IF reply.error = "" THEN "refine" ELSE IF expired THEN "research" ELSE "failed"
          /\ initial' = reply.answer
          /\ failed' = (reply.error # "" \/ reply.answer.rejected)
  BY DEF FirstSearch
<1>2. /\ reply.answer \in Answers \cup {NoAnswer} /\ reply.answer.rejected \in BOOLEAN
  BY ReplyType
<1>3. stage = "start"
      /\ UNCHANGED <<req, expired, choices, selections, trail, category, reserved, stop, round, todo,
                     active, limited, found, discoveryStop, incomplete, tried, left, reviewsLeft,
                     examined, inspected, counts, inspectionStop, purchases, outcome, searched, exhausted>>
  BY DEF FirstSearch, searching, inspecting
<1>4. Typed'
  BY <1>1, <1>2, <1>3 DEF IInv, Typed, Stages, Before
<1>5. Pristine'
  BY <1>1, <1>3 DEF IInv, Pristine, Before
<1>6. Spent'
  BY <1>1, <1>3 DEF IInv, Spent
<1>7. Stopped' /\ Searching' /\ Earning'
  <2>1. stage' \in {"refine", "research", "failed"} /\ (stage' = "research" => expired')
    BY <1>1, <1>3
  <2>2. stage' = "refine" => failed' = initial'.rejected
    <3>1. CASE reply.error = ""
      <4>1. failed' = reply.answer.rejected
        BY <1>1, <1>2, <3>1
      <4>2. QED
        BY <1>1, <4>1
    <3>2. CASE reply.error # ""
      BY <1>1, <3>2
    <3>3. QED
      BY <3>1, <3>2
  <2>3. QED
    BY <2>1, <2>2 DEF Stopped, Searching, Earning, After
<1>8. Counted'
  BY <1>3 DEF IInv, Counted, Detail
<1>9. QED
  BY <1>4, <1>5, <1>6, <1>7, <1>8 DEF IInv

\* A call that returns from refinement has searched nothing and inspected nothing.
LEMMA RefinementReturns ==
  ASSUME IInv, stage = "refine", stage' = "done",
         choices' \in Seq(STRING), selections' \in Seq(STRING), trail' \in Nat,
         initial' \in Answers \cup {NoAnswer}, expired' \in BOOLEAN, failed' \in BOOLEAN,
         reserved' \in Nat, reserved' <= DocumentBudget,
         UNCHANGED <<req, searching, incomplete, inspecting, purchases, searched, exhausted>>
  PROVE  IInv'
<1>1. UNCHANGED <<req, round, todo, active, limited, found, discoveryStop, incomplete, tried, left,
                  reviewsLeft, examined, inspected, counts, inspectionStop, purchases, searched,
                  exhausted>>
  BY DEF searching, inspecting
<1>2. Typed'
  BY <1>1 DEF IInv, Typed, Stages
<1>3. Pristine' /\ Stopped' /\ Searching' /\ Earning'
  BY DEF Pristine, Stopped, Searching, Earning, Before, After
<1>4. Spent'
  BY <1>1 DEF IInv, Spent
<1>5. Counted'
  BY <1>1 DEF IInv, Counted, Detail
<1>6. QED
  BY <1>2, <1>3, <1>4, <1>5 DEF IInv

\* A choice that cannot be applied ends the call.
LEMMA RefuseChoiceIInv == IInv /\ RefuseChoice => IInv'
<1> SUFFICES ASSUME IInv, RefuseChoice PROVE IInv'
  OBVIOUS
<1>1. stage = "refine" /\ stage' = "done"
      /\ UNCHANGED <<selections, trail, choices, initial, expired, failed, reserved>>
  BY DEF RefuseChoice, Refining, StopRefinement, Return
<1>2. UNCHANGED <<req, searching, incomplete, inspecting, purchases, searched, exhausted>>
  BY DEF RefuseChoice
<1>3. QED
  BY <1>1, <1>2, RefinementReturns DEF IInv, Typed, Spent

\* The choices that remain, those verified and what their replay reads.
LEMMA ChoiceTypes ==
  ASSUME Typed, choices # <<>>
  PROVE  /\ Chosen \in Seq(STRING) /\ Replayed \in Nat /\ Tail(choices) \in Seq(STRING)
         /\ SearchReads(Chosen, Replayed) \in Nat
         /\ SearchReads(selections, trail) \in Nat
<1>1. Chosen \in Seq(STRING) /\ Replayed \in Nat /\ Tail(choices) \in Seq(STRING)
  <2>1. choices \in Seq(STRING) /\ selections \in Seq(STRING) /\ trail \in Nat
    BY DEF Typed
  <2>2. Head(choices) \in STRING
    BY <2>1
  <2>3. Append(selections, Head(choices)) \in Seq(STRING) /\ Tail(choices) \in Seq(STRING)
    BY <2>1, <2>2
  <2>4. Chosen \in Seq(STRING)
    <3> HIDE DEF Replaces
    <3> QED BY <2>1, <2>3 DEF Chosen
  <2>5. Replayed \in Nat
    BY <2>1 DEF Replayed
  <2>6. QED
    BY <2>3, <2>4, <2>5
<1>2. \A c \in Seq(STRING), n \in Nat : SearchReads(c, n) \in Nat
  BY DEF SearchReads
<1>3. QED
  BY <1>1, <1>2 DEF Typed

\* A choice is verified and consumed, or the call ends.
LEMMA ApplyChoiceIInv == IInv /\ ApplyChoice => IInv'
<1> SUFFICES ASSUME IInv, ApplyChoice PROVE IInv'
  OBVIOUS
<1>1. stage = "refine" /\ choices # <<>> /\ ~expired
      /\ reserved' = reserved + SearchReads(Chosen, Replayed) /\ reserved' <= DocumentBudget
      /\ UNCHANGED <<req, searching, incomplete, inspecting, purchases, searched, exhausted>>
  BY DEF ApplyChoice, Refining
<1>2. reserved' \in Nat
  BY <1>1, ChoiceTypes DEF IInv, Typed
<1>3. PICK reply \in Replies(Chosen) :
        \/ /\ expired' \in BOOLEAN /\ failed' = TRUE
           /\ \E reason : StopRefinement(reason)
        \/ /\ StopRefinement("source_category_changed") /\ failed' = TRUE /\ UNCHANGED expired
        \/ /\ initial' = reply.answer
           /\ selections' = Chosen /\ trail' = Replayed /\ choices' = Tail(choices)
           /\ failed' = reply.answer.rejected
           /\ UNCHANGED <<stage, stop, outcome, expired>>
  BY DEF ApplyChoice
<1>4. CASE /\ expired' \in BOOLEAN /\ failed' = TRUE
           /\ \E reason : StopRefinement(reason)
  <2>1. stage' = "done" /\ UNCHANGED <<selections, trail, choices, initial>>
    BY <1>4 DEF StopRefinement, Return
  <2>2. QED
    BY <1>1, <1>2, <1>4, <2>1, RefinementReturns DEF IInv, Typed
<1>5. CASE StopRefinement("source_category_changed") /\ failed' = TRUE /\ UNCHANGED expired
  <2>1. stage' = "done" /\ UNCHANGED <<selections, trail, choices, initial>>
    BY <1>5 DEF StopRefinement, Return
  <2>2. QED
    BY <1>1, <1>2, <1>5, <2>1, RefinementReturns DEF IInv, Typed
<1>6. CASE /\ initial' = reply.answer
           /\ selections' = Chosen /\ trail' = Replayed /\ choices' = Tail(choices)
           /\ failed' = reply.answer.rejected
           /\ UNCHANGED <<stage, stop, outcome, expired>>
  <2>1. /\ selections' \in Seq(STRING) /\ trail' \in Nat /\ choices' \in Seq(STRING)
        /\ initial' \in Answers \cup {NoAnswer} /\ failed' \in BOOLEAN
    BY <1>1, <1>6, ChoiceTypes, ReplyType DEF IInv
  <2>2. UNCHANGED <<req, round, todo, active, limited, found, discoveryStop, incomplete, tried, left,
                    reviewsLeft, examined, inspected, counts, inspectionStop, purchases, searched,
                    exhausted>>
    BY <1>1 DEF searching, inspecting
  <2>3. Typed'
    BY <1>2, <1>6, <2>1, <2>2 DEF IInv, Typed
  <2>4. Pristine'
    BY <1>6, <2>2 DEF IInv, Pristine
  <2>5. Spent'
    BY <1>1, <1>6, <2>2 DEF IInv, Spent
  <2>6. Stopped' /\ Searching' /\ Earning'
    BY <1>1, <1>6 DEF Stopped, Searching, Earning, After
  <2>7. Counted'
    BY <2>2 DEF IInv, Counted, Detail
  <2>8. QED
    BY <2>3, <2>4, <2>5, <2>6, <2>7 DEF IInv
<1>7. QED
  BY <1>3, <1>4, <1>5, <1>6

\* Open questions end the call.
LEMMA AskQuestionsIInv == IInv /\ AskQuestions => IInv'
<1> SUFFICES ASSUME IInv, AskQuestions PROVE IInv'
  OBVIOUS
<1>1. stage = "refine" /\ stage' = "done"
      /\ UNCHANGED <<req, expired, choices, selections, trail, initial, reserved, searching,
                     incomplete, inspecting, purchases, searched, exhausted, failed>>
  BY DEF AskQuestions, Return, refinement, history
<1>2. QED
  BY <1>1, RefinementReturns DEF IInv, Typed, Spent

\* Research starts with the verified answer and a queue of the other orders.
LEMMA BeginResearchIInv == IInv /\ BeginResearch => IInv'
<1> SUFFICES ASSUME IInv, BeginResearch PROVE IInv'
  OBVIOUS
<1>1. /\ stage \in {"refine", "research"} /\ stage' = "discover"
      /\ found' = Merged(<<>>, initial.items)
      /\ active' = [active EXCEPT ![Ranking] = ~initial.none]
      /\ exhausted' = IF initial.none THEN {Ranking} ELSE {}
      /\ incomplete' = initial.rejected
      /\ todo' = Tail(Sorts)
      /\ UNCHANGED <<req, expired, choices, selections, trail, category, initial, reserved, stop, round,
                     limited, discoveryStop, tried, left, reviewsLeft, examined, inspected, counts,
                     inspectionStop, purchases, outcome, searched, failed>>
  BY DEF BeginResearch, refinement, inspecting
<1>2. initial.items \in Seq(Option) /\ initial.none \in BOOLEAN /\ initial.rejected \in BOOLEAN
  BY AnswerType DEF IInv, Typed
<1>3. found' \in Seq(Option) /\ IsInjective(found')
  <2>1. <<>> \in Seq(Option) /\ IsInjective(<<>>)
    BY DEF IsInjective
  <2>2. QED
    BY <1>1, <1>2, <2>1, MergedType
<1>4. active' \in [Range(Sorts) -> BOOLEAN] /\ active'[Ranking] = ~initial.none
  BY <1>1, <1>2, RankingType DEF IInv, Typed
<1>5. Typed'
  BY <1>1, <1>2, <1>3, <1>4, RankingType DEF IInv, Typed, Stages
<1>6. stop = "" /\ ~limited /\ round = 1 /\ tried = {} /\ inspected = <<>> /\ examined = 0
      /\ outcome = NoResult /\ searched = <<>>
  BY <1>1 DEF IInv, Pristine, Before
<1>7. Pristine'
  BY <1>1, <1>6 DEF Pristine, Before
<1>8. Spent'
  BY <1>1 DEF IInv, Spent
<1>9. Stopped'
  BY <1>1, <1>6 DEF Stopped, SourceStops, After
<1>10. Searching'
  <2>1. failed' => incomplete' \/ expired'
    BY <1>1 DEF IInv, Searching
  <2>2. \A s \in Range(Sorts) : active'[s] \/ s \in exhausted' \/ (round' = 1 /\ s \in Range(todo'))
    BY <1>1, <1>2, <1>4, <1>6, RankingType
  <2>3. QED
    BY <1>1, <2>1, <2>2 DEF Searching
<1>11. Earning'
  BY <1>1 DEF Earning, After
<1>12. Counted'
  BY <1>1 DEF IInv, Counted, Detail
<1>13. QED
  BY <1>5, <1>7, <1>8, <1>9, <1>10, <1>11, <1>12 DEF IInv

-----------------------------------------------------------------------------
(* The invariant holds through discovery.                                  *)

\* What a search of a round does to the stop and to what was found.
LEMMA SearchOutcome ==
  ASSUME Typed, NEW reply \in Replies(selections)
  PROVE  /\ StopAfter(reply) \in SourceStops
         /\ reply.error = "" /\ StopAfter(reply) = "" => ~reply.answer.moved
         /\ Merged(found, reply.answer.items) \in Seq(Option)
         /\ IsInjective(Merged(found, reply.answer.items))
         /\ reply.answer.none \in BOOLEAN /\ reply.answer.rejected \in BOOLEAN
         /\ reply.answer.moved \in BOOLEAN
<1>1. reply.answer.items \in Seq(Option)
  BY ReplyType
<1>2. Merged(found, reply.answer.items) \in Seq(Option)
      /\ IsInjective(Merged(found, reply.answer.items))
  BY <1>1, MergedType DEF Typed
<1>3. StopAfter(reply) \in SourceStops
  BY DEF StopAfter, SourceStops
<1>4. reply.error = "" /\ StopAfter(reply) = "" => ~reply.answer.moved
  BY DEF StopAfter, Denials
<1>5. QED
  BY <1>2, <1>3, <1>4, ReplyType

\* A search leaves its order active, exhausted, or the result incomplete.
LEMMA ReadSearchIInv == IInv /\ ReadSearch => IInv'
<1> SUFFICES ASSUME IInv, ReadSearch PROVE IInv'
  OBVIOUS
<1> DEFINE s == Head(todo)
           reads == SearchReads(selections, trail)
<1>1. /\ stage = "discover" /\ todo # <<>> /\ ~expired /\ stop = "" /\ Affordable
      /\ reserved' = reserved + reads
      /\ UNCHANGED <<stage, req, expired, choices, selections, trail, category, initial, round,
                     limited, discoveryStop, tried, left, reviewsLeft, examined, inspected, counts,
                     inspectionStop, purchases, outcome, searched>>
  BY DEF ReadSearch, Discovering, refinement, inspecting
<1>2. PICK reply \in Replies(selections) :
          LET good == reply.error = "" /\ StopAfter(reply) = ""
          IN  /\ stop' = StopAfter(reply)
              /\ todo' = IF stop' = "" THEN Tail(todo) ELSE <<>>
              /\ active' = [active EXCEPT ![s] = good /\ ~reply.answer.none]
              /\ found' = IF good THEN Merged(found, reply.answer.items) ELSE found
              /\ incomplete' = (incomplete \/ ~good \/ reply.answer.rejected)
              /\ exhausted' = IF good /\ reply.answer.none THEN exhausted \cup {s} ELSE exhausted \ {s}
              /\ failed' = (failed \/ reply.error # "" \/ reply.answer.rejected \/ reply.answer.moved)
  BY DEF ReadSearch
<1> DEFINE good == reply.error = "" /\ StopAfter(reply) = ""
<1>3. /\ todo \in Seq(Range(Sorts)) /\ s \in Range(Sorts) /\ Tail(todo) \in Seq(Range(Sorts))
      /\ \A x \in Range(todo) : x = s \/ x \in Range(Tail(todo))
  BY <1>1, QueueSplits DEF IInv, Typed
<1>4. /\ StopAfter(reply) \in SourceStops
      /\ good => ~reply.answer.moved
      /\ reply.answer.none \in BOOLEAN /\ reply.answer.rejected \in BOOLEAN
      /\ reply.answer.moved \in BOOLEAN
  BY SearchOutcome DEF IInv
<1>5. found' \in Seq(Option) /\ IsInjective(found')
  BY <1>2, SearchOutcome DEF IInv, Typed
<1>6. /\ active' \in [Range(Sorts) -> BOOLEAN]
      /\ active'[s] = (good /\ ~reply.answer.none)
      /\ \A x \in Range(Sorts) : x # s => active'[x] = active[x]
  <2>1. active \in [Range(Sorts) -> BOOLEAN] /\ (good /\ ~reply.answer.none) \in BOOLEAN
    BY DEF IInv, Typed
  <2>2. QED
    BY <1>2, <1>3, <2>1
<1>7. /\ incomplete' \in BOOLEAN /\ failed' \in BOOLEAN
      /\ incomplete \/ ~good \/ reply.answer.rejected => incomplete'
      /\ failed' => failed \/ reply.error # "" \/ reply.answer.rejected \/ reply.answer.moved
  BY <1>2
<1>8. /\ exhausted' \in SUBSET Range(Sorts)
      /\ \A x \in exhausted : x # s => x \in exhausted'
      /\ good /\ reply.answer.none => s \in exhausted'
  <2>1. exhausted \in SUBSET Range(Sorts)
    BY DEF IInv, Typed
  <2>2. QED
    BY <1>2, <1>3, <2>1
<1>9. /\ todo' \in Seq(Range(Sorts)) /\ (todo' # <<>> => stop' = "")
      /\ stop' = "" => todo' = Tail(todo)
  <2>1. <<>> \in Seq(Range(Sorts))
    OBVIOUS
  <2>2. QED
    BY <1>2, <1>3, <2>1
<1>10. reserved' \in Nat /\ reserved' <= DocumentBudget
  <2>1. Len(found) \in Nat /\ req.reviewCap \in Nat /\ InspectionBudget \in Nat
    BY RequestAssumption, BudgetAssumption DEF IInv, Typed
  <2>2. DetailSlots \in Nat
    BY <2>1 DEF DetailSlots, Min2
  <2>3. reads \in Nat /\ reserved \in Nat /\ DocumentBudget \in Nat
    BY BudgetAssumption DEF IInv, Typed, SearchReads
  <2>4. DocumentBudget - reserved >= DetailSlots + reads
    BY <1>1 DEF Affordable
  <2>5. reserved' = reserved + reads
    BY <1>1
  <2>6. QED
    <3> HIDE DEF reads
    <3> QED BY <2>2, <2>3, <2>4, <2>5
<1>11. Typed'
  BY <1>1, <1>5, <1>6, <1>7, <1>8, <1>9, <1>10 DEF IInv, Typed
<1>12. Pristine'
  BY <1>1 DEF IInv, Pristine, Before
<1>13. Spent'
  BY <1>1, <1>10 DEF IInv, Spent
<1>14. Stopped'
  BY <1>1, <1>2, <1>4, <1>9 DEF Stopped, After
<1>15. Searching'
  <2>1. failed' => incomplete'
    <3>1. failed => incomplete
      BY <1>1 DEF IInv, Searching
    <3>2. QED
      BY <1>4, <1>7, <3>1
  <2>2. ASSUME NEW x \in Range(Sorts), ~incomplete', stop' = ""
        PROVE  \/ active'[x] \/ x \in exhausted'
               \/ round' = 1 /\ x \in Range(todo')
               \/ limited'
    <3>1. good /\ ~incomplete
      BY <1>7, <2>2
    <3>2. CASE x = s
      BY <1>4, <1>6, <1>8, <3>1, <3>2
    <3>3. CASE x # s
      <4>1. \/ active[x] \/ x \in exhausted
            \/ round = 1 /\ x \in Range(todo)
            \/ limited
        BY <1>1, <3>1 DEF IInv, Searching
      <4>2. todo' = Tail(todo)
        BY <1>9, <2>2
      <4>3. x \in Range(todo) => x \in Range(todo')
        BY <1>3, <3>3, <4>2
      <4>4. x \in exhausted => x \in exhausted'
        BY <1>8, <3>3
      <4>5. active[x] => active'[x]
        BY <1>6, <3>3
      <4>6. round' = round /\ limited' = limited
        BY <1>1
      <4>7. QED
        BY <4>1, <4>3, <4>4, <4>5, <4>6
    <3>4. QED
      BY <3>2, <3>3
  <2>3. QED
    BY <1>1, <2>1, <2>2 DEF Searching
<1>16. Earning'
  BY <1>1 DEF Earning, After
<1>17. Counted'
  BY <1>1 DEF IInv, Counted, Detail
<1>18. QED
  BY <1>11, <1>12, <1>13, <1>14, <1>15, <1>16, <1>17 DEF IInv

\* Leaving a round is for want of time or of documents.
LEMMA LeaveRoundIInv == IInv /\ LeaveRound => IInv'
<1> SUFFICES ASSUME IInv, LeaveRound PROVE IInv'
  OBVIOUS
<1>1. /\ stage = "discover" /\ todo # <<>> /\ todo' = <<>>
      /\ limited' = (limited \/ ~expired)
      /\ UNCHANGED <<stage, req, expired, choices, selections, trail, category, initial, reserved, stop,
                     round, active, found, discoveryStop, incomplete, tried, left, reviewsLeft,
                     examined, inspected, counts, inspectionStop, purchases, outcome, searched,
                     exhausted, failed>>
  BY DEF LeaveRound, Discovering, refinement, inspecting, history
<1>2. limited' \in BOOLEAN /\ (limited' \/ expired')
  BY <1>1 DEF IInv, Typed
<1>3. Typed'
  <2>1. <<>> \in Seq(Range(Sorts))
    OBVIOUS
  <2>2. QED
    BY <1>1, <1>2, <2>1 DEF IInv, Typed
<1>4. Pristine'
  BY <1>1 DEF IInv, Pristine, Before
<1>5. Spent'
  BY <1>1 DEF IInv, Spent
<1>6. Stopped'
  BY <1>1 DEF IInv, Stopped, After
<1>7. Searching'
  BY <1>1, <1>2 DEF IInv, Searching
<1>8. Earning'
  BY <1>1 DEF Earning, After
<1>9. Counted'
  BY <1>1 DEF IInv, Counted, Detail
<1>10. QED
  BY <1>3, <1>4, <1>5, <1>6, <1>7, <1>8, <1>9 DEF IInv

\* The next round searches the orders that are active.
LEMMA NextRoundIInv == IInv /\ NextRound => IInv'
<1> SUFFICES ASSUME IInv, NextRound PROVE IInv'
  OBVIOUS
<1>1. /\ stage = "discover" /\ todo = <<>> /\ stop = ""
      /\ round' = round + 1
      /\ todo' = At(Sorts, {i \in DOMAIN Sorts : active[Sorts[i]]})
      /\ UNCHANGED <<stage, req, expired, choices, selections, trail, category, initial, reserved, stop,
                     limited, active, found, discoveryStop, incomplete, tried, left, reviewsLeft,
                     examined, inspected, counts, inspectionStop, purchases, outcome, searched,
                     exhausted, failed>>
  BY DEF NextRound, MorePages, refinement, inspecting, history
<1>2. todo' \in Seq(Range(Sorts))
  <2>1. {i \in DOMAIN Sorts : active[Sorts[i]]} \in SUBSET DOMAIN Sorts
    OBVIOUS
  <2>2. Sorts \in Seq(Range(Sorts))
    BY SourceAssumption
  <2>3. QED
    BY <1>1, <2>1, <2>2, ElementsAt
<1>3. Typed'
  <2>1. round' \in Nat
    <3>1. round \in Nat
      BY DEF IInv, Typed
    <3>2. round' = round + 1
      BY <1>1
    <3>3. QED
      BY <3>1, <3>2
  <2>2. QED
    BY <1>1, <1>2, <2>1 DEF IInv, Typed
<1>4. Pristine'
  BY <1>1 DEF IInv, Pristine, Before
<1>5. Spent'
  BY <1>1 DEF IInv, Spent
<1>6. Stopped'
  BY <1>1 DEF IInv, Stopped, After
<1>7. Searching'
  <2>1. \A s \in Range(Sorts) : active[s] \/ s \in exhausted \/ incomplete \/ stop # "" \/ expired \/ limited
    <3>1. Range(todo) = {}
      <4>1. todo \in Seq(Range(Sorts)) /\ todo = <<>>
        BY <1>1 DEF IInv, Typed
      <4>2. DOMAIN todo = {}
        BY <4>1
      <4>3. QED
        BY <4>2 DEF Range
    <3>2. QED
      BY <1>1, <3>1 DEF IInv, Searching
  <2>2. QED
    BY <1>1, <2>1 DEF IInv, Searching
<1>8. Earning'
  BY <1>1 DEF Earning, After
<1>9. Counted'
  BY <1>1 DEF IInv, Counted, Detail
<1>10. QED
  BY <1>3, <1>4, <1>5, <1>6, <1>7, <1>8, <1>9 DEF IInv

\* Inspection gets no more options than documents and reviews allow.
LEMMA EndDiscoveryIInv == IInv /\ EndDiscovery => IInv'
<1> SUFFICES ASSUME IInv, EndDiscovery PROVE IInv'
  OBVIOUS
<1> DEFINE wanted == Min2(Min2(Len(found), InspectionBudget), req.reviewCap)
           documents == DocumentBudget - reserved
<1>1. /\ stage = "discover" /\ todo = <<>> /\ stage' = "inspect"
      /\ left' = Min2(wanted, documents)
      /\ incomplete' = (DiscoveryEnd # "source_results_exhausted" \/ left' < Len(found))
      /\ UNCHANGED <<req, expired, choices, selections, trail, category, initial, reserved, stop, round,
                     todo, limited, active, found, tried, reviewsLeft, examined, inspected, counts,
                     purchases, outcome, searched, exhausted, failed>>
  BY DEF EndDiscovery, refinement, history
<1>2. /\ Len(found) \in Nat /\ IsFiniteSet(Range(found)) /\ Cardinality(Range(found)) = Len(found)
      /\ Uninspected = Range(found)
  BY <1>1, ElementsOf DEF IInv, Typed, Pristine, Uninspected
<1>3. /\ left' \in Nat /\ left' <= documents /\ left' <= Len(found) /\ left' <= req.reviewCap
      /\ left' <= wanted
  <2>1. req.reviewCap \in Nat /\ InspectionBudget \in Nat /\ DocumentBudget \in Nat
        /\ reserved \in Nat /\ reserved <= DocumentBudget
    BY RequestAssumption, BudgetAssumption DEF IInv, Typed, Spent
  <2>2. QED
    BY <1>1, <1>2, <2>1 DEF Min2
<1>4. incomplete' \in BOOLEAN
  BY <1>1
<1>5. Typed'
  BY <1>1, <1>3, <1>4 DEF IInv, Typed, Stages, After
<1>6. Pristine'
  BY <1>1 DEF IInv, Pristine, Before
<1>7. Spent'
  <2>1. reviewsLeft = req.reviewCap
    <3>1. examined = 0 /\ examined + reviewsLeft = req.reviewCap /\ reviewsLeft \in Nat
      BY <1>1 DEF IInv, Typed, Pristine, Spent
    <3>2. QED
      BY <3>1
  <2>2. Uninspected' = Uninspected
    BY <1>1 DEF Uninspected
  <2>3. QED
    BY <1>1, <1>2, <1>3, <2>1, <2>2 DEF IInv, Spent
<1>8. Stopped'
  BY <1>1 DEF IInv, Stopped, After
<1>9. Searching'
  BY <1>1 DEF Searching
<1>10. Earning'
  <2> SUFFICES ASSUME ~incomplete'
               PROVE  /\ exhausted' = Range(Sorts) /\ ~failed'
                      /\ tried' \subseteq InspectedOptions'
                      /\ \A i \in DOMAIN inspected' : Unverified(Detail(i), Conditions)' = {}
                      /\ Cardinality(Uninspected') <= left'
    BY <1>1 DEF Earning
  <2>1. DiscoveryEnd = "source_results_exhausted" /\ ~(left' < Len(found))
    BY <1>1
  <2>2. ~expired /\ stop = "" /\ ~incomplete /\ ~limited /\ ~AnyActive
    <3>1. stop # "source_results_exhausted"
      BY <1>1 DEF IInv, Stopped, SourceStops, Denials
    <3>2. QED
      BY <2>1, <3>1 DEF DiscoveryEnd
  <2>3. exhausted = Range(Sorts)
    <3>1. Range(todo) = {}
      <4>1. todo \in Seq(Range(Sorts)) /\ todo = <<>>
        BY <1>1 DEF IInv, Typed
      <4>2. DOMAIN todo = {}
        BY <4>1
      <4>3. QED
        BY <4>2 DEF Range
    <3>2. \A s \in Range(Sorts) : s \in exhausted
      BY <1>1, <2>2, <3>1 DEF IInv, Searching, AnyActive
    <3>3. QED
      BY <3>2 DEF IInv, Typed
  <2>4. ~failed
    BY <1>1, <2>2 DEF IInv, Searching
  <2>5. tried = {} /\ inspected = <<>>
    BY <1>1 DEF IInv, Pristine
  <2>6. DOMAIN inspected = {}
    <3>1. inspected \in Seq(Inspection)
      BY DEF IInv, Typed
    <3>2. QED
      BY <2>5, <3>1
  <2>7. Uninspected' = Uninspected
    BY <1>1 DEF Uninspected
  <2>8. Cardinality(Uninspected') <= left'
    BY <1>2, <1>3, <2>1, <2>7
  <2>9. QED
    BY <1>1, <2>3, <2>4, <2>5, <2>6, <2>8
<1>11. Counted'
  BY <1>1 DEF IInv, Counted, Detail
<1>12. QED
  BY <1>5, <1>6, <1>7, <1>8, <1>9, <1>10, <1>11 DEF IInv

-----------------------------------------------------------------------------
(* The invariant holds through inspection and to the end.                  *)

\* A read takes its share of the documents and of the reviews, and one of the
\* options still to inspect.
LEMMA ReadTakesOne ==
  ASSUME IInv, Inspecting
  PROVE  LET reads == Share(ReadsPerInspection, DocumentBudget - reserved, left)
             limit == Share(ReviewsPerRead, reviewsLeft, left)
             rest == Range(found) \ (tried \cup {NextOption})
         IN  /\ reads \in Nat /\ reserved + reads <= DocumentBudget
             /\ left - 1 \in Nat
             /\ left - 1 <= DocumentBudget - (reserved + reads)
             /\ limit \in Nat /\ limit <= reviewsLeft /\ left - 1 <= reviewsLeft - limit
             /\ NextOption \in Option
             /\ IsFiniteSet(Uninspected) /\ IsFiniteSet(rest)
             /\ Cardinality(rest) = Cardinality(Uninspected) - 1
             /\ left - 1 <= Cardinality(rest)
<1>1. /\ stage = "inspect" /\ left \in Nat /\ left > 0 /\ reserved \in Nat /\ reviewsLeft \in Nat
      /\ DocumentBudget \in Nat /\ ReadsPerInspection \in Nat /\ ReviewsPerRead \in Nat
      /\ reserved <= DocumentBudget
      /\ left <= DocumentBudget - reserved /\ left <= reviewsLeft
      /\ left <= Cardinality(Uninspected)
      /\ found \in Seq(Option)
  BY BudgetAssumption DEF Inspecting, IInv, Typed, Spent
<1> DEFINE documents == DocumentBudget - reserved
           reads == Share(ReadsPerInspection, documents, left)
           limit == Share(ReviewsPerRead, reviewsLeft, left)
           rest == Range(found) \ (tried \cup {NextOption})
<1>2. documents \in Nat /\ left <= documents /\ left - 1 \in Nat /\ 1 <= left
  BY <1>1
<1>3. reads \in Nat /\ reads <= documents /\ left - 1 <= documents - reads
  BY <1>1, <1>2, ShareLeavesOne
<1>4. limit \in Nat /\ limit <= reviewsLeft /\ left - 1 <= reviewsLeft - limit
  BY <1>1, <1>2, ShareLeavesOne
<1>5. IsFiniteSet(Uninspected) /\ Cardinality(Uninspected) \in Nat
  <2>1. IsFiniteSet(Range(found)) /\ Uninspected \subseteq Range(found)
    BY <1>1, ElementsOf DEF Uninspected
  <2>2. QED
    BY <2>1, FS_Subset, FS_CardinalityType
<1>6. NextOption \in Uninspected /\ NextOption \in Option
  <2>1. Uninspected # {}
    BY <1>1, <1>5, FS_EmptySet
  <2>2. NextOption \in Uninspected
    BY <1>1, <2>1, NextIsUntried DEF Uninspected
  <2>3. Range(found) \subseteq Option
    BY <1>1, ElementsOf
  <2>4. QED
    BY <2>2, <2>3 DEF Uninspected
<1>7. IsFiniteSet(rest) /\ Cardinality(rest) = Cardinality(Uninspected) - 1
  <2>1. rest = Uninspected \ {NextOption}
    BY DEF Uninspected
  <2>2. QED
    BY <1>5, <1>6, <2>1, FS_RemoveElement
<1>8. reserved + reads <= DocumentBudget /\ left - 1 <= DocumentBudget - (reserved + reads)
  <2> HIDE DEF reads
  <2> QED BY <1>1, <1>2, <1>3
<1>9. left - 1 <= Cardinality(rest)
  <2> HIDE DEF rest
  <2> QED BY <1>1, <1>5, <1>7
<1>10. QED
  BY <1>2, <1>3, <1>4, <1>5, <1>6, <1>7, <1>8, <1>9

\* The count of a page stays the one its options agree on.
LEMMA CountsAgree ==
  ASSUME Typed, Counted, NEW detail \in Details, NEW o \in Option, NEW omitted \in BOOLEAN,
         inspected' = Append(inspected, [option |-> o, detail |-> detail, omitted |-> omitted]),
         counts' = Added(detail, o)
  PROVE  /\ inspected' \in Seq(Inspection)
         /\ DOMAIN inspected' = 1..Len(inspected) + 1 /\ DOMAIN inspected = 1..Len(inspected)
         /\ \A i \in DOMAIN inspected : inspected'[i] = inspected[i]
         /\ Len(inspected) + 1 \in DOMAIN inspected'
         /\ inspected'[Len(inspected) + 1].option = o /\ inspected'[Len(inspected) + 1].detail = detail
         /\ counts' \in [Pages -> SUBSET Nat]
         /\ Counted'
<1> DEFINE new == [option |-> o, detail |-> detail, omitted |-> omitted]
           n == Len(inspected)
<1>1. new \in Inspection /\ inspected \in Seq(Inspection) /\ new.option = o /\ new.detail = detail
  BY DEF Typed, Inspection
<1>2. /\ inspected' \in Seq(Inspection) /\ n \in Nat
      /\ DOMAIN inspected' = 1..n + 1 /\ DOMAIN inspected = 1..n
      /\ \A i \in DOMAIN inspected : inspected'[i] = inspected[i]
      /\ n + 1 \in DOMAIN inspected' /\ inspected'[n + 1] = new
  <2> HIDE DEF new
  <2>1. inspected' = Append(inspected, new)
    BY DEF new
  <2> QED
    BY <1>1, <2>1
<1> DEFINE seen == Page[o] \in InspectedPages
           added == CountAdded(counts[Page[o]], seen, detail)
<1>3. counts \in [Pages -> SUBSET Nat] /\ Page[o] \in Pages
  BY DEF Typed, Pages
<1>4. UsableCount(detail) \in SUBSET Nat
  BY DetailAssumption DEF UsableCount, Unknown
<1>5. added \in SUBSET Nat
  BY <1>4 DEF CountAdded, Unknown
<1>6. /\ counts' \in [Pages -> SUBSET Nat] /\ counts'[Page[o]] = added
      /\ \A p \in Pages : p # Page[o] => counts'[p] = counts[p]
  <2>1. counts' = [counts EXCEPT ![Page[o]] = added]
    BY DEF Added
  <2> HIDE DEF added
  <2> QED
    BY <1>3, <1>5, <2>1
<1>7. Counted'
  <2> SUFFICES ASSUME NEW i \in DOMAIN inspected', counts'[Page[inspected'[i].option]] # Unknown
               PROVE  counts'[Page[inspected'[i].option]] = UsableCount(inspected'[i].detail)
    BY DEF Counted, Detail
  <2>1. CASE i = n + 1
    BY <1>1, <1>2, <1>6, <2>1 DEF CountAdded
  <2>2. CASE i \in 1..n
    <3>1. i \in DOMAIN inspected /\ inspected'[i] = inspected[i]
      BY <1>2, <2>2
    <3>2. inspected[i].option \in Option
      <4>1. inspected[i] \in Inspection
        BY <1>1, <3>1
      <4>2. QED
        BY <4>1 DEF Inspection
    <3>3. Page[inspected[i].option] \in Pages
      BY <3>2 DEF Pages
    <3>4. counts[Page[inspected[i].option]] # Unknown =>
              counts[Page[inspected[i].option]] = UsableCount(inspected[i].detail)
      BY <3>1 DEF Counted, Detail
    <3>5. CASE Page[inspected[i].option] # Page[o]
      BY <1>6, <3>1, <3>3, <3>4, <3>5
    <3>6. CASE Page[inspected[i].option] = Page[o]
      <4>1. seen
        BY <3>1, <3>6 DEF InspectedPages
      <4>2. added = Unknown \/ (added = UsableCount(detail) /\ counts[Page[o]] = added)
        BY <4>1 DEF CountAdded
      <4>3. QED
        BY <1>6, <3>1, <3>4, <3>6, <4>2
    <3>7. QED
      BY <3>5, <3>6
  <2>3. QED
    BY <1>2, <2>1, <2>2
<1>8. QED
  BY <1>1, <1>2, <1>6, <1>7

\* A detail read takes its shares and one option.
LEMMA ReadDetailsIInv == IInv /\ ReadDetails => IInv'
<1> SUFFICES ASSUME IInv, ReadDetails PROVE IInv'
  OBVIOUS
<1> DEFINE reads == Share(ReadsPerInspection, DocumentBudget - reserved, left)
           limit == Share(ReviewsPerRead, reviewsLeft, left)
           rest == Range(found) \ (tried \cup {NextOption})
<1>1. /\ Inspecting /\ stage = "inspect" /\ stop = "" /\ ~expired
      /\ reserved' = reserved + reads /\ left' = left - 1
      /\ tried' = tried \cup {NextOption}
      /\ UNCHANGED <<stage, req, expired, choices, selections, trail, category, initial, stop, round,
                     todo, active, limited, found, discoveryStop, purchases, outcome, searched,
                     exhausted>>
  BY DEF ReadDetails, Inspecting, refinement, searching
<1>2. PICK detail \in Details :
          LET omitted == reads < detail.needs
              reviews == Min2(detail.reviews, limit)
          IN  /\ inspected' = Append(inspected, [option |-> NextOption, detail |-> detail,
                                                 omitted |-> omitted])
              /\ reviewsLeft' = reviewsLeft - reviews
              /\ examined' = examined + reviews
              /\ counts' = Added(detail, NextOption)
              /\ incomplete' = (incomplete \/ omitted \/ Unverified(detail, Conditions) # {})
              /\ failed' = (failed \/ omitted)
  BY DEF ReadDetails
<1> DEFINE omitted == reads < detail.needs
           reviews == Min2(detail.reviews, limit)
           n == Len(inspected)
<1>3. /\ reads \in Nat /\ reserved + reads <= DocumentBudget
      /\ left - 1 \in Nat
      /\ left - 1 <= DocumentBudget - (reserved + reads)
      /\ limit \in Nat /\ limit <= reviewsLeft /\ left - 1 <= reviewsLeft - limit
      /\ NextOption \in Option
      /\ IsFiniteSet(Uninspected) /\ IsFiniteSet(rest)
      /\ Cardinality(rest) = Cardinality(Uninspected) - 1
      /\ left - 1 <= Cardinality(rest)
  BY <1>1, ReadTakesOne
<1>4. detail.needs \in Nat /\ detail.reviews \in Nat /\ omitted \in BOOLEAN
  BY <1>3, DetailAssumption
<1>5. reviews \in Nat /\ reviews <= limit
  <2> HIDE DEF limit
  <2> QED BY <1>3, <1>4 DEF Min2
<1>6. /\ inspected' \in Seq(Inspection)
      /\ DOMAIN inspected' = 1..n + 1 /\ DOMAIN inspected = 1..n
      /\ \A i \in DOMAIN inspected : inspected'[i] = inspected[i]
      /\ n + 1 \in DOMAIN inspected'
      /\ inspected'[n + 1].option = NextOption /\ inspected'[n + 1].detail = detail
      /\ counts' \in [Pages -> SUBSET Nat]
      /\ Counted'
  <2>1. inspected' = Append(inspected, [option |-> NextOption, detail |-> detail, omitted |-> omitted])
        /\ counts' = Added(detail, NextOption)
    BY <1>2
  <2> HIDE DEF omitted
  <2>2. QED
    BY <1>3, <1>4, <2>1, CountsAgree DEF IInv
<1>7. /\ incomplete' \in BOOLEAN /\ failed' \in BOOLEAN
      /\ ~incomplete' => ~incomplete /\ ~omitted /\ Unverified(detail, Conditions) = {}
      /\ failed' => failed \/ omitted
  BY <1>2
<1>8. /\ reviewsLeft' = reviewsLeft - reviews /\ examined' = examined + reviews
      /\ reserved' = reserved + reads /\ left' = left - 1
  BY <1>1, <1>2
<1>9. /\ reviewsLeft' \in Nat /\ examined' \in Nat /\ reserved' \in Nat /\ left' \in Nat
      /\ reserved' <= DocumentBudget /\ left' <= DocumentBudget - reserved'
      /\ left' <= reviewsLeft' /\ examined' + reviewsLeft' = examined + reviewsLeft
  <2>1. reserved \in Nat /\ left \in Nat /\ reviewsLeft \in Nat /\ examined \in Nat
        /\ DocumentBudget \in Nat
    BY BudgetAssumption DEF IInv, Typed
  <2> HIDE DEF reads, limit, reviews
  <2>2. QED
    BY <1>3, <1>5, <1>8, <2>1
<1>10. Uninspected' = rest
  BY <1>1 DEF Uninspected
<1>11. Typed'
  BY <1>1, <1>6, <1>7, <1>9 DEF IInv, Typed
<1>12. Pristine'
  BY <1>1 DEF IInv, Pristine, Before
<1>13. Spent'
  <2>1. req' = req /\ examined + reviewsLeft = req.reviewCap
    BY <1>1 DEF IInv, Spent
  <2>2. left' <= Cardinality(Uninspected')
    BY <1>3, <1>8, <1>10
  <2>3. QED
    BY <1>9, <2>1, <2>2 DEF Spent
<1>14. Stopped' /\ Searching'
  BY <1>1 DEF Stopped, SourceStops, Searching
<1>15. Earning'
  <2> SUFFICES ASSUME ~incomplete'
               PROVE  /\ exhausted' = Range(Sorts) /\ ~failed'
                      /\ tried' \subseteq InspectedOptions'
                      /\ \A i \in DOMAIN inspected' : Unverified(inspected'[i].detail, Conditions) = {}
                      /\ Cardinality(Uninspected') <= left'
    BY <1>1 DEF Earning, Detail
  <2>1. ~incomplete /\ ~omitted /\ Unverified(detail, Conditions) = {}
    BY <1>7
  <2>2. /\ exhausted = Range(Sorts) /\ ~failed
        /\ tried \subseteq InspectedOptions
        /\ \A i \in DOMAIN inspected : Unverified(inspected[i].detail, Conditions) = {}
        /\ Cardinality(Uninspected) <= left
    BY <1>1, <2>1 DEF IInv, Earning, After, Detail
  <2>3. tried' \subseteq InspectedOptions'
    <3>1. InspectedOptions' = {inspected'[i].option : i \in DOMAIN inspected'}
      BY DEF InspectedOptions
    <3>2. ASSUME NEW p \in tried PROVE p \in InspectedOptions'
      <4>1. PICK i \in DOMAIN inspected : p = inspected[i].option
        BY <2>2 DEF InspectedOptions
      <4>2. i \in DOMAIN inspected' /\ p = inspected'[i].option
        BY <1>6, <4>1
      <4>3. QED
        BY <3>1, <4>2
    <3>3. NextOption \in InspectedOptions'
      BY <1>6, <3>1
    <3>4. QED
      BY <1>1, <3>2, <3>3
  <2>4. ASSUME NEW i \in DOMAIN inspected' PROVE Unverified(inspected'[i].detail, Conditions) = {}
    <3>1. CASE i = n + 1
      BY <1>6, <2>1, <3>1
    <3>2. CASE i \in 1..n
      BY <1>6, <2>2, <3>2
    <3>3. QED
      <4>1. n \in Nat
        BY DEF IInv, Typed
      <4>2. QED
        BY <1>6, <3>1, <3>2, <4>1
  <2>5. Cardinality(Uninspected') <= left'
    <3>1. Cardinality(Uninspected) \in Nat /\ left \in Nat
      BY <1>3, FS_CardinalityType DEF IInv, Typed
    <3>2. Cardinality(Uninspected') = Cardinality(Uninspected) - 1 /\ left' = left - 1
      BY <1>3, <1>8, <1>10
    <3>3. QED
      BY <2>2, <3>1, <3>2
  <2>6. QED
    BY <1>1, <1>7, <2>1, <2>2, <2>3, <2>4, <2>5
<1>16. QED
  BY <1>6, <1>11, <1>12, <1>13, <1>14, <1>15 DEF IInv

\* A failed read takes its documents and one option, and leaves the result incomplete.
LEMMA FailDetailsIInv == IInv /\ FailDetails => IInv'
<1> SUFFICES ASSUME IInv, FailDetails PROVE IInv'
  OBVIOUS
<1> DEFINE reads == Share(ReadsPerInspection, DocumentBudget - reserved, left)
           rest == Range(found) \ (tried \cup {NextOption})
<1>1. /\ Inspecting /\ stage = "inspect" /\ incomplete' = TRUE /\ failed' = TRUE
      /\ reserved' = reserved + reads /\ left' = left - 1
      /\ tried' = tried \cup {NextOption}
      /\ stop' \in Denials \cup {""}
      /\ UNCHANGED <<stage, req, expired, choices, selections, trail, category, initial, round,
                     todo, active, limited, found, discoveryStop, reviewsLeft, examined, inspected,
                     counts, purchases, outcome, searched, exhausted>>
  BY DEF FailDetails, Inspecting, refinement, searching
<1>2. /\ reads \in Nat /\ reserved + reads <= DocumentBudget
      /\ left - 1 \in Nat
      /\ left - 1 <= DocumentBudget - (reserved + reads)
      /\ left - 1 <= Cardinality(rest)
  BY <1>1, ReadTakesOne
<1>3. /\ reserved' \in Nat /\ left' \in Nat /\ reserved' <= DocumentBudget
      /\ left' <= DocumentBudget - reserved' /\ left' <= reviewsLeft
  <2>1. reserved \in Nat /\ left \in Nat /\ reviewsLeft \in Nat /\ left <= reviewsLeft
    BY <1>1 DEF IInv, Typed, Spent
  <2>2. reserved' = reserved + reads /\ left' = left - 1
    BY <1>1
  <2> HIDE DEF reads
  <2>3. QED
    BY <1>2, <2>1, <2>2
<1>4. Typed'
  BY <1>1, <1>3 DEF IInv, Typed
<1>5. Pristine'
  BY <1>1 DEF IInv, Pristine, Before
<1>6. Spent'
  <2>1. Uninspected' = rest
    BY <1>1 DEF Uninspected
  <2>2. left' <= Cardinality(Uninspected')
    BY <1>1, <1>2, <2>1
  <2>3. QED
    BY <1>1, <1>3, <2>2 DEF IInv, Spent
<1>7. Stopped' /\ Searching' /\ Earning'
  BY <1>1 DEF Stopped, SourceStops, Searching, Earning
<1>8. Counted'
  BY <1>1 DEF IInv, Counted, Detail
<1>9. QED
  BY <1>4, <1>5, <1>6, <1>7, <1>8 DEF IInv

\* Inspection ends with nothing left to inspect, or incomplete.
LEMMA EndInspectionIInv == IInv /\ EndInspection => IInv'
<1> SUFFICES ASSUME IInv, EndInspection PROVE IInv'
  OBVIOUS
<1>1. /\ stage = "inspect" /\ (left = 0 \/ stop # "" \/ expired) /\ stage' = "purchases"
      /\ incomplete' = (incomplete \/ expired \/ stop # "")
      /\ stop # "" => inspectionStop' = stop
      /\ UNCHANGED <<req, expired, choices, selections, trail, category, initial, reserved, stop, round,
                     todo, active, limited, found, discoveryStop, tried, left, reviewsLeft,
                     examined, inspected, counts, purchases, outcome, searched, exhausted, failed>>
  BY DEF EndInspection, refinement, searching, history
<1>2. Typed'
  <2>1. incomplete' \in BOOLEAN
    BY <1>1
  <2>2. QED
    BY <1>1, <2>1 DEF IInv, Typed, Stages, After
<1>3. Pristine'
  BY <1>1 DEF IInv, Pristine, Before
<1>4. Spent' /\ Stopped' /\ Searching'
  BY <1>1 DEF IInv, Spent, Stopped, After, Searching
<1>5. Earning'
  <2> SUFFICES ASSUME ~incomplete'
               PROVE  /\ exhausted' = Range(Sorts) /\ ~failed'
                      /\ tried' \subseteq InspectedOptions'
                      /\ \A i \in DOMAIN inspected' : Unverified(inspected'[i].detail, Conditions) = {}
                      /\ Uninspected' = {}
    BY <1>1 DEF Earning, Detail
  <2>1. ~incomplete /\ left = 0
    BY <1>1
  <2>2. /\ exhausted = Range(Sorts) /\ ~failed
        /\ tried \subseteq InspectedOptions
        /\ \A i \in DOMAIN inspected : Unverified(inspected[i].detail, Conditions) = {}
        /\ Cardinality(Uninspected) <= left
    BY <1>1, <2>1 DEF IInv, Earning, After, Detail
  <2>3. Uninspected = {}
    <3>1. IsFiniteSet(Range(found)) /\ Uninspected \subseteq Range(found)
      BY ElementsOf DEF IInv, Typed, Uninspected
    <3>2. IsFiniteSet(Uninspected) /\ Cardinality(Uninspected) \in Nat
      BY <3>1, FS_Subset, FS_CardinalityType
    <3>3. Cardinality(Uninspected) = 0
      BY <2>1, <2>2, <3>2
    <3>4. QED
      BY <3>2, <3>3, FS_EmptySet
  <2>4. UNCHANGED <<Uninspected, InspectedOptions>>
    BY <1>1 DEF Uninspected, InspectedOptions
  <2>5. QED
    BY <1>1, <2>2, <2>3, <2>4
<1>6. Counted'
  BY <1>1 DEF IInv, Counted, Detail
<1>7. QED
  BY <1>2, <1>3, <1>4, <1>5, <1>6 DEF IInv

\* History that was asked for and not available leaves the result incomplete.
LEMMA ReadPurchasesIInv == IInv /\ ReadPurchases => IInv'
<1> SUFFICES ASSUME IInv, ReadPurchases PROVE IInv'
  OBVIOUS
<1>1. /\ stage = "purchases" /\ stage' = "conclude"
      /\ purchases' \in IF ~req.purchases THEN {"none"}
                        ELSE IF expired THEN {"unavailable"}
                        ELSE {"available", "partial", "unavailable"}
      /\ incomplete' = (incomplete \/ purchases' \in {"partial", "unavailable"})
      /\ UNCHANGED <<req, expired, choices, selections, trail, category, initial, reserved, stop, round,
                     todo, active, limited, found, discoveryStop, tried, left, reviewsLeft, examined,
                     inspected, counts, inspectionStop, outcome, searched, exhausted, failed>>
  BY DEF ReadPurchases, refinement, searching, inspecting, history
<1>2. Typed'
  <2>1. incomplete' \in BOOLEAN
    BY <1>1
  <2>2. QED
    BY <1>1, <2>1 DEF IInv, Typed, Stages, After
<1>3. Pristine'
  BY <1>1 DEF IInv, Pristine, Before
<1>4. Spent' /\ Stopped' /\ Searching'
  BY <1>1 DEF IInv, Spent, Stopped, After, Searching
<1>5. Earning'
  <2> SUFFICES ASSUME ~incomplete'
               PROVE  /\ exhausted' = Range(Sorts) /\ ~failed'
                      /\ tried' \subseteq InspectedOptions'
                      /\ \A i \in DOMAIN inspected' : Unverified(inspected'[i].detail, Conditions) = {}
                      /\ Uninspected' = {}
                      /\ req'.purchases => purchases' = "available"
    BY <1>1 DEF Earning, Detail
  <2>1. ~incomplete /\ purchases' \notin {"partial", "unavailable"}
    BY <1>1
  <2>2. /\ exhausted = Range(Sorts) /\ ~failed
        /\ tried \subseteq InspectedOptions
        /\ \A i \in DOMAIN inspected : Unverified(inspected[i].detail, Conditions) = {}
        /\ Uninspected = {}
    BY <1>1, <2>1 DEF IInv, Earning, After, Detail
  <2>3. req.purchases => purchases' = "available"
    BY <1>1, <2>1
  <2>4. UNCHANGED <<Uninspected, InspectedOptions>>
    BY <1>1 DEF Uninspected, InspectedOptions
  <2>5. QED
    BY <1>1, <2>2, <2>3, <2>4
<1>6. Counted'
  BY <1>1 DEF IInv, Counted, Detail
<1>7. QED
  BY <1>2, <1>3, <1>4, <1>5, <1>6 DEF IInv

\* A call that ends, whatever it returns.
LEMMA EndIInv ==
  ASSUME IInv, stage \notin {"done", "failed"}, stage' \in {"done", "failed"},
         stage' = "failed" => UNCHANGED <<outcome, searched>>,
         UNCHANGED <<req, expired, refinement, reserved, stop, searching, incomplete, inspecting,
                     purchases, exhausted, failed>>
  PROVE  IInv'
<1>1. UNCHANGED <<req, expired, choices, selections, trail, category, initial, reserved, stop, round,
                  todo, active, limited, found, discoveryStop, incomplete, tried, left, reviewsLeft,
                  examined, inspected, counts, inspectionStop, purchases, exhausted, failed>>
  BY DEF refinement, searching, inspecting
<1>2. Typed'
  BY <1>1 DEF IInv, Typed, Stages
<1>3. Pristine'
  BY <1>1 DEF IInv, Pristine, Before
<1>4. Spent' /\ Stopped' /\ Searching' /\ Earning'
  BY <1>1 DEF IInv, Spent, Stopped, Searching, Earning, After
<1>5. Counted'
  BY <1>1 DEF IInv, Counted, Detail
<1>6. QED
  BY <1>2, <1>3, <1>4, <1>5 DEF IInv

\* The deadline may pass at any time.
LEMMA ExpireIInv == IInv /\ Expire => IInv'
<1> SUFFICES ASSUME IInv, Expire PROVE IInv'
  OBVIOUS
<1>1. /\ expired' = TRUE
      /\ UNCHANGED <<stage, req, choices, selections, trail, category, initial, reserved, stop, round,
                     todo, active, limited, found, discoveryStop, incomplete, tried, left, reviewsLeft,
                     examined, inspected, counts, inspectionStop, purchases, outcome, searched,
                     exhausted, failed>>
  BY DEF Expire, refinement, searching, inspecting, history
<1>2. Typed'
  BY <1>1 DEF IInv, Typed
<1>3. Pristine' /\ Spent'
  BY <1>1 DEF IInv, Pristine, Spent, Uninspected
<1>4. Stopped' /\ Searching'
  BY <1>1 DEF IInv, Stopped, Searching
<1>5. Earning'
  BY <1>1 DEF IInv, Earning, Detail, Uninspected, InspectedOptions
<1>6. Counted'
  BY <1>1 DEF IInv, Counted, Detail
<1>7. QED
  BY <1>2, <1>3, <1>4, <1>5, <1>6 DEF IInv

\* A step that changes nothing.
LEMMA StutterIInv == IInv /\ UNCHANGED vars => IInv'
<1> SUFFICES ASSUME IInv, UNCHANGED vars PROVE IInv'
  OBVIOUS
<1>1. UNCHANGED <<stage, req, expired, choices, selections, trail, category, initial, reserved, stop,
                  round, todo, active, limited, found, discoveryStop, incomplete, tried, left,
                  reviewsLeft, examined, inspected, counts, inspectionStop, purchases, outcome,
                  searched, exhausted, failed>>
  BY DEF vars, refinement, searching, inspecting, history
<1>2. Typed'
  BY <1>1 DEF IInv, Typed
<1>3. Pristine' /\ Spent'
  BY <1>1 DEF IInv, Pristine, Spent, Uninspected
<1>4. Stopped' /\ Searching'
  BY <1>1 DEF IInv, Stopped, Searching
<1>5. Earning'
  BY <1>1 DEF IInv, Earning, Detail, Uninspected, InspectedOptions
<1>6. Counted'
  BY <1>1 DEF IInv, Counted, Detail
<1>7. QED
  BY <1>2, <1>3, <1>4, <1>5, <1>6 DEF IInv

\* Every step keeps the invariant.
LEMMA NextIInv == IInv /\ [Next]_vars => IInv'
<1> SUFFICES ASSUME IInv, [Next]_vars PROVE IInv'
  OBVIOUS
<1>1. CASE FirstSearch \/ RefuseChoice \/ ApplyChoice \/ AskQuestions \/ BeginResearch
  BY <1>1, FirstSearchIInv, RefuseChoiceIInv, ApplyChoiceIInv, AskQuestionsIInv, BeginResearchIInv
<1>2. CASE ReadSearch \/ LeaveRound \/ NextRound \/ EndDiscovery
  BY <1>2, ReadSearchIInv, LeaveRoundIInv, NextRoundIInv, EndDiscoveryIInv
<1>3. CASE ReadDetails \/ FailDetails \/ EndInspection \/ ReadPurchases
  BY <1>3, ReadDetailsIInv, FailDetailsIInv, EndInspectionIInv, ReadPurchasesIInv
<1>4. CASE Conclude
  BY <1>4, EndIInv DEF Conclude, history
<1>5. CASE GiveUp
  BY <1>5, EndIInv DEF GiveUp, Ended, history
<1>6. CASE ExplicitSearch
  BY <1>6, EndIInv DEF ExplicitSearch, history
<1>7. CASE Expire
  BY <1>7, ExpireIInv
<1>8. CASE Finished \/ UNCHANGED vars
  BY <1>8, StutterIInv DEF Finished
<1>9. QED
  BY <1>1, <1>2, <1>3, <1>4, <1>5, <1>6, <1>7, <1>8 DEF Next

\* Every state of the specification satisfies the invariant.
THEOREM Invariance == Spec => []IInv
<1>1. Init => IInv
  BY InitIInv
<1>2. IInv /\ [Next]_vars => IInv'
  BY NextIInv
<1>3. QED
  BY <1>1, <1>2, PTL DEF Spec

-----------------------------------------------------------------------------
(* What follows from the invariant.                                        *)

\* The allowances are kept: whatever the shares add up to, every option still
\* to inspect has a document and a review left (recommendation.go:418, :423).
THEOREM BudgetIsHeld == Spec => []BudgetHeld
<1>1. IInv => BudgetHeld
  <2> SUFFICES ASSUME IInv PROVE BudgetHeld
    OBVIOUS
  <2>1. examined \in Nat /\ reviewsLeft \in Nat /\ examined + reviewsLeft = req.reviewCap
    BY DEF IInv, Typed, Spent
  <2>2. examined <= req.reviewCap
    BY <2>1
  <2>3. QED
    BY <2>2 DEF IInv, Spent, BudgetHeld
<1>2. QED
  BY <1>1, Invariance, PTL

\* No search adds options of another sidebar state than the verified one.
LEMMA ScopeKept == IInv /\ OneScope /\ [Next]_vars => OneScope'
<1> SUFFICES ASSUME IInv, OneScope, [Next]_vars PROVE OneScope'
  OBVIOUS
<1>1. CASE FirstSearch
  <2>1. scopes' = {Verified} /\ UNCHANGED <<category, choices>>
    BY <1>1 DEF FirstSearch
  <2>2. QED
    BY <2>1 DEF OneScope, Verified
<1>2. CASE UNCHANGED <<scopes, category, choices>>
  BY <1>2 DEF OneScope, Verified
<1>3. CASE ApplyChoice
  <2>1. scopes' = {Verified'} \/ UNCHANGED <<scopes, category, choices>>
    BY <1>3 DEF ApplyChoice, StopRefinement
  <2>2. QED
    BY <1>2, <2>1 DEF OneScope
<1>4. CASE ReadSearch
  <2>1. PICK reply \in Replies(selections) :
          LET good == reply.error = "" /\ StopAfter(reply) = ""
          IN  /\ found' = IF good THEN Merged(found, reply.answer.items) ELSE found
              /\ scopes' = IF found' = found THEN scopes
                           ELSE scopes \cup {<<IF reply.answer.moved THEN category + 1 ELSE category,
                                               Len(choices)>>}
    BY <1>4 DEF ReadSearch
  <2>2. found' # found => ~reply.answer.moved
    BY <2>1, SearchOutcome DEF IInv
  <2>3. scopes' \subseteq scopes \cup {Verified}
    BY <2>1, <2>2 DEF Verified
  <2>4. Verified' = Verified
    BY <1>4 DEF ReadSearch, refinement, Verified
  <2>5. QED
    BY <2>3, <2>4 DEF OneScope
<1>5. CASE RefuseChoice \/ AskQuestions \/ BeginResearch
  <2>1. UNCHANGED <<scopes, category, choices>>
    BY <1>5 DEF RefuseChoice, StopRefinement, AskQuestions, BeginResearch, refinement, history
  <2>2. QED
    BY <1>2, <2>1
<1>6. CASE LeaveRound \/ NextRound \/ EndDiscovery
  <2>1. UNCHANGED <<scopes, category, choices>>
    BY <1>6 DEF LeaveRound, NextRound, EndDiscovery, refinement, history
  <2>2. QED
    BY <1>2, <2>1
<1>7. CASE ReadDetails \/ FailDetails \/ EndInspection
  <2>1. UNCHANGED <<scopes, category, choices>>
    BY <1>7 DEF ReadDetails, FailDetails, EndInspection, refinement, history
  <2>2. QED
    BY <1>2, <2>1
<1>8. CASE ReadPurchases \/ Conclude \/ Expire \/ GiveUp \/ ExplicitSearch \/ Finished \/ UNCHANGED vars
  <2>1. UNCHANGED <<scopes, category, choices>>
    BY <1>8 DEF ReadPurchases, Conclude, Expire, GiveUp, ExplicitSearch, Finished, vars, refinement,
                history
  <2>2. QED
    BY <1>2, <2>1
<1>9. QED
  BY <1>1, <1>3, <1>4, <1>5, <1>6, <1>7, <1>8 DEF Next

\* All options of a result come from one verified category and choice of
\* filters (recommendation_refinement.go:12).
THEOREM ScopeIsOne == Spec => []OneScope
<1>1. Init => OneScope
  BY DEF Init, OneScope
<1>2. QED
  BY <1>1, ScopeKept, Invariance, PTL DEF Spec

\* What is proposed once access was denied reads nothing.
LEMMA NoReadsProposed ==
  ASSUME NEW denied, denied # {}
  PROVE  /\ \A n \in NextActions(denied) : n[1] \notin Reads
         /\ \A r \in denied : <<"restore_source_access", r>> \in NextActions(denied)
<1> DEFINE restore == {<<"restore_source_access", r>> : r \in denied}
           others == restore \cup Conversations
<1>1. \A n \in restore : n[1] = "restore_source_access"
  OBVIOUS
<1>2. \A n \in Conversations :
          n[1] \in {"clarify_preference", "clarify_requirements", "review_purchase_coverage"}
  BY DEF Conversations
<1>3. \A n \in LastResorts(others) : n[1] \in {"refine_search", "reconsider_conditions"}
  BY DEF LastResorts
<1>4. NextActions(denied) = IF discoveryStop = "source_filter_unverified"
                            THEN restore \cup {<<"rediscover_filters", discoveryStop>>}
                            ELSE others \cup LastResorts(others)
  BY DEF NextActions
<1>5. ASSUME NEW n \in NextActions(denied) PROVE n[1] \notin Reads
  <2>1. \/ n \in restore \/ n \in Conversations \/ n \in LastResorts(others)
        \/ n = <<"rediscover_filters", discoveryStop>>
    <3> HIDE DEF restore
    <3> QED BY <1>4
  <2>2. QED
    <3> HIDE DEF restore, others
    <3> QED BY <1>1, <1>2, <1>3, <2>1 DEF Reads
<1>6. restore \subseteq NextActions(denied)
  <2> HIDE DEF restore
  <2> QED BY <1>4
<1>7. QED
  BY <1>5, <1>6

\* A step out of time, or after the source was left, reads nothing.
LEMMA StopEndsReads == IInv /\ [Next]_vars => ((expired \/ stop # "") => reserved' = reserved)
<1> SUFFICES ASSUME IInv, [Next]_vars, expired \/ stop # "" PROVE reserved' = reserved
  OBVIOUS
<1>1. CASE FirstSearch \/ RefuseChoice \/ AskQuestions \/ BeginResearch \/ LeaveRound \/ NextRound
  BY <1>1 DEF FirstSearch, RefuseChoice, AskQuestions, BeginResearch, LeaveRound, NextRound
<1>2. CASE ApplyChoice
  <2>1. stop = "" /\ ~expired
    BY <1>2 DEF ApplyChoice, Refining, IInv, Pristine, Before
  <2>2. QED
    BY <2>1
<1>3. CASE ReadSearch
  BY <1>3 DEF ReadSearch
<1>4. CASE ReadDetails \/ FailDetails
  BY <1>4 DEF ReadDetails, FailDetails, Inspecting
<1>5. CASE EndDiscovery \/ EndInspection \/ ReadPurchases \/ Conclude \/ Expire \/ GiveUp
  BY <1>5 DEF EndDiscovery, EndInspection, ReadPurchases, Conclude, Expire, GiveUp
<1>6. CASE ExplicitSearch \/ Finished \/ UNCHANGED vars
  BY <1>6 DEF ExplicitSearch, Finished, vars
<1>7. QED
  BY <1>1, <1>2, <1>3, <1>4, <1>5, <1>6 DEF Next

\* A result that a denial cut off asks for access and for no read.
LEMMA DenialIsNamed ==
  IInv /\ [Next]_vars /\ outcome' # outcome /\ stop' \in Denials =>
      /\ <<"restore_source_access", stop'>> \in outcome'.next
      /\ \A n \in outcome'.next : n[1] \notin Reads
<1> SUFFICES ASSUME IInv, [Next]_vars, outcome' # outcome, stop' \in Denials
             PROVE  /\ <<"restore_source_access", stop'>> \in outcome'.next
                    /\ \A n \in outcome'.next : n[1] \notin Reads
  OBVIOUS
<1>0. stop' # ""
  BY DEF Denials
<1>1. CASE RefuseChoice
  <2>1. stop' \in {"choice_unavailable", "time_budget_reached", "document_budget_reached"}
    BY <1>1 DEF RefuseChoice, StopRefinement
  <2>2. QED
    BY <2>1 DEF Denials
<1>2. CASE ApplyChoice
  <2>1. PICK reason : StopRefinement(reason)
    BY <1>2 DEF ApplyChoice
  <2>2. stop' = reason /\ reason \in Denials
    BY <2>1 DEF StopRefinement
  <2>3. outcome'.next = {<<"restore_source_access", reason>>}
    <3>1. PICK status : outcome' = Result(status, Range(initial.items), {}, 0, NextAfterStop(reason), Unknown)
      BY <2>1 DEF StopRefinement, Return
    <3>2. outcome'.next = NextAfterStop(reason)
      BY <3>1 DEF Result
    <3>3. QED
      BY <2>2, <3>2 DEF NextAfterStop
  <2>4. QED
    BY <2>2, <2>3 DEF Reads
<1>3. CASE AskQuestions
  <2>1. stop' = ""
    BY <1>3 DEF AskQuestions, IInv, Pristine, Before
  <2>2. QED
    BY <1>0, <2>1
<1>4. CASE Conclude
  <2> DEFINE denied == {discoveryStop, inspectionStop} \cap Denials
  <2>1. stop' = stop /\ inspectionStop = stop
    BY <1>0, <1>4 DEF Conclude, IInv, Stopped
  <2>2. stop' \in denied
    BY <2>1
  <2>3. outcome'.next = NextActions(denied)
    BY <1>4 DEF Conclude, Result
  <2> HIDE DEF denied
  <2>4. QED
    BY <2>2, <2>3, NoReadsProposed
<1>5. CASE FirstSearch \/ BeginResearch \/ ReadSearch \/ LeaveRound \/ NextRound
  BY <1>5 DEF FirstSearch, BeginResearch, ReadSearch, LeaveRound, NextRound
<1>6. CASE EndDiscovery \/ ReadDetails \/ FailDetails \/ EndInspection \/ ReadPurchases
  BY <1>6 DEF EndDiscovery, ReadDetails, FailDetails, EndInspection, ReadPurchases
<1>7. CASE Expire \/ GiveUp \/ ExplicitSearch \/ Finished \/ UNCHANGED vars
  BY <1>7 DEF Expire, GiveUp, ExplicitSearch, Finished, vars
<1>8. QED
  BY <1>1, <1>2, <1>3, <1>4, <1>5, <1>6, <1>7 DEF Next

\* Nothing is read once the deadline passed or the source was left, and a
\* result cut off by a denial says how to go on (recommendation_next_actions.go:35).
THEOREM StopHonoured == Spec => StopIsHonoured
<1>1. IInv /\ [Next]_vars =>
        [ /\ (expired \/ stop # "") => reserved' = reserved
          /\ outcome' # outcome /\ stop' \in Denials =>
                /\ <<"restore_source_access", stop'>> \in outcome'.next
                /\ \A n \in outcome'.next : n[1] \notin Reads ]_vars
  BY StopEndsReads, DenialIsNamed
<1>2. QED
  BY <1>1, Invariance, PTL DEF Spec, StopIsHonoured

-----------------------------------------------------------------------------
(* What results have earned.                                               *)

\* Nothing is claimed before a result, nor by one that inspected nothing.
LEMMA NothingClaimed ==
  ASSUME outcome'.status \notin {"complete", "no_matches"}, outcome'.kept = {},
         outcome'.reviews = {}, searched' = <<>>
  PROVE  ResultsAreEarned'
<1>1. ConclusionEarned'
  BY DEF ConclusionEarned
<1>2. ComparisonGrounded'
  BY DEF ComparisonGrounded
<1>3. SearchHonest'
  BY DEF SearchHonest
<1>4. QED
  BY <1>1, <1>2, <1>3 DEF ResultsAreEarned

\* A result that says complete or no matches has seen all there is.
LEMMA ConcludeEarned ==
  ASSUME IInv, Conclude
  PROVE  ConclusionEarned'
<1>1. /\ stage = "conclude"
      /\ outcome'.status = Status /\ outcome'.listed = Range(found)
      /\ UNCHANGED <<req, expired, exhausted, failed, inspected, purchases>>
  BY DEF Conclude, Result, inspecting, history
<1>2. SUFFICES ASSUME Status \in {"complete", "no_matches"}
               PROVE  /\ exhausted = Range(Sorts) /\ ~failed /\ ~expired
                      /\ \A o \in Range(found) : \E i \in DOMAIN inspected : inspected[i].option = o
                      /\ \A i \in DOMAIN inspected : Unverified(inspected[i].detail, Conditions) = {}
                      /\ req.purchases => purchases = "available"
                      /\ Status = "no_matches" =>
                            \A i \in DOMAIN inspected : Unmet(inspected[i].detail, Conditions) # {}
  BY <1>1 DEF ConclusionEarned, Detail
<1>3. ~incomplete /\ ~expired /\ (Status = "no_matches" => Retained = {})
  BY <1>2 DEF Status
<1>4. /\ exhausted = Range(Sorts) /\ ~failed
      /\ tried \subseteq InspectedOptions /\ Uninspected = {}
      /\ \A i \in DOMAIN inspected : Unverified(inspected[i].detail, Conditions) = {}
      /\ req.purchases => purchases = "available"
  BY <1>1, <1>3 DEF IInv, Earning, After, Detail
<1>5. ASSUME NEW o \in Range(found) PROVE \E i \in DOMAIN inspected : inspected[i].option = o
  <2>1. o \in InspectedOptions
    BY <1>4 DEF Uninspected
  <2>2. QED
    BY <2>1 DEF InspectedOptions
<1>6. ASSUME Status = "no_matches", NEW i \in DOMAIN inspected
      PROVE  Unmet(inspected[i].detail, Conditions) # {}
  <2>1. Candidates = {}
    BY <1>3, <1>6, DroppedForKept DEF IInv, Typed
  <2>2. ~Eligible(inspected[i].detail, Conditions)
    BY <2>1 DEF Candidates, Detail
  <2>3. Unverified(inspected[i].detail, Conditions) = {}
    BY <1>4
  <2>4. QED
    BY <2>2, <2>3 DEF Eligible, Conclusion
<1>7. QED
  BY <1>3, <1>4, <1>5, <1>6

\* A result drops an option for a better one it keeps, and counts every page once.
LEMMA ConcludeGrounded ==
  ASSUME IInv, Conclude
  PROVE  ComparisonGrounded'
<1>1. outcome'.kept = Retained /\ outcome'.reviews = ReviewTotal /\ inspected' = inspected
  BY DEF Conclude, Result, inspecting
<1>2. \A i \in Candidates \ Retained : \E j \in Retained :
          Relation(Detail(j), Detail(i), Axes) = "dominates"
  BY DroppedForKept DEF IInv, Typed
<1>3. Candidates' = Candidates
  BY <1>1 DEF Candidates, Detail
<1>4. \A i \in Candidates' \ outcome'.kept : \E j \in outcome'.kept :
          Relation(Detail(j), Detail(i), Axes)' \in {"dominates", "unknown"}
  <2>1. \A i, j : Relation(Detail(j), Detail(i), Axes)' = Relation(Detail(j), Detail(i), Axes)
    BY <1>1 DEF Detail
  <2>2. QED
    BY <1>1, <1>2, <1>3, <2>1
<1>5. \A n \in ReviewTotal :
        /\ \A i, j \in DOMAIN inspected :
              Page[inspected[i].option] = Page[inspected[j].option] =>
                  UsableCount(inspected[i].detail) = UsableCount(inspected[j].detail)
                  /\ UsableCount(inspected[i].detail) # Unknown
        /\ n = SumFunctionOnSet([i \in DOMAIN inspected |-> Value(inspected[i].detail.reviewCount)],
                   {i \in DOMAIN inspected :
                       \A j \in 1..i - 1 : Page[inspected[j].option] # Page[inspected[i].option]})
  BY ReviewsAddUp DEF IInv, Detail
<1>6. QED
  BY <1>1, <1>4, <1>5 DEF ComparisonGrounded, Detail

\* An explicit search counts every card that satisfies its filters.
LEMMA SearchEarned ==
  ASSUME NEW answer \in Shelves, NEW wish \in Wishes, NEW linked,
         searched' = <<answer, wish, Listing(answer, wish, linked)>>
  PROVE  SearchHonest'
<1>1. searched'[1] = answer /\ searched'[2] = wish /\ searched'[3] = Listing(answer, wish, linked)
  OBVIOUS
<1> DEFINE result == Listing(answer, wish, linked)
           shown == result.items
           counted == SumFunctionOnSet([i \in DOMAIN shown |-> shown[i].variants], DOMAIN shown)
           matching == {i \in DOMAIN answer.items : \A f \in wish.filters :
                           answer.items[i].fields[f.field] # {} => Satisfies(answer.items[i], f)}
<1>2. /\ result.unavailable = {} /\ Len(shown) < wish.limit /\ ~wish.variants
      /\ (\A f \in wish.filters : f.field \notin Guessed)
      => counted = Cardinality(matching)
  BY ListingIsHonest
<1>3. QED
  <2> HIDE DEF result
  <2> QED BY <1>1, <1>2 DEF SearchHonest, result

\* What a result says stays true once the call has ended.
LEMMA FrozenIsEarned ==
  ASSUME ResultsAreEarned,
         UNCHANGED <<req, expired, exhausted, failed, inspected, purchases, outcome, searched>>
  PROVE  ResultsAreEarned'
<1>1. ConclusionEarned'
  BY DEF ResultsAreEarned, ConclusionEarned, Detail
<1>2. ComparisonGrounded'
  BY DEF ResultsAreEarned, ComparisonGrounded, Candidates, Detail
<1>3. SearchHonest'
  BY DEF ResultsAreEarned, SearchHonest
<1>4. QED
  BY <1>1, <1>2, <1>3 DEF ResultsAreEarned

\* Every step leaves results earned.
LEMMA NextEarned == IInv /\ IInv' /\ ResultsAreEarned /\ [Next]_vars => ResultsAreEarned'
<1> SUFFICES ASSUME IInv, IInv', ResultsAreEarned, [Next]_vars PROVE ResultsAreEarned'
  OBVIOUS
<1>1. CASE stage' # "done"
  <2>1. outcome' = NoResult /\ searched' = <<>>
    BY <1>1 DEF IInv, Pristine
  <2>2. /\ outcome'.status = "none" /\ outcome'.kept = {} /\ outcome'.reviews = {}
    BY <2>1 DEF NoResult, Result, Unknown
  <2>3. QED
    BY <2>1, <2>2, NothingClaimed
<1>2. CASE RefuseChoice \/ ApplyChoice \/ AskQuestions
  <2>1. CASE stage' = "done"
    <3>1. stage = "refine" /\ searched' = searched
      BY <1>2 DEF RefuseChoice, ApplyChoice, AskQuestions, Refining
    <3>2. searched' = <<>>
      BY <3>1 DEF IInv, Pristine
    <3>3. \E status \in {"needs_input", "incomplete"} : \E next : Return(status, next)
      BY <1>2, <2>1, <3>1 DEF RefuseChoice, ApplyChoice, AskQuestions, StopRefinement
    <3>4. PICK status \in {"needs_input", "incomplete"} : \E next : Return(status, next)
      BY <3>3
    <3>5. outcome'.status = status /\ outcome'.kept = {} /\ outcome'.reviews = {}
      BY <3>4 DEF Return, Result, Unknown
    <3>6. QED
      BY <3>2, <3>5, NothingClaimed
  <2>2. QED
    BY <1>1, <2>1
<1>3. CASE Conclude
  <2>1. searched' = <<>>
    BY <1>3 DEF Conclude, IInv, Pristine
  <2>2. SearchHonest'
    BY <2>1 DEF SearchHonest
  <2>3. QED
    BY <1>3, <2>2, ConcludeEarned, ConcludeGrounded DEF ResultsAreEarned
<1>4. CASE ExplicitSearch
  <2>1. outcome' = NoResult
    BY <1>4 DEF ExplicitSearch, IInv, Pristine
  <2>2. outcome'.status = "none" /\ outcome'.kept = {} /\ outcome'.reviews = {}
    BY <2>1 DEF NoResult, Result, Unknown
  <2>3. ConclusionEarned' /\ ComparisonGrounded'
    BY <2>2 DEF ConclusionEarned, ComparisonGrounded
  <2>4. SearchHonest'
    BY <1>4, SearchEarned DEF ExplicitSearch
  <2>5. QED
    BY <2>3, <2>4 DEF ResultsAreEarned
<1>5. CASE FirstSearch \/ BeginResearch \/ EndDiscovery \/ EndInspection \/ ReadPurchases
  <2>1. stage' # "done"
    BY <1>5 DEF FirstSearch, BeginResearch, EndDiscovery, EndInspection, ReadPurchases
  <2>2. QED
    BY <1>1, <2>1
<1>6. CASE ReadSearch \/ LeaveRound \/ NextRound \/ ReadDetails \/ FailDetails
  <2>1. stage' # "done"
    BY <1>6 DEF ReadSearch, LeaveRound, NextRound, ReadDetails, FailDetails, Discovering, Inspecting
  <2>2. QED
    BY <1>1, <2>1
<1>7. CASE Expire \/ GiveUp
  <2>1. stage' # "done"
    BY <1>7 DEF Expire, GiveUp, Ended
  <2>2. QED
    BY <1>1, <2>1
<1>8. CASE Finished \/ UNCHANGED vars
  <2>1. UNCHANGED <<req, expired, exhausted, failed, inspected, purchases, outcome, searched>>
    BY <1>8 DEF Finished, vars, inspecting, history
  <2>2. QED
    BY <2>1, FrozenIsEarned
<1>9. QED
  BY <1>2, <1>3, <1>4, <1>5, <1>6, <1>7, <1>8 DEF Next

\* A result that claims to be complete has seen everything, the options it
\* drops are worse than kept ones, its review total adds every page once, and
\* an explicit search withholds nothing it does not report.
THEOREM ResultsEarned == Spec => []ResultsAreEarned
<1>1. Init => ResultsAreEarned
  <2> SUFFICES ASSUME Init PROVE ResultsAreEarned
    OBVIOUS
  <2>1. outcome = NoResult /\ searched = <<>>
    BY DEF Init
  <2>2. outcome.status = "none" /\ outcome.kept = {} /\ outcome.reviews = {}
    BY <2>1 DEF NoResult, Result, Unknown
  <2>3. QED
    BY <2>1, <2>2 DEF ResultsAreEarned, ConclusionEarned, ComparisonGrounded, SearchHonest
<1>2. QED
  BY <1>1, NextEarned, Invariance, PTL DEF Spec

=============================================================================

------------------------- MODULE OrderReports_proofs -------------------------
(***************************************************************************)
(* Theorems of OrderReports, over the queries of OrderInsights and         *)
(* OrderQueries, the documents of OrderDocuments and the prices of         *)
(* PriceHistory.                                                           *)
(*                                                                         *)
(* IInv says where the answers of a session come from: one table of        *)
(* admitted orders, the one its transaction read first.  That the numbers  *)
(* of a report fit together is then a fact about the queries of one table, *)
(* and most of the module is about those: sums, counts and extremes of     *)
(* finite sets of lines, orders and days.                                  *)
(***************************************************************************)
EXTENDS OrderReports, FiniteSetLemmas

-----------------------------------------------------------------------------
(* Tables.                                                                 *)

\* A table of admitted orders.
Table(t) ==
    /\ IsFiniteSet(DOMAIN t) /\ DOMAIN t \subseteq Ref
    /\ \A r \in DOMAIN t : t[r] \in OrderRow /\ ValidOrder(t[r])

-----------------------------------------------------------------------------
(* Sets, counts and sums.                                                  *)

\* A part of a finite set has at most its elements.
LEMMA PartOf ==
    ASSUME NEW S, IsFiniteSet(S), NEW T \in SUBSET S
    PROVE  /\ IsFiniteSet(T) /\ Cardinality(T) \in Nat /\ Cardinality(S) \in Nat
           /\ Cardinality(T) \in 0..Cardinality(S)
<1> QED BY FS_Subset, FS_CardinalityType

LEMMA SizeOf ==
    ASSUME NEW S, IsFiniteSet(S)
    PROVE  Cardinality(S) \in Nat /\ (Cardinality(S) = 0 <=> S = {})
<1> QED BY FS_CardinalityType, FS_EmptySet

\* Two parts without a common element have at most the elements of the whole.
LEMMA PartsOf ==
    ASSUME NEW S, IsFiniteSet(S), NEW T \in SUBSET S, NEW U \in SUBSET S, T \cap U = {}
    PROVE  /\ Cardinality(T) \in Nat /\ Cardinality(U) \in Nat /\ Cardinality(S) \in Nat
           /\ Cardinality(T) + Cardinality(U) \in 0..Cardinality(S)
           /\ T \cup U = S => Cardinality(T) + Cardinality(U) = Cardinality(S)
<1>1. IsFiniteSet(T) /\ IsFiniteSet(U)
  BY FS_Subset
<1>2. /\ Cardinality(T \cup U) = Cardinality(T) + Cardinality(U) - Cardinality(T \cap U)
      /\ IsFiniteSet(T \cup U)
  BY <1>1, FS_Union
<1>3. Cardinality(T \cap U) = 0
  BY FS_EmptySet
<1>4. /\ Cardinality(T) \in Nat /\ Cardinality(U) \in Nat
  BY <1>1, FS_CardinalityType
<1>5. Cardinality(T \cup U) \in 0..Cardinality(S) /\ Cardinality(S) \in Nat
  BY PartOf
<1>6. Cardinality(T \cup U) = Cardinality(T) + Cardinality(U)
  BY <1>2, <1>3, <1>4
<1>7. Cardinality(T) + Cardinality(U) \in 0..Cardinality(S)
  BY <1>5, <1>6
<1> QED BY <1>4, <1>5, <1>6, <1>7

\* A sum of naturals is within a sum of at least as large ones over more.
LEMMA SumWithin ==
    ASSUME NEW S, IsFiniteSet(S), NEW T \in SUBSET S, NEW f, NEW g,
           \A x \in S : g[x] \in Nat,
           \A x \in T : f[x] \in Nat /\ f[x] <= g[x]
    PROVE  /\ SumFunctionOnSet(f, T) \in Nat /\ SumFunctionOnSet(g, S) \in Nat
           /\ SumFunctionOnSet(f, T) \in 0..SumFunctionOnSet(g, S)
<1>1. IsFiniteSet(T) /\ Summable(f, T) /\ Summable(g, T)
  BY FS_Subset DEF Summable
<1>2. SumFunctionOnSet(f, T) <= SumFunctionOnSet(g, T)
  BY <1>1, SumGrows
<1>3. /\ SumFunctionOnSet(g, T) \in Nat /\ SumFunctionOnSet(g, S) \in Nat
      /\ SumFunctionOnSet(g, T) <= SumFunctionOnSet(g, S)
  BY SumOfPart
<1>4. SumFunctionOnSet(f, T) \in Nat
  BY <1>1, SumIsNat
<1> QED BY <1>2, <1>3, <1>4

\* A value that may be missing is a finite set.
LEMMA OptionalIsFinite ==
    ASSUME NEW V, NEW v \in Optional(V)
    PROVE  IsFiniteSet(v) /\ v \subseteq V
<1>1. v \subseteq V /\ \A a, b \in v : a = b
  BY DEF Optional
<1>2. CASE v = {}
  BY <1>1, <1>2, FS_EmptySet
<1>3. CASE v # {}
  <2>1. PICK a : a \in v
    BY <1>3
  <2>2. v = {a}
    BY <1>1, <2>1
  <2> QED BY <1>1, <2>2, FS_Singleton
<1> QED BY <1>2, <1>3

\* The images of finitely many finite sets are finite together.
LEMMA TogetherIsFinite ==
    ASSUME NEW S, IsFiniteSet(S), NEW A, \A x \in S : IsFiniteSet(A[x])
    PROVE  IsFiniteSet(UNION {A[x] : x \in S})
<1> DEFINE f == [x \in S |-> Cardinality(A[x])]
<1>1. \A x \in S : f[x] \in Nat /\ Cardinality(A[x]) <= f[x]
  BY FS_CardinalityType
<1> HIDE DEF f
<1>2. IsFiniteSet(Together(A, S))
  BY <1>1, UnionBySum
<1> QED BY <1>2 DEF Together

-----------------------------------------------------------------------------
(* Lines of a table.                                                       *)

LEMMA LinesAre ==
    ASSUME NEW t, Table(t), NEW S \in SUBSET DOMAIN t
    PROVE  /\ IsFiniteSet(S) /\ IsFiniteSet(Lines(t, S))
           /\ \A l : l \in Lines(t, S)
                <=> \E r \in S : \E i \in DOMAIN t[r].items : l = <<r, i>>
           /\ \A l \in Lines(t, S) :
                 /\ l[1] \in S /\ l[2] \in DOMAIN t[l[1]].items /\ l = <<l[1], l[2]>>
                 /\ Item(t, l) \in ItemRow /\ ValidItem(Item(t, l))
<1>1. IsFiniteSet(S)
  BY FS_Subset DEF Table
<1> DEFINE A == [r \in S |-> {r} \X DOMAIN t[r].items]
<1>2. ASSUME NEW r \in S
      PROVE  /\ DOMAIN t[r].items = 1..Len(t[r].items) /\ Len(t[r].items) \in Nat
             /\ \A i \in DOMAIN t[r].items : t[r].items[i] \in ItemRow
             /\ \A i \in DOMAIN t[r].items : ValidItem(t[r].items[i])
  <2>1. t[r] \in OrderRow /\ ValidOrder(t[r])
    BY DEF Table
  <2>2. t[r].items \in Seq(ItemRow)
    BY <2>1 DEF OrderRow
  <2>3. \A i \in DOMAIN t[r].items : ValidItem(t[r].items[i])
    BY <2>1 DEF ValidOrder
  <2> HIDE DEF ItemRow
  <2> QED BY <2>2, <2>3
<1>3. ASSUME NEW r \in S
      PROVE  IsFiniteSet(A[r])
  <2>0. 1 \in Int /\ Len(t[r].items) \in Int
    BY <1>2
  <2>1. IsFiniteSet(1..Len(t[r].items)) /\ IsFiniteSet({r})
    BY <2>0, FS_Interval, FS_Singleton
  <2>2. IsFiniteSet({r} \X (1..Len(t[r].items)))
    BY <2>1, FS_Product
  <2> QED BY <1>2, <2>2
<1>4. Lines(t, S) = UNION {A[r] : r \in S}
  BY DEF Lines
<1>5. IsFiniteSet(Lines(t, S))
  <2> HIDE DEF A
  <2> QED BY <1>1, <1>3, <1>4, TogetherIsFinite
<1>6. \A l : l \in Lines(t, S)
         <=> \E r \in S : \E i \in DOMAIN t[r].items : l = <<r, i>>
  BY DEF Lines
<1>7. ASSUME NEW l \in Lines(t, S)
      PROVE  /\ l[1] \in S /\ l[2] \in DOMAIN t[l[1]].items /\ l = <<l[1], l[2]>>
             /\ Item(t, l) \in ItemRow /\ ValidItem(Item(t, l))
  <2>0. PICK r \in S : \E i \in DOMAIN t[r].items : l = <<r, i>>
    BY <1>6
  <2>1. PICK i \in DOMAIN t[r].items : l = <<r, i>>
    BY <2>0
  <2> QED BY <1>2, <2>1 DEF Item
<1> QED BY <1>1, <1>5, <1>6, <1>7

\* The lines the queries look at, each a part of the one before it.
LEMMA LinesNarrow ==
    ASSUME NEW t, Table(t), NEW S \in SUBSET DOMAIN t
    PROVE  /\ Purchases(t, S) \subseteq Lines(t, S)
           /\ Retained(t, S) \subseteq Purchases(t, S)
           /\ Eligible(t, S) \subseteq Retained(t, S)
           /\ IsFiniteSet(Purchases(t, S)) /\ IsFiniteSet(Retained(t, S))
           /\ IsFiniteSet(Eligible(t, S))
           /\ \A l \in Purchases(t, S) :
                 /\ l[1] \in S /\ l[2] \in DOMAIN t[l[1]].items /\ l = <<l[1], l[2]>>
                 /\ Item(t, l) \in ItemRow /\ ValidItem(Item(t, l))
<1>1. /\ Purchases(t, S) \subseteq Lines(t, S)
      /\ Retained(t, S) \subseteq Purchases(t, S)
      /\ Eligible(t, S) \subseteq Retained(t, S)
  BY DEF Purchases, Retained, Eligible
<1>2. IsFiniteSet(Lines(t, S))
  BY LinesAre
<1>3. /\ IsFiniteSet(Purchases(t, S)) /\ IsFiniteSet(Retained(t, S))
      /\ IsFiniteSet(Eligible(t, S))
  BY <1>1, <1>2, FS_Subset
<1> QED BY <1>1, <1>3, LinesAre

\* The numbers of a line of an admitted order.
LEMMA ItemIs ==
    ASSUME NEW i \in ItemRow, ValidItem(i)
    PROVE  /\ i.quantity \in Nat \ {0} /\ i.paid \in Nat
           /\ i.cancelled \in Nat /\ i.returned \in Nat
           /\ i.cancelled <= i.quantity /\ i.returned <= i.quantity
           /\ RetainedUnits(i) \in Nat /\ RetainedUnits(i) <= i.quantity
           /\ i.brand \in Nat /\ i.product \in Nat /\ i.vendor \in Nat
           /\ IsFiniteSet(i.delivered) /\ i.delivered \subseteq Int
           /\ Unaltered(i) => RetainedUnits(i) = i.quantity
<1>1. /\ i.quantity \in Int /\ i.paid \in Int /\ i.cancelled \in Int /\ i.returned \in Int
      /\ i.brand \in Nat /\ i.product \in Nat /\ i.vendor \in Nat
      /\ i.delivered \in Optional(Int)
  BY DEF ItemRow
<1>2. IsFiniteSet(i.delivered) /\ i.delivered \subseteq Int
  BY <1>1, OptionalIsFinite
<1>3. /\ i.quantity >= 1 /\ i.paid >= 0
      /\ i.cancelled \in 0..i.quantity /\ i.returned \in 0..i.quantity
  BY DEF ValidItem
<1>4. /\ i.quantity \in Nat \ {0} /\ i.paid \in Nat
      /\ i.cancelled \in Nat /\ i.returned \in Nat
      /\ i.cancelled <= i.quantity /\ i.returned <= i.quantity
  BY <1>1, <1>3
<1>5. RetainedUnits(i) \in Nat /\ RetainedUnits(i) <= i.quantity
  BY <1>4 DEF RetainedUnits
<1>6. Unaltered(i) => RetainedUnits(i) = i.quantity
  BY <1>4 DEF RetainedUnits, Unaltered
<1> QED BY <1>1, <1>2, <1>4, <1>5, <1>6

-----------------------------------------------------------------------------
(* Rates.                                                                  *)

LEMMA StatesWithin ==
    ASSUME NEW t, Table(t), NEW S \in SUBSET DOMAIN t
    PROVE  OrderStates(t, S).canceled \in 0..OrderStates(t, S).orders
<1>1. ProductOrders(t, S) \subseteq S /\ IsFiniteSet(S)
  BY LinesAre DEF ProductOrders
<1>2. IsFiniteSet(ProductOrders(t, S))
  BY <1>1, FS_Subset
<1>3. Cardinality(ProductOrders(t, S) \ Standing(t, S)) \in 0..Cardinality(ProductOrders(t, S))
  BY <1>2, PartOf
<1> DEFINE n == Cardinality(ProductOrders(t, S))
           m == Cardinality(ProductOrders(t, S) \ Standing(t, S))
<1>4. OrderStates(t, S) = [orders |-> n, canceled |-> m]
  BY DEF OrderStates
<1>5. m \in 0..n
  BY <1>3
<1> HIDE DEF n, m
<1> QED BY <1>4, <1>5

LEMMA UnitsAre ==
    ASSUME NEW t, NEW S
    PROVE  LET all == Purchases(t, S)
           IN  ItemTotals(t, S).units
                  = SumFunctionOnSet([l \in all |-> Item(t, l).quantity], all)
<1> DEFINE all == Purchases(t, S)
           f == [l \in all |-> Item(t, l).quantity]
<1>1. ItemTotals(t, S).units = SumFunctionOnSet(f, DOMAIN f)
  BY Zenon DEF ItemTotals, SumOf, SumFunction
<1>2. DOMAIN f = all
  OBVIOUS
<1> HIDE DEF f, all
<1>3. ItemTotals(t, S).units = SumFunctionOnSet(f, all)
  BY <1>1, <1>2
<1> QED BY <1>3 DEF f, all

LEMMA ItemTotalsWithin ==
    ASSUME NEW t, Table(t), NEW S \in SUBSET DOMAIN t, NEW g, g = ItemTotals(t, S)
    PROVE  /\ g.canceledUnits \in 0..g.units /\ g.returnedUnits \in 0..g.units
           /\ g.returnedLines \in 0..g.lines /\ g.units \in Nat
<1> DEFINE all == Purchases(t, S)
           canceled == {l \in all : \/ Item(t, l).status = "cancelled"
                                    \/ Item(t, l).cancelled > 0 /\ Item(t, l).returned = 0}
           returned == {l \in all : \/ Item(t, l).status = "returned"
                                    \/ Item(t, l).returned > 0}
           f == [l \in all |-> Item(t, l).quantity]
           c == [l \in canceled |-> IF Item(t, l).cancelled > 0
                                    THEN Item(t, l).cancelled ELSE Item(t, l).quantity]
           r == [l \in returned |-> IF Item(t, l).returned > 0
                                    THEN Item(t, l).returned ELSE Item(t, l).quantity]
<1>0. g = [lines |-> Cardinality(all), units |-> SumFunctionOnSet(f, DOMAIN f),
           canceledUnits |-> SumFunctionOnSet(c, DOMAIN c),
           returnedLines |-> Cardinality(returned),
           returnedUnits |-> SumFunctionOnSet(r, DOMAIN r)]
  BY DEF ItemTotals, SumOf, SumFunction
<1>1. /\ g.units = SumFunctionOnSet(f, all)
      /\ g.canceledUnits = SumFunctionOnSet(c, canceled)
      /\ g.returnedUnits = SumFunctionOnSet(r, returned)
      /\ g.lines = Cardinality(all) /\ g.returnedLines = Cardinality(returned)
  <2>1. DOMAIN f = all /\ DOMAIN c = canceled /\ DOMAIN r = returned
    OBVIOUS
  <2> HIDE DEF f, c, r, all, canceled, returned
  <2> QED BY <1>0, <2>1
<1>2. IsFiniteSet(all) /\ canceled \subseteq all /\ returned \subseteq all
  BY LinesNarrow
<1>3. \A l \in all : /\ Item(t, l).quantity \in Nat /\ Item(t, l).cancelled \in Nat
                     /\ Item(t, l).returned \in Nat
                     /\ Item(t, l).cancelled <= Item(t, l).quantity
                     /\ Item(t, l).returned <= Item(t, l).quantity
  BY LinesNarrow, ItemIs
<1>4. /\ \A l \in all : f[l] \in Nat
      /\ \A l \in canceled : c[l] \in Nat /\ c[l] <= f[l]
      /\ \A l \in returned : r[l] \in Nat /\ r[l] <= f[l]
  BY <1>3
<1> HIDE DEF all, canceled, returned, f, c, r
<1>5. /\ SumFunctionOnSet(c, canceled) \in 0..SumFunctionOnSet(f, all)
      /\ SumFunctionOnSet(r, returned) \in 0..SumFunctionOnSet(f, all)
      /\ SumFunctionOnSet(f, all) \in Nat
  BY <1>2, <1>4, SumWithin
<1>6. Cardinality(returned) \in 0..Cardinality(all)
  BY <1>2, PartOf
<1> QED BY <1>1, <1>5, <1>6

LEMMA ReturnsWithin ==
    ASSUME NEW t, Table(t), NEW S \in SUBSET DOMAIN t, NEW g, g = TimedReturns(t, S)
    PROVE  /\ g.nightReturned \in 0..g.nightUnits /\ g.otherReturned \in 0..g.otherUnits
           /\ g.nightUnits \in Nat /\ g.otherUnits \in Nat
           /\ g.nightUnits + g.otherUnits <= ItemTotals(t, S).units
<1> DEFINE lines(time) == Purchases(t, At(t, S, time))
           f(L) == [l \in L |-> Item(t, l).quantity]
           b(L) == [l \in L |-> IF Item(t, l).returned > 0 THEN Item(t, l).returned
                                ELSE IF Item(t, l).status = "returned" THEN Item(t, l).quantity
                                ELSE 0]
           night == lines({"night"})
           other == lines(AllTimes \ {"night"})
           all == Purchases(t, S)
<1>0. g = [nightUnits |-> SumFunctionOnSet(f(night), DOMAIN f(night)),
           nightReturned |-> SumFunctionOnSet(b(night), DOMAIN b(night)),
           otherUnits |-> SumFunctionOnSet(f(other), DOMAIN f(other)),
           otherReturned |-> SumFunctionOnSet(b(other), DOMAIN b(other))]
  BY DEF TimedReturns, SumOf, SumFunction
<1>1. /\ g.nightUnits = SumFunctionOnSet(f(night), night)
      /\ g.otherUnits = SumFunctionOnSet(f(other), other)
      /\ g.nightReturned = SumFunctionOnSet(b(night), night)
      /\ g.otherReturned = SumFunctionOnSet(b(other), other)
  <2>1. /\ DOMAIN f(night) = night /\ DOMAIN f(other) = other
        /\ DOMAIN b(night) = night /\ DOMAIN b(other) = other
    OBVIOUS
  <2> HIDE DEF f, b, night, other
  <2> QED BY <1>0, <2>1
<1>2. ItemTotals(t, S).units = SumFunctionOnSet(f(all), all)
  BY UnitsAre
<1>3. night \subseteq all /\ other \subseteq all /\ night \cap other = {}
  <2>1. night \subseteq all /\ other \subseteq all
    BY DEF Purchases, Lines, At
  <2>2. \A l \in night : t[l[1]].time = "night"
    BY DEF Purchases, Lines, At
  <2>3. \A l \in other : t[l[1]].time # "night"
    BY DEF Purchases, Lines, At
  <2> HIDE DEF night, other, all
  <2> QED BY <2>1, <2>2, <2>3
<1>4. IsFiniteSet(all)
  BY LinesNarrow
<1>5. \A l \in all : /\ Item(t, l).quantity \in Nat /\ Item(t, l).returned \in Nat
                     /\ Item(t, l).returned <= Item(t, l).quantity
  BY LinesNarrow, ItemIs
<1>6. ASSUME NEW L \in SUBSET all
      PROVE  /\ IsFiniteSet(L) /\ \A l \in L : f(L)[l] \in Nat /\ f(L)[l] = f(all)[l]
             /\ \A l \in L : b(L)[l] \in Nat /\ b(L)[l] <= f(L)[l]
  <2>1. IsFiniteSet(L)
    BY <1>4, FS_Subset
  <2> HIDE DEF all
  <2> QED BY <1>5, <2>1
<1> HIDE DEF lines, f, b, night, other, all
<1>7. ASSUME NEW L \in SUBSET all
      PROVE  /\ SumFunctionOnSet(b(L), L) \in 0..SumFunctionOnSet(f(L), L)
             /\ SumFunctionOnSet(f(L), L) \in Nat
             /\ SumFunctionOnSet(f(L), L) = SumFunctionOnSet(f(all), L)
  <2>1. /\ SumFunctionOnSet(b(L), L) \in 0..SumFunctionOnSet(f(L), L)
        /\ SumFunctionOnSet(f(L), L) \in Nat
    BY <1>6, SumWithin
  <2>2. Summable(f(L), L)
    BY <1>6 DEF Summable
  <2>3. SumFunctionOnSet(f(L), L) = SumFunctionOnSet(f(all), L)
    BY <1>6, <2>2, SumOfEquals
  <2> QED BY <2>1, <2>3
<1>8. /\ Summable(f(all), night) /\ Summable(f(all), other)
      /\ \A l \in all : f(all)[l] \in Nat
  BY <1>3, <1>6 DEF Summable
<1>9. SumFunctionOnSet(f(all), night \cup other)
        = SumFunctionOnSet(f(all), night) + SumFunctionOnSet(f(all), other)
  BY <1>3, <1>8, SumOfUnion
<1>10. SumFunctionOnSet(f(all), night \cup other) <= SumFunctionOnSet(f(all), all)
  BY <1>3, <1>4, <1>8, SumOfPart
<1> QED BY <1>1, <1>2, <1>3, <1>7, <1>9, <1>10

LEMMA TimedWithin ==
    ASSUME NEW t, Table(t), NEW S \in SUBSET DOMAIN t, NEW g, g = TimedOrders(t, S)
    PROVE  /\ g.timed \in Nat /\ g.night + g.late \in 0..g.timed
           /\ g.weekend \in 0..g.timed
           /\ g.nightCanceled \in 0..g.nightAll /\ g.otherCanceled \in 0..g.otherAll
           /\ g.nightCanceled + g.otherCanceled <= OrderStates(t, S).canceled
<1> DEFINE placed == ProductOrders(t, S)
           all == Timed(t, placed)
           night == At(t, all, {"night"})
           late == At(t, all, {"late_evening"})
           on(R) == {r \in R : ~t[r].canceled}
           weekend == {r \in on(all) : Weekday(t[r].day) \in {0, 6}}
<1>0. g = [timed |-> Cardinality(on(all)), night |-> Cardinality(on(night)),
           late |-> Cardinality(on(late)), weekend |-> Cardinality(weekend),
           nightAll |-> Cardinality(night), nightCanceled |-> Cardinality(night \ on(night)),
           otherAll |-> Cardinality(all \ night),
           otherCanceled |-> Cardinality(all \ night) - Cardinality(on(all \ night))]
  BY DEF TimedOrders, Standing
<1>1. /\ g.timed = Cardinality(on(all)) /\ g.night = Cardinality(on(night))
      /\ g.late = Cardinality(on(late)) /\ g.weekend = Cardinality(weekend)
      /\ g.nightAll = Cardinality(night)
      /\ g.nightCanceled = Cardinality(night \ on(night))
      /\ g.otherAll = Cardinality(all \ night)
      /\ g.otherCanceled = Cardinality(all \ night) - Cardinality(on(all \ night))
  <2> DEFINE T == night \ on(night)
             U == all \ night
  <2> HIDE DEF on, weekend, all, night, late
  <2>1. g = [timed |-> Cardinality(on(all)), night |-> Cardinality(on(night)),
             late |-> Cardinality(on(late)), weekend |-> Cardinality(weekend),
             nightAll |-> Cardinality(night), nightCanceled |-> Cardinality(T),
             otherAll |-> Cardinality(U),
             otherCanceled |-> Cardinality(U) - Cardinality(on(U))]
    BY <1>0
  <2>2. /\ g.timed = Cardinality(on(all)) /\ g.night = Cardinality(on(night))
        /\ g.late = Cardinality(on(late)) /\ g.weekend = Cardinality(weekend)
        /\ g.nightAll = Cardinality(night) /\ g.nightCanceled = Cardinality(T)
        /\ g.otherAll = Cardinality(U)
        /\ g.otherCanceled = Cardinality(U) - Cardinality(on(U))
    <3> HIDE DEF T, U
    <3> QED BY <2>1
  <2> QED BY <2>2
<1>2. OrderStates(t, S).canceled = Cardinality(placed \ on(placed))
  <2>1. placed \subseteq S
    BY DEF ProductOrders
  <2>2. placed \ Standing(t, S) = placed \ on(placed)
    <3> HIDE DEF placed
    <3> QED BY <2>1 DEF Standing
  <2> DEFINE n == Cardinality(placed)
             m == Cardinality(placed \ Standing(t, S))
  <2>3. OrderStates(t, S) = [orders |-> n, canceled |-> m]
    BY DEF OrderStates
  <2>4. m = Cardinality(placed \ on(placed))
    BY <2>2
  <2>5. OrderStates(t, S).canceled = m
    <3> HIDE DEF n, m
    <3> QED BY <2>3
  <2> QED BY <2>4, <2>5
<1>3. /\ IsFiniteSet(placed) /\ all \subseteq placed /\ night \subseteq all
      /\ late \subseteq all /\ night \cap late = {}
  <2>1. placed \subseteq S /\ IsFiniteSet(S)
    BY LinesAre DEF ProductOrders
  <2>2. IsFiniteSet(placed)
    BY <2>1, FS_Subset
  <2> HIDE DEF placed
  <2> QED BY <2>2 DEF At, Timed
<1> HIDE DEF placed, all, night, late
<1>4. IsFiniteSet(all) /\ IsFiniteSet(on(all)) /\ IsFiniteSet(night) /\ IsFiniteSet(all \ night)
  <2>1. IsFiniteSet(all)
    BY <1>3, FS_Subset
  <2> QED BY <1>3, <2>1, FS_Subset
<1>5. /\ Cardinality(on(all)) \in Nat
      /\ Cardinality(on(night)) + Cardinality(on(late)) \in 0..Cardinality(on(all))
  <2>1. on(night) \subseteq on(all) /\ on(late) \subseteq on(all) /\ on(night) \cap on(late) = {}
    BY <1>3
  <2> HIDE DEF on
  <2> QED BY <1>4, <2>1, PartsOf
<1>6. Cardinality(weekend) \in 0..Cardinality(on(all))
  <2>1. weekend \subseteq on(all)
    OBVIOUS
  <2> HIDE DEF weekend, on
  <2> QED BY <1>4, <2>1, PartOf
<1>7. Cardinality(night \ on(night)) \in 0..Cardinality(night)
  BY <1>4, PartOf
<1>8. /\ Cardinality(on(all \ night)) \in Nat
      /\ Cardinality((all \ night) \ on(all \ night)) \in Nat
      /\ Cardinality(on(all \ night)) + Cardinality((all \ night) \ on(all \ night))
            = Cardinality(all \ night)
  <2> DEFINE T == on(all \ night)
             U == (all \ night) \ T
  <2>1. /\ T \subseteq all \ night /\ U \subseteq all \ night /\ T \cap U = {}
        /\ T \cup U = all \ night
    OBVIOUS
  <2> HIDE DEF T, U
  <2>2. /\ Cardinality(T) \in Nat /\ Cardinality(U) \in Nat
        /\ Cardinality(T) + Cardinality(U) = Cardinality(all \ night)
    BY <1>4, <2>1, PartsOf
  <2> QED BY <2>2 DEF T, U
<1>9. Cardinality(night \ on(night)) + Cardinality((all \ night) \ on(all \ night))
        <= Cardinality(placed \ on(placed))
  <2> DEFINE T == night \ on(night)
             U == (all \ night) \ on(all \ night)
             V == placed \ on(placed)
  <2>1. /\ T \subseteq V /\ U \subseteq V /\ T \cap U = {}
    BY <1>3
  <2>2. IsFiniteSet(V)
    BY <1>3, FS_Subset
  <2> HIDE DEF T, U, V
  <2>3. Cardinality(T) + Cardinality(U) <= Cardinality(V)
    BY <2>1, <2>2, PartsOf
  <2> QED BY <2>3 DEF T, U, V
<1>10. Cardinality(all \ night) \in Nat
  BY <1>4, FS_CardinalityType
<1> HIDE DEF on, weekend
<1>11. /\ g.timed \in Nat /\ g.night + g.late \in 0..g.timed /\ g.weekend \in 0..g.timed
       /\ g.nightCanceled \in 0..g.nightAll
  BY <1>1, <1>5, <1>6, <1>7
<1>12. g.otherCanceled = Cardinality((all \ night) \ on(all \ night))
  BY <1>1, <1>8, <1>10
<1>13. g.otherCanceled \in 0..g.otherAll
  BY <1>1, <1>8, <1>10, <1>12
<1> QED BY <1>1, <1>2, <1>9, <1>11, <1>12, <1>13

\* The products of some lines, and the orders of some.
LEMMA ProductsAre ==
    ASSUME NEW t, Table(t), NEW S \in SUBSET DOMAIN t, NEW L \in SUBSET Purchases(t, S)
    PROVE  /\ IsFiniteSet(L) /\ IsFiniteSet(ProductsOf(t, L)) /\ IsFiniteSet(OrdersOf(L))
           /\ Cardinality(ProductsOf(t, L)) \in 0..Cardinality(Identified(t, L))
           /\ Cardinality(Identified(t, L)) \in 0..Cardinality(L)
           /\ Cardinality(OrdersOf(L)) \in 0..Cardinality(L)
           /\ OrdersOf(L) \subseteq S
           /\ Identified(t, L) \subseteq L
           /\ L # {} => OrdersOf(L) # {}
<1>1. IsFiniteSet(L)
  BY LinesNarrow, FS_Subset
<1>2. Identified(t, L) \subseteq L
  BY DEF Identified
<1>3. IsFiniteSet(Identified(t, L))
  BY <1>1, <1>2, FS_Subset
<1> DEFINE I == Identified(t, L)
           p == [l \in I |-> Key(Item(t, l))]
           o == [l \in L |-> l[1]]
<1>4. ProductsOf(t, L) = {p[l] : l \in I}
  BY DEF ProductsOf
<1>5. OrdersOf(L) = {o[l] : l \in L}
  BY DEF OrdersOf
<1>7. OrdersOf(L) \subseteq S /\ (L # {} => OrdersOf(L) # {})
  BY LinesNarrow DEF OrdersOf
<1> HIDE DEF I, p, o
<1>8. IsFiniteSet(ProductsOf(t, L)) /\ Cardinality(ProductsOf(t, L)) <= Cardinality(I)
  BY <1>3, <1>4, ImageIs DEF I
<1>9. IsFiniteSet(OrdersOf(L)) /\ Cardinality(OrdersOf(L)) <= Cardinality(L)
  BY <1>1, <1>5, ImageIs
<1>10. /\ Cardinality(ProductsOf(t, L)) \in Nat /\ Cardinality(I) \in Nat
       /\ Cardinality(OrdersOf(L)) \in Nat /\ Cardinality(L) \in Nat
  BY <1>1, <1>3, <1>8, <1>9, FS_CardinalityType DEF I
<1>11. Cardinality(I) \in 0..Cardinality(L)
  BY <1>1, <1>2, PartOf DEF I
<1> QED BY <1>1, <1>2, <1>7, <1>8, <1>9, <1>10, <1>11 DEF I

\* Occasions of a product: the orders with a line of it, at least one.
LEMMA OccasionsAre ==
    ASSUME NEW t, Table(t), NEW S \in SUBSET DOMAIN t, NEW L \in SUBSET Purchases(t, S),
           NEW p \in ProductsOf(t, L)
    PROVE  /\ IsFiniteSet(Occasions(t, L, p)) /\ Occasions(t, L, p) \subseteq S
           /\ Cardinality(Occasions(t, L, p)) \in Nat \ {0}
<1> DEFINE M == {l \in L : Key(Item(t, l)) = p}
<1>1. M \subseteq L /\ M # {}
  BY DEF ProductsOf, Identified
<1>2. Occasions(t, L, p) = OrdersOf(M)
  BY DEF Occasions
<1> HIDE DEF M
<1>3. /\ IsFiniteSet(OrdersOf(M)) /\ OrdersOf(M) # {} /\ OrdersOf(M) \subseteq S
  BY <1>1, ProductsAre
<1> QED BY <1>2, <1>3, SizeOf

LEMMA RepeatWithin ==
    ASSUME NEW t, Table(t), NEW S \in SUBSET DOMAIN t, NEW g, g = RepeatPurchases(t, S)
    PROVE  /\ g.repeated \in 0..g.products /\ g.choices \in 0..g.occasions
           /\ g.repeatOccasions \in 0..g.occasions /\ g.occasions \in Nat
           /\ g.lines = Cardinality(Retained(t, S))
           /\ g.occasions = g.products + g.choices
<1> DEFINE retained == Retained(t, S)
           products == ProductsOf(t, retained)
           count(p) == Cardinality(Occasions(t, retained, p))
           repeated == {p \in products : count(p) >= 2}
           f == [p \in products |-> count(p)]
           h == [p \in repeated |-> count(p)]
           c == [p \in repeated |-> count(p) - 1]
<1>1. /\ g.products = Cardinality(products) /\ g.repeated = Cardinality(repeated)
      /\ g.occasions = SumFunctionOnSet(f, products)
      /\ g.repeatOccasions = SumFunctionOnSet(h, repeated)
      /\ g.choices = SumFunctionOnSet(c, repeated)
      /\ g.lines = Cardinality(retained)
  <2> DEFINE m == IF products = {} THEN 0 ELSE Max({count(p) : p \in products})
             i == Cardinality(Identified(t, retained))
  <2>1. g = [products |-> Cardinality(products), repeated |-> Cardinality(repeated),
             occasions |-> SumFunctionOnSet(f, DOMAIN f),
             repeatOccasions |-> SumFunctionOnSet(h, DOMAIN h),
             choices |-> SumFunctionOnSet(c, DOMAIN c),
             most |-> m, lines |-> Cardinality(retained), identified |-> i]
    BY DEF RepeatPurchases, SumFunction
  <2>2. DOMAIN f = products /\ DOMAIN h = repeated /\ DOMAIN c = repeated
    OBVIOUS
  <2> HIDE DEF retained, products, count, repeated, f, h, c, m, i
  <2> QED BY <2>1, <2>2
<1>2. IsFiniteSet(products) /\ repeated \subseteq products /\ IsFiniteSet(repeated)
  <2>1. IsFiniteSet(products)
    BY LinesNarrow, ProductsAre
  <2> QED BY <2>1, FS_Subset
<1>3. \A p \in products : count(p) \in Nat \ {0}
  BY LinesNarrow, OccasionsAre
<1> HIDE DEF count, products
<1>4. /\ \A p \in products : f[p] \in Nat
      /\ \A p \in repeated : h[p] \in Nat /\ h[p] <= f[p]
      /\ \A p \in repeated : c[p] \in Nat /\ c[p] <= f[p]
  BY <1>3
<1>5. Cardinality(repeated) \in 0..Cardinality(products)
  BY <1>2, PartOf
<1> DEFINE one == [p \in products |-> 1]
           all == [p \in products |-> f[p] - 1]
<1>6. SumFunctionOnSet(f, products)
        = SumFunctionOnSet(one, products) + SumFunctionOnSet(all, products)
  <2>1. /\ Summable(one, products) /\ Summable(all, products)
        /\ \A p \in products : f[p] = one[p] + all[p]
    BY <1>2, <1>4 DEF Summable
  <2> HIDE DEF one, all, f
  <2> QED BY <2>1, SumOfSums
<1>7. SumFunctionOnSet(one, products) = Cardinality(products)
  BY <1>2, SumOfOnes
<1>8. SumFunctionOnSet(all, products) = SumFunctionOnSet(c, repeated)
  <2> DEFINE rest == products \ repeated
  <2>1. /\ Summable(all, repeated) /\ Summable(all, rest) /\ Summable(c, repeated)
        /\ repeated \cap rest = {} /\ repeated \cup rest = products
    BY <1>2, <1>4, FS_Subset DEF Summable
  <2>2. \A p \in repeated : all[p] = c[p]
    OBVIOUS
  <2>3. \A p \in rest : all[p] = 0
    BY <1>3
  <2> HIDE DEF all, rest, repeated, c
  <2>4. SumFunctionOnSet(all, products)
          = SumFunctionOnSet(all, repeated) + SumFunctionOnSet(all, rest)
    BY <2>1, SumOfUnion
  <2>5. SumFunctionOnSet(all, rest) = 0
    BY <2>1, <2>3, SumOfZeros DEF Summable
  <2>6. SumFunctionOnSet(all, repeated) = SumFunctionOnSet(c, repeated)
    BY <2>1, <2>2, SumOfEquals
  <2>7. SumFunctionOnSet(all, repeated) \in Int
    BY <2>1, SumIsInt DEF Summable
  <2> QED BY <2>4, <2>5, <2>6, <2>7
<1> HIDE DEF f, h, c, one, all, repeated
<1>9. /\ SumFunctionOnSet(h, repeated) \in 0..SumFunctionOnSet(f, products)
      /\ SumFunctionOnSet(c, repeated) \in 0..SumFunctionOnSet(f, products)
      /\ SumFunctionOnSet(f, products) \in Nat
  BY <1>2, <1>4, SumWithin
<1> QED BY <1>1, <1>5, <1>6, <1>7, <1>8, <1>9

\* The lines of one order among some lines.
LEMMA OfOrders ==
    ASSUME NEW L, IsFiniteSet(L), NEW R
    PROVE  LET of(r) == {l \in L : l[1] = r}
           IN  /\ \A r : IsFiniteSet(of(r)) /\ of(r) \subseteq L
               /\ UNION {of(r) : r \in R} \subseteq L
               /\ \A r \in OrdersOf(L) : of(r) # {}
               /\ \A r : of(r) # {} => r \in OrdersOf(L)
<1> QED BY FS_Subset DEF OrdersOf

LEMMA BasketsWithin ==
    ASSUME NEW t, Table(t), NEW S \in SUBSET DOMAIN t, NEW g, g = Baskets(t, S)
    PROVE  /\ g.singleValue \in 0..g.value /\ g.value \in Nat
           /\ g.lines = Cardinality(Retained(t, S))
           /\ g.orders = Cardinality(OrdersOf(Retained(t, S))) /\ g.orders \in Nat
<1> DEFINE retained == Retained(t, S)
           of(r) == {l \in retained : l[1] = r}
           single == {r \in OrdersOf(retained) : Cardinality(of(r)) = 1}
           alone == UNION {of(r) : r \in single}
           f == [l \in retained |-> Item(t, l).paid]
           h == [l \in alone |-> Item(t, l).paid]
<1>1. /\ g.value = SumFunctionOnSet(f, retained)
      /\ g.singleValue = SumFunctionOnSet(h, alone)
      /\ g.lines = Cardinality(retained)
      /\ g.orders = Cardinality(OrdersOf(retained))
  <2> DEFINE n == Cardinality(single)
  <2>1. g = [orders |-> Cardinality(OrdersOf(retained)),
             lines |-> Cardinality(retained), single |-> n,
             value |-> SumFunctionOnSet(f, DOMAIN f),
             singleValue |-> SumFunctionOnSet(h, DOMAIN h)]
    BY DEF Baskets, SumOf, SumFunction
  <2>2. DOMAIN f = retained /\ DOMAIN h = alone
    OBVIOUS
  <2> HIDE DEF retained, of, single, alone, f, h, n
  <2> QED BY <2>1, <2>2
<1>2. IsFiniteSet(retained) /\ alone \subseteq retained
  BY LinesNarrow
<1>3. \A l \in retained : Item(t, l).paid \in Nat
  BY LinesNarrow, ItemIs
<1>4. OrdersOf(retained) \subseteq S /\ IsFiniteSet(OrdersOf(retained))
  BY LinesNarrow, ProductsAre
<1> HIDE DEF retained, alone
<1>5. /\ \A l \in retained : f[l] \in Nat
      /\ \A l \in alone : h[l] \in Nat /\ h[l] <= f[l]
  BY <1>2, <1>3
<1> HIDE DEF f, h
<1>6. /\ SumFunctionOnSet(h, alone) \in 0..SumFunctionOnSet(f, retained)
      /\ SumFunctionOnSet(f, retained) \in Nat
  BY <1>2, <1>5, SumWithin
<1>7. Cardinality(OrdersOf(retained)) \in Nat
  BY <1>4, FS_CardinalityType
<1> QED BY <1>1, <1>6, <1>7 DEF retained

LEMMA CompositionsWithin ==
    ASSUME NEW t, Table(t), NEW S \in SUBSET DOMAIN t, NEW g, g = Compositions(t, S)
    PROVE  /\ g.single \in 0..g.orders /\ g.orders \in Nat
           /\ g.orders <= Cardinality(OrdersOf(Retained(t, S)))
<1> DEFINE retained == Retained(t, S)
           of(r) == {l \in retained : l[1] = r}
           valid == {r \in OrdersOf(retained) : of(r) = Identified(t, of(r))}
           single == {r \in valid : Cardinality(ProductsOf(t, of(r))) = 1}
<1>1. g.orders = Cardinality(valid) /\ g.single = Cardinality(single)
  <2>1. g = [orders |-> Cardinality(valid), single |-> Cardinality(single)]
    BY DEF Compositions
  <2> HIDE DEF valid, single
  <2> QED BY <2>1
<1>2. IsFiniteSet(OrdersOf(retained))
  BY LinesNarrow, ProductsAre
<1>3. valid \subseteq OrdersOf(retained) /\ single \subseteq valid
  OBVIOUS
<1> HIDE DEF valid, single, retained
<1>4. /\ Cardinality(valid) \in 0..Cardinality(OrdersOf(retained)) /\ IsFiniteSet(valid)
      /\ Cardinality(OrdersOf(retained)) \in Nat /\ Cardinality(valid) \in Nat
  BY <1>2, <1>3, PartOf
<1>5. Cardinality(single) \in 0..Cardinality(valid)
  BY <1>3, <1>4, PartOf
<1> QED BY <1>1, <1>4, <1>5 DEF retained

\* The deliveries of a report, each a pair of an order that stands and some hours.
LEMMA DeliveriesAre ==
    ASSUME NEW t, Table(t), NEW S \in SUBSET DOMAIN t
    PROVE  /\ IsFiniteSet(Deliveries(t, S))
           /\ \A e \in Deliveries(t, S) : e = <<e[1], e[2]>> /\ e[1] \in S /\ e[2] \in Nat
<1> DEFINE R == Timed(t, Standing(t, S))
           D == [r \in R |-> UNION {Item(t, l).delivered : l \in Purchases(t, {r})}]
           A == [r \in R |-> {r} \X D[r]]
           all == UNION {A[r] : r \in R}
<1>1. R \subseteq S /\ IsFiniteSet(R)
  <2>1. R \subseteq S
    BY DEF Timed, At, Standing
  <2> QED BY <2>1, LinesAre, FS_Subset
<1>2. ASSUME NEW r \in R
      PROVE  IsFiniteSet(D[r]) /\ D[r] \subseteq Int
  <2> DEFINE L == Purchases(t, {r})
             d == [l \in L |-> Item(t, l).delivered]
  <2>1. {r} \in SUBSET DOMAIN t
    BY <1>1
  <2>2. IsFiniteSet(L) /\ \A l \in L : Item(t, l) \in ItemRow /\ ValidItem(Item(t, l))
    BY <2>1, LinesNarrow
  <2> HIDE DEF L
  <2>3. \A l \in L : IsFiniteSet(d[l]) /\ d[l] \subseteq Int
    BY <2>2, ItemIs
  <2>4. D[r] = UNION {d[l] : l \in L}
    BY DEF L
  <2> HIDE DEF d, D
  <2> QED BY <2>2, <2>3, <2>4, TogetherIsFinite
<1>3. \A r \in R : IsFiniteSet(A[r])
  <2> HIDE DEF D, R
  <2>1. \A r \in R : IsFiniteSet({r} \X D[r])
    BY <1>2, FS_Singleton, FS_Product
  <2> QED BY <2>1
<1>4. IsFiniteSet(all)
  <2> HIDE DEF A, R
  <2> QED BY <1>1, <1>3, TogetherIsFinite
<1>5. Deliveries(t, S) = {e \in all : e[2] >= 0}
  BY DEF Deliveries
<1>6. \A e \in all : e = <<e[1], e[2]>> /\ e[1] \in R /\ e[2] \in Int
  <2> HIDE DEF D, R
  <2> QED BY <1>2
<1> HIDE DEF all, R
<1>7. IsFiniteSet(Deliveries(t, S))
  BY <1>4, <1>5, FS_Subset
<1> QED BY <1>1, <1>5, <1>6, <1>7

LEMMA SpeedWithin ==
    ASSUME NEW t, Table(t), NEW S \in SUBSET DOMAIN t, NEW g, g = DeliverySpeed(t, S)
    PROVE  /\ g.day \in 0..g.twoDays /\ g.twoDays \in 0..g.shipments
           /\ g.shipments \in Nat /\ g.twoDays \in Nat /\ g.day \in Nat
           /\ g.shipments = Cardinality(Deliveries(t, S))
           /\ g.day = Cardinality({e \in Deliveries(t, S) : e[2] <= 24})
           /\ g.twoDays = Cardinality({e \in Deliveries(t, S) : e[2] <= 48})
<1> DEFINE all == Deliveries(t, S)
           day == {e \in all : e[2] <= 24}
           two == {e \in all : e[2] <= 48}
<1>1. /\ g.shipments = Cardinality(all) /\ g.day = Cardinality(day)
      /\ g.twoDays = Cardinality(two)
  <2>1. g = [shipments |-> Cardinality(all), day |-> Cardinality(day),
             twoDays |-> Cardinality(two)]
    BY DEF DeliverySpeed
  <2> HIDE DEF all, day, two
  <2> QED BY <2>1
<1>2. IsFiniteSet(all) /\ \A e \in all : e[2] \in Nat
  BY DeliveriesAre
<1> HIDE DEF all
<1>3. two \subseteq all /\ day \subseteq two
  BY <1>2
<1> HIDE DEF day, two
<1>4. /\ Cardinality(two) \in 0..Cardinality(all) /\ IsFiniteSet(two)
      /\ Cardinality(all) \in Nat /\ Cardinality(two) \in Nat
  BY <1>2, <1>3, PartOf
<1>5. Cardinality(day) \in 0..Cardinality(two) /\ Cardinality(day) \in Nat
  BY <1>3, <1>4, PartOf
<1> QED BY <1>1, <1>4, <1>5 DEF all, day, two

LEMMA CoverageWithin ==
    ASSUME NEW t, Table(t), NEW S \in SUBSET DOMAIN t, NEW g, g = ProductCoverage(t, S)
    PROVE  /\ g.identified \in 0..g.lines /\ g.spendable \in 0..g.lines
           /\ g.lines = Cardinality(Eligible(t, S))
           /\ g.identified = Cardinality(Identified(t, Eligible(t, S)))
           /\ g.products = Cardinality(ProductsOf(t, Eligible(t, S)))
           /\ g.units = SumFunctionOnSet([l \in Eligible(t, S) |-> RetainedUnits(Item(t, l))],
                                         Eligible(t, S))
<1> DEFINE eligible == Eligible(t, S)
           identified == Identified(t, eligible)
           spendable == {l \in identified : Unaltered(Item(t, l))}
           f == [l \in eligible |-> RetainedUnits(Item(t, l))]
<1>1. /\ g.lines = Cardinality(eligible) /\ g.identified = Cardinality(identified)
      /\ g.spendable = Cardinality(spendable)
      /\ g.products = Cardinality(ProductsOf(t, eligible))
      /\ g.units = SumFunctionOnSet(f, eligible)
  <2>1. g = [lines |-> Cardinality(eligible), units |-> SumFunctionOnSet(f, DOMAIN f),
             identified |-> Cardinality(identified),
             products |-> Cardinality(ProductsOf(t, eligible)),
             spendable |-> Cardinality(spendable)]
    BY DEF ProductCoverage, SumOf, SumFunction
  <2>2. DOMAIN f = eligible
    OBVIOUS
  <2> HIDE DEF eligible, identified, spendable, f
  <2> QED BY <2>1, <2>2
<1>2. IsFiniteSet(eligible) /\ identified \subseteq eligible /\ spendable \subseteq eligible
  BY LinesNarrow DEF Identified
<1>3. /\ Cardinality(identified) \in 0..Cardinality(eligible)
      /\ Cardinality(spendable) \in 0..Cardinality(eligible)
  <2> HIDE DEF eligible, identified, spendable
  <2> QED BY <1>2, PartOf
<1> HIDE DEF eligible, identified, spendable, f
<1>4. /\ g.identified \in 0..g.lines /\ g.spendable \in 0..g.lines
  BY <1>1, <1>3
<1> QED BY <1>1, <1>4 DEF eligible, identified, f

-----------------------------------------------------------------------------
(* Days.                                                                   *)

LEMMA DayIs ==
    ASSUME NEW d \in Day
    PROVE  /\ d \in Nat /\ Month(d) \in Nat \ {0} /\ d % 100 \in 1..30
           /\ d = 100 * Month(d) + (d % 100) /\ d # 0
           /\ DayNumber(d) = 30 * Month(d) + (d % 100) /\ DayNumber(d) \in Nat
<1>1. d \in Nat /\ Month(d) >= 1 /\ d % 100 \in 1..30
  BY DEF Day
<1>2. Month(d) \in Nat /\ d = 100 * Month(d) + (d % 100)
  BY <1>1 DEF Month
<1>3. d % 100 \in Int
  BY <1>1
<1>4. DayNumber(d) = 30 * Month(d) + (d % 100)
  BY <1>1, <1>2, <1>3 DEF DayNumber
<1> QED BY <1>1, <1>2, <1>4

\* The number of a day keeps the order of days, and days are at least as far apart as
\* their months tell.
LEMMA DaysKeepOrder ==
    ASSUME NEW d \in Day, NEW e \in Day
    PROVE  /\ d <= e <=> DayNumber(d) <= DayNumber(e)
           /\ d = e <=> DayNumber(d) = DayNumber(e)
           /\ d <= e => Month(d) <= Month(e)
<1> DEFINE m == Month(d)
           n == Month(e)
           i == d % 100
           j == e % 100
<1>1. /\ m \in Nat /\ i \in 1..30 /\ d = 100 * m + i /\ DayNumber(d) = 30 * m + i
      /\ n \in Nat /\ j \in 1..30 /\ e = 100 * n + j /\ DayNumber(e) = 30 * n + j
  BY DayIs
<1> HIDE DEF m, n, i, j
<1> DEFINE kept == /\ d <= e <=> DayNumber(d) <= DayNumber(e)
                   /\ d = e <=> DayNumber(d) = DayNumber(e)
                   /\ d <= e => m <= n
<1>2. m < n => kept
  BY <1>1
<1>3. m = n => kept
  BY <1>1
<1>4. m > n => kept
  BY <1>1
<1>5. kept
  BY <1>1, <1>2, <1>3, <1>4
<1> QED BY <1>5 DEF m, n

\* The orders that stand and have a line that was kept, and their days.
Bought(t, S) == Standing(t, KeptOrders(t, S))
BoughtDays(t, S) == {t[r].day : r \in Bought(t, S)}

LEMMA BoughtAre ==
    ASSUME NEW t, Table(t), NEW S \in SUBSET DOMAIN t
    PROVE  /\ IsFiniteSet(Bought(t, S)) /\ Bought(t, S) \subseteq S
           /\ Bought(t, S) \subseteq ProductOrders(t, S)
           /\ IsFiniteSet(BoughtDays(t, S)) /\ BoughtDays(t, S) \subseteq Day
           /\ \A r \in DOMAIN t : t[r].day \in Day
<1>1. Bought(t, S) \subseteq S
  BY DEF Bought, Standing, KeptOrders
<1>2. Bought(t, S) \subseteq ProductOrders(t, S)
  <2> SUFFICES ASSUME NEW r \in Bought(t, S) PROVE r \in ProductOrders(t, S)
    OBVIOUS
  <2>1. r \in S /\ (t[r].items = <<>> \/ \E l \in Purchases(t, {r}) : TRUE)
    BY DEF Bought, Standing, KeptOrders
  <2>2. ASSUME NEW l \in Purchases(t, {r})
        PROVE  r \in OrdersOf(Purchases(t, S))
    <3>1. l \in Purchases(t, S) /\ l[1] = r
      BY <2>1 DEF Purchases, Lines
    <3> QED BY <3>1 DEF OrdersOf
  <2> QED BY <2>1, <2>2 DEF ProductOrders
<1>3. IsFiniteSet(Bought(t, S))
  BY <1>1, LinesAre, FS_Subset
<1>4. \A r \in DOMAIN t : t[r].day \in Day
  BY DEF Table, OrderRow
<1> DEFINE day == [r \in Bought(t, S) |-> t[r].day]
<1>5. BoughtDays(t, S) = {day[r] : r \in Bought(t, S)} /\ BoughtDays(t, S) \subseteq Day
  BY <1>1, <1>4 DEF BoughtDays
<1> HIDE DEF day
<1>6. IsFiniteSet(BoughtDays(t, S))
  BY <1>3, <1>5, ImageIs
<1> QED BY <1>1, <1>2, <1>3, <1>4, <1>5, <1>6

\* Finitely many days have a first and a last.
LEMMA ExtremeDays ==
    ASSUME NEW D \in SUBSET Nat, IsFiniteSet(D), D # {}
    PROVE  /\ Min(D) \in D /\ Max(D) \in D
           /\ \A d \in D : Min(D) <= d /\ d <= Max(D)
<1>1. D \subseteq Int
  OBVIOUS
<1>2. Min(D) \in D /\ \A d \in D : Min(D) <= d
  BY <1>1, MinIs
<1>3. Max(D) \in D /\ \A d \in D : Max(D) >= d
  BY <1>1, MaxIs
<1> QED BY <1>2, <1>3

LEMMA DatesAre ==
    ASSUME NEW t, Table(t), NEW S \in SUBSET DOMAIN t, NEW g, g = InsightDates(t, S),
           NEW D, D = BoughtDays(t, S)
    PROVE  /\ g.days = Cardinality(D) /\ g.orders = Cardinality(Bought(t, S))
           /\ D = {} => g.first = 0 /\ g.last = 0
           /\ D # {} => g.first = Min(D) /\ g.last = Max(D)
           /\ g.first \in Day \cup {0} /\ g.last \in Day \cup {0}
<1> DEFINE first == IF D = {} THEN 0 ELSE Min(D)
           last == IF D = {} THEN 0 ELSE Max(D)
<1>1. g = [first |-> first, last |-> last, days |-> Cardinality(D),
           orders |-> Cardinality(Bought(t, S))]
  BY DEF InsightDates, Bought, BoughtDays
<1>2. first \in Day \cup {0} /\ last \in Day \cup {0}
  <2>1. D \in SUBSET Nat /\ IsFiniteSet(D) /\ D \subseteq Day
    BY BoughtAre DEF Day
  <2> QED BY <2>1, ExtremeDays
<1>3. /\ g.days = Cardinality(D) /\ g.orders = Cardinality(Bought(t, S))
      /\ g.first = first /\ g.last = last
  <2> HIDE DEF first, last
  <2> QED BY <1>1
<1> QED BY <1>2, <1>3

LEMMA DaySeriesIs ==
    ASSUME NEW t, NEW S
    PROVE  LET of(day) == {r \in Bought(t, S) : t[r].day = day}
           IN  OrderDaySeries(t, S) = [day \in BoughtDays(t, S) |-> Cardinality(of(day))]
<1> QED BY DEF OrderDaySeries, Bought, BoughtDays

\* Days of an interval are not more than it has.
LEMMA DaysFit ==
    ASSUME NEW D \in SUBSET Day, IsFiniteSet(D), NEW a \in Day, NEW b \in Day, a <= b,
           \A d \in D : a <= d /\ d <= b
    PROVE  /\ DayNumber(b) - DayNumber(a) + 1 \in Nat
           /\ Cardinality(D) \in 0..(DayNumber(b) - DayNumber(a) + 1)
<1> DEFINE f == [d \in D |-> DayNumber(d)]
           T == {f[d] : d \in D}
           I == DayNumber(a)..DayNumber(b)
<1>1. /\ DayNumber(a) \in Int /\ DayNumber(b) \in Int /\ DayNumber(a) <= DayNumber(b)
  BY DayIs, DaysKeepOrder
<1>2. T \subseteq I
  <2>1. \A d \in D : DayNumber(d) \in Nat /\ DayNumber(a) <= DayNumber(d) /\ DayNumber(d) <= DayNumber(b)
    BY DayIs, DaysKeepOrder
  <2> QED BY <1>1, <2>1
<1>3. \A d, e \in D : f[d] = f[e] => d = e
  BY DaysKeepOrder
<1> HIDE DEF f
<1>4. Cardinality(T) = Cardinality(D)
  BY <1>3, ImageIs
<1>5. IsFiniteSet(I) /\ Cardinality(I) = DayNumber(b) - DayNumber(a) + 1
  BY <1>1, FS_Interval
<1> HIDE DEF T, I
<1>6. Cardinality(T) \in 0..Cardinality(I) /\ Cardinality(I) \in Nat
  BY <1>2, <1>5, PartOf
<1> QED BY <1>4, <1>5, <1>6

LEMMA TimingWithin ==
    ASSUME NEW t, Table(t), NEW S \in SUBSET DOMAIN t, NEW g, NEW filter \in Filter,
           g.dates = InsightDates(t, S), g.day_series = OrderDaySeries(t, S)
    PROVE  LET timing == PurchaseTiming(g, filter)
           IN  timing.purchases \in 0..timing.observed /\ timing.observed \in Nat
<1> DEFINE D == BoughtDays(t, S)
           start == IF filter.from # 0 THEN filter.from ELSE g.dates.first
           end == IF filter.to # 0 THEN filter.to ELSE g.dates.last
           E == {d \in DOMAIN g.day_series : d \in start..end}
           n == Cardinality(E)
           k == DayNumber(end) - DayNumber(start) + 1
           timing == PurchaseTiming(g, filter)
<1>1. start \in Day \cup {0} /\ end \in Day \cup {0}
  <2>1. filter \in [from: Day \cup {0}, to: Day \cup {0}]
    BY ReportsAssumption
  <2>2. filter.from \in Day \cup {0} /\ filter.to \in Day \cup {0}
    BY <2>1
  <2>3. g.dates.first \in Day \cup {0} /\ g.dates.last \in Day \cup {0}
    BY DatesAre
  <2> QED BY <2>2, <2>3
<1>2. DOMAIN g.day_series = D /\ IsFiniteSet(D) /\ D \subseteq Day
  BY DaySeriesIs, BoughtAre
<1>3. timing = IF start = 0 \/ end = 0 \/ end < start THEN [purchases |-> 0, observed |-> 0]
               ELSE [purchases |-> n, observed |-> k]
  BY DEF PurchaseTiming
<1>4. CASE start = 0 \/ end = 0 \/ end < start
  <2> HIDE DEF start, end, n, k
  <2>1. timing = [purchases |-> 0, observed |-> 0]
    BY <1>3, <1>4
  <2> QED BY <2>1
<1>5. CASE ~(start = 0 \/ end = 0 \/ end < start)
  <2>1. E \subseteq Day /\ IsFiniteSet(E)
    BY <1>2, FS_Subset
  <2>2. start \in Day /\ end \in Day /\ start \in Nat /\ end \in Nat
    BY <1>1, <1>5 DEF Day
  <2>3. start <= end /\ \A d \in E : start <= d /\ d <= end
    BY <2>2, <1>5
  <2> HIDE DEF start, end, E
  <2>4. n \in 0..k /\ k \in Nat
    BY <2>1, <2>2, <2>3, DaysFit
  <2> HIDE DEF n, k
  <2>5. timing = [purchases |-> n, observed |-> k]
    BY <1>3, <1>5
  <2> QED BY <2>4, <2>5
<1> QED BY <1>4, <1>5

-----------------------------------------------------------------------------
(* Brands.                                                                 *)

LEMMA PeakIs ==
    ASSUME NEW f, IsFiniteSet(DOMAIN f), \A k \in DOMAIN f : f[k] \in Nat
    PROVE  /\ Peak(f) \in Nat
           /\ DOMAIN f = {} => Peak(f) = 0
           /\ DOMAIN f # {} => \E k \in DOMAIN f : f[k] = Peak(f)
           /\ \A k \in DOMAIN f : f[k] <= Peak(f)
<1> DEFINE V == {f[k] : k \in DOMAIN f}
<1>1. IsFiniteSet(V) /\ V \in SUBSET Int
  BY ImageIs
<1>2. CASE DOMAIN f = {}
  BY <1>2 DEF Peak
<1>3. CASE DOMAIN f # {}
  <2>1. V # {} /\ Peak(f) = Max(V)
    BY <1>3 DEF Peak
  <2>2. Max(V) \in V /\ \A v \in V : Max(V) >= v
    <3> HIDE DEF V
    <3> QED BY <1>1, <2>1, MaxIs
  <2> QED BY <1>3, <2>1, <2>2
<1> QED BY <1>2, <1>3

LEMMA BrandsAre ==
    ASSUME NEW t, Table(t), NEW S \in SUBSET DOMAIN t, NEW f, f = TopBrands(t, S)
    PROVE  /\ IsFiniteSet(Branded(t, S)) /\ Branded(t, S) \subseteq Retained(t, S)
           /\ IsFiniteSet(DOMAIN f) /\ \A b \in DOMAIN f : f[b] \in Nat
           /\ SumFunctionOnSet(f, DOMAIN f) <= Cardinality(Branded(t, S))
           /\ Peak(f) \in 0..Cardinality(Branded(t, S))
           /\ f = NoRows <=> Cardinality(Branded(t, S)) = 0
<1> DEFINE B == Branded(t, S)
           of(b) == {l \in B : Item(t, l).brand = b}
           brands == {Item(t, l).brand : l \in B}
           count == [b \in brands |-> Cardinality(of(b))]
           before(b) == {c \in brands : \/ count[c] > count[b]
                                        \/ count[c] = count[b] /\ c < b}
           listed == {b \in brands : Cardinality(before(b)) < BrandLimit}
<1>1. f = [b \in listed |-> count[b]]
  BY DEF TopBrands
<1>2. B \subseteq Retained(t, S) /\ IsFiniteSet(B) /\ \A l \in B : Item(t, l).brand \in Nat
  <2>1. B \subseteq Retained(t, S)
    BY DEF Branded
  <2> HIDE DEF B
  <2> QED BY <2>1, LinesNarrow, ItemIs, FS_Subset
<1>3. IsFiniteSet(brands) /\ brands \subseteq Nat
  <2> DEFINE h == [l \in B |-> Item(t, l).brand]
  <2>1. brands = {h[l] : l \in B}
    OBVIOUS
  <2> HIDE DEF h
  <2> QED BY <1>2, <2>1, ImageIs
<1>4. \A b \in brands : IsFiniteSet(of(b)) /\ count[b] = Cardinality(of(b)) /\ count[b] \in Nat
  BY <1>2, FS_Subset, FS_CardinalityType
<1> DEFINE A == [b \in listed |-> of(b)]
<1>5. listed \subseteq brands /\ IsFiniteSet(listed)
  BY <1>3, FS_Subset
<1>6. \A b \in listed : IsFiniteSet(A[b]) /\ f[b] = Cardinality(A[b]) /\ f[b] \in Nat
  <2> HIDE DEF listed, of, count
  <2> QED BY <1>1, <1>4, <1>5
<1>7. Disjoint(A, listed) /\ Together(A, listed) \subseteq B
  BY DEF Disjoint, Together
<1>8. DOMAIN f = listed
  <2> HIDE DEF listed
  <2> QED BY <1>1
<1>9. (B = {} => listed = {}) /\ (B # {} => listed # {})
  <2>1. B = {} => listed = {}
    OBVIOUS
  <2>2. ASSUME B # {}
        PROVE  listed # {}
    <3> DEFINE R == {e \in brands \X brands :
                        \/ count[e[2]] > count[e[1]]
                        \/ count[e[2]] = count[e[1]] /\ e[2] <= e[1]}
    <3>1. brands # {}
      BY <2>2
    <3>2. \A b \in brands : b \in Nat /\ count[b] \in Nat
      BY <1>3, <1>4
    <3> HIDE DEF count, brands
    <3>3. \A x, y \in brands : <<x, y>> \in R
             <=> (count[y] > count[x] \/ (count[y] = count[x] /\ y <= x))
      OBVIOUS
    <3>4. ASSUME NEW x \in brands, NEW y \in brands
          PROVE  <<x, y>> \in R \/ <<y, x>> \in R
      <4> DEFINE i == count[x]
                 j == count[y]
      <4>1. x \in Nat /\ y \in Nat /\ i \in Nat /\ j \in Nat
        BY <3>2
      <4>2. \/ j > i \/ (j = i /\ y <= x)
            \/ i > j \/ (i = j /\ x <= y)
        <5> HIDE DEF i, j
        <5> QED BY <4>1
      <4> QED BY <4>2, <3>3
    <3>5. ASSUME NEW x \in brands, NEW y \in brands, NEW z \in brands,
                 <<x, y>> \in R /\ <<y, z>> \in R
          PROVE  <<x, z>> \in R
      <4> DEFINE i == count[x]
                 j == count[y]
                 k == count[z]
      <4>1. /\ j > i \/ (j = i /\ y <= x)
            /\ k > j \/ (k = j /\ z <= y)
        BY <3>3, <3>5
      <4>2. x \in Nat /\ y \in Nat /\ z \in Nat /\ i \in Nat /\ j \in Nat /\ k \in Nat
        BY <3>2
      <4>3. k > i \/ (k = i /\ z <= x)
        <5> HIDE DEF i, j, k
        <5> QED BY <4>1, <4>2
      <4> QED BY <4>3, <3>3
    <3> HIDE DEF R
    <3>6. PICK b \in brands : \A c \in brands : <<c, b>> \in R
      <4>1. \A x, y, z \in brands : <<x, y>> \in R /\ <<y, z>> \in R => <<x, z>> \in R
        BY <3>5
      <4> QED BY <3>1, <3>4, <4>1, <1>3, TopExists
    <3>7. before(b) = {}
      <4> SUFFICES ASSUME NEW c \in before(b) PROVE FALSE
        OBVIOUS
      <4>1. c \in brands /\ (count[c] > count[b] \/ (count[c] = count[b] /\ c < b))
        OBVIOUS
      <4>2. count[b] > count[c] \/ (count[b] = count[c] /\ b <= c)
        BY <3>3, <3>6, <4>1
      <4> QED BY <3>2, <4>1, <4>2
    <3>8. Cardinality(before(b)) = 0
      <4> HIDE DEF before
      <4> QED BY <3>7, FS_EmptySet
    <3>9. b \in listed
      <4> HIDE DEF before
      <4> QED BY <3>8, InsightsAssumption
    <3> QED BY <3>9
  <2> QED BY <2>1, <2>2
<1> HIDE DEF B, of, brands, count, before, listed, A
<1>10. /\ SumFunctionOnSet(f, listed) = Cardinality(Together(A, listed))
       /\ IsFiniteSet(Together(A, listed))
  BY <1>5, <1>6, <1>7, SizesAddUp
<1>11. Cardinality(Together(A, listed)) <= Cardinality(B) /\ Cardinality(B) \in Nat
  BY <1>2, <1>7, PartOf
<1>12. \A b \in listed : f[b] <= Cardinality(B)
  <2> SUFFICES ASSUME NEW b \in listed PROVE f[b] <= Cardinality(B)
    OBVIOUS
  <2>1. f[b] <= SumFunctionOnSet(f, listed) /\ f[b] \in Nat
    BY <1>5, <1>6, SumHasTerm
  <2> QED BY <1>10, <1>11, <2>1, <1>5, FS_CardinalityType
<1>13. Peak(f) \in 0..Cardinality(B)
  <2>1. /\ Peak(f) \in Nat
        /\ DOMAIN f = {} => Peak(f) = 0
        /\ DOMAIN f # {} => \E k \in DOMAIN f : f[k] = Peak(f)
    BY <1>5, <1>6, <1>8, PeakIs
  <2> QED BY <1>8, <1>11, <1>12, <2>1
<1>14. f = NoRows <=> Cardinality(B) = 0
  <2>1. Cardinality(B) = 0 <=> B = {}
    BY <1>2, SizeOf
  <2>2. f = NoRows <=> listed = {}
    BY <1>1 DEF NoRows
  <2> QED BY <1>9, <2>1, <2>2
<1> QED BY <1>2, <1>5, <1>6, <1>8, <1>10, <1>11, <1>13, <1>14 DEF B

-----------------------------------------------------------------------------
(* Plans.                                                                  *)

Reports == {"spend", "stats", "products", "insights", "analysis", "reorder", "history",
            "membership", "context"}

LEMMA PartsAre ==
    /\ Len(StatsPlan) = 7 /\ DOMAIN StatsPlan = 1..7
    /\ Len(InsightPlan) = 10 /\ DOMAIN InsightPlan = 1..10
    /\ Len(ProductPlan) = 7 /\ DOMAIN ProductPlan = 1..7
    /\ \A i, j \in 1..7 : StatsPlan[i] = StatsPlan[j] => i = j
    /\ \A i, j \in 1..10 : InsightPlan[i] = InsightPlan[j] => i = j
    /\ \A i, j \in 1..7 : ProductPlan[i] = ProductPlan[j] => i = j
    /\ \A i \in 1..7, j \in 1..10 : StatsPlan[i] # InsightPlan[j]
    /\ \A i \in 1..7, j \in 1..7 : StatsPlan[i] # ProductPlan[j]
    /\ \A i \in 1..10, j \in 1..7 : InsightPlan[i] # ProductPlan[j]
    /\ \A i \in 1..7 : StatsPlan[i] # "categories" /\ ProductPlan[i] # "categories"
    /\ \A i \in 1..10 : InsightPlan[i] # "categories"
<1>1. /\ Len(StatsPlan) = 7 /\ DOMAIN StatsPlan = 1..7
      /\ Len(InsightPlan) = 10 /\ DOMAIN InsightPlan = 1..10
      /\ Len(ProductPlan) = 7 /\ DOMAIN ProductPlan = 1..7
  BY DEF StatsPlan, InsightPlan, ProductPlan
<1>2. \A i, j \in 1..7 : StatsPlan[i] = StatsPlan[j] => i = j
  BY DEF StatsPlan
<1>3. \A i, j \in 1..10 : InsightPlan[i] = InsightPlan[j] => i = j
  BY DEF InsightPlan
<1>4. \A i, j \in 1..7 : ProductPlan[i] = ProductPlan[j] => i = j
  BY DEF ProductPlan
<1>5. \A i \in 1..7, j \in 1..10 : StatsPlan[i] # InsightPlan[j]
  BY DEF StatsPlan, InsightPlan
<1>6. \A i \in 1..7, j \in 1..7 : StatsPlan[i] # ProductPlan[j]
  BY DEF StatsPlan, ProductPlan
<1>7. \A i \in 1..10, j \in 1..7 : InsightPlan[i] # ProductPlan[j]
  BY DEF InsightPlan, ProductPlan
<1>8. \A i \in 1..7 : StatsPlan[i] # "categories" /\ ProductPlan[i] # "categories"
  BY DEF StatsPlan, ProductPlan
<1>9. \A i \in 1..10 : InsightPlan[i] # "categories"
  BY DEF InsightPlan
<1> QED BY <1>1, <1>2, <1>3, <1>4, <1>5, <1>6, <1>7, <1>8, <1>9

Joined(s, u) == s \o u

LEMMA JoinedAre ==
    ASSUME NEW T, NEW s \in Seq(T), NEW u \in Seq(T)
    PROVE  /\ Joined(s, u) \in Seq(T) /\ Len(Joined(s, u)) = Len(s) + Len(u)
           /\ DOMAIN Joined(s, u) = 1..(Len(s) + Len(u))
           /\ \A i \in 1..Len(s) : Joined(s, u)[i] = s[i]
           /\ \A i \in 1..(Len(s) + Len(u)) : i > Len(s) => Joined(s, u)[i] = u[i - Len(s)]
BY DEF Joined

LEMMA LongPlans ==
    LET short == Plan["insights"]
        long == Plan["analysis"]
    IN  /\ Len(short) = 18 /\ DOMAIN short = 1..18
        /\ Len(long) = 25 /\ DOMAIN long = 1..25
        /\ \A i \in 1..7 : short[i] = StatsPlan[i] /\ long[i] = StatsPlan[i]
        /\ \A i \in 8..17 : short[i] = InsightPlan[i - 7] /\ long[i] = InsightPlan[i - 7]
        /\ short[18] = "categories" /\ long[18] = "categories"
        /\ \A i \in 19..25 : long[i] = ProductPlan[i - 18]
<1> DEFINE T == {"order_states", "item_totals", "hours", "weekdays", "months", "brands",
                 "deliveries", "dates", "day_series", "branded", "timed", "returns",
                 "speed", "repeat", "baskets", "medians", "compositions", "categories",
                 "window", "coverage", "products", "highest_unit", "lowest_unit",
                 "highest_day", "lowest_day"}
           one == <<"categories">>
           first == Joined(StatsPlan, InsightPlan)
           short == Joined(first, one)
           long == Joined(short, ProductPlan)
<1>1. Plan["insights"] = short /\ Plan["analysis"] = long
  BY DEF Plan, Joined
<1>2. /\ StatsPlan \in Seq(T) /\ InsightPlan \in Seq(T)
      /\ ProductPlan \in Seq(T) /\ one \in Seq(T)
      /\ Len(one) = 1 /\ one[1] = "categories"
  <2>1. StatsPlan \in Seq(T)
    BY DEF StatsPlan
  <2>2. InsightPlan \in Seq(T)
    BY DEF InsightPlan
  <2>3. ProductPlan \in Seq(T)
    BY DEF ProductPlan
  <2>4. one \in Seq(T)
    OBVIOUS
  <2>5. Len(one) = 1 /\ one[1] = "categories"
    OBVIOUS
  <2> HIDE DEF one, T
  <2> QED BY <2>1, <2>2, <2>3, <2>4, <2>5
<1> HIDE DEF one, first, short, long, T
<1>3. /\ first \in Seq(T) /\ Len(first) = 17
      /\ \A i \in 1..7 : first[i] = StatsPlan[i]
      /\ \A i \in 1..17 : i > 7 => first[i] = InsightPlan[i - 7]
  <2>1. /\ first \in Seq(T) /\ Len(first) = Len(StatsPlan) + Len(InsightPlan)
        /\ \A i \in 1..Len(StatsPlan) : first[i] = StatsPlan[i]
        /\ \A i \in 1..(Len(StatsPlan) + Len(InsightPlan)) :
              i > Len(StatsPlan) => first[i] = InsightPlan[i - Len(StatsPlan)]
    BY <1>2, JoinedAre DEF first
  <2>2. Len(StatsPlan) = 7 /\ Len(InsightPlan) = 10
    BY PartsAre
  <2>3. Len(StatsPlan) + Len(InsightPlan) = 17
    BY <2>2
  <2> QED BY <2>1, <2>2, <2>3
<1>4. /\ short \in Seq(T) /\ Len(short) = 18 /\ DOMAIN short = 1..18
      /\ \A i \in 1..17 : short[i] = first[i]
      /\ \A i \in 1..18 : i > 17 => short[i] = one[i - 17]
  <2>1. /\ short \in Seq(T) /\ Len(short) = Len(first) + Len(one)
        /\ DOMAIN short = 1..(Len(first) + Len(one))
        /\ \A i \in 1..Len(first) : short[i] = first[i]
        /\ \A i \in 1..(Len(first) + Len(one)) : i > Len(first) => short[i] = one[i - Len(first)]
    <3>1. first \in Seq(T) /\ one \in Seq(T)
      BY <1>2, <1>3
    <3> QED BY <3>1, JoinedAre DEF short
  <2>2. Len(first) + Len(one) = 18
    BY <1>2, <1>3
  <2> QED BY <1>3, <2>1, <2>2
<1>5. short[18] = "categories"
  <2>1. 18 \in 1..18 /\ 18 > 17 /\ 18 - 17 = 1
    OBVIOUS
  <2> QED BY <1>2, <1>4, <2>1
<1>6. /\ Len(long) = 25 /\ DOMAIN long = 1..25
      /\ \A i \in 1..18 : long[i] = short[i]
      /\ \A i \in 1..25 : i > 18 => long[i] = ProductPlan[i - 18]
  <2>1. /\ Len(long) = Len(short) + Len(ProductPlan)
        /\ DOMAIN long = 1..(Len(short) + Len(ProductPlan))
        /\ \A i \in 1..Len(short) : long[i] = short[i]
        /\ \A i \in 1..(Len(short) + Len(ProductPlan)) :
              i > Len(short) => long[i] = ProductPlan[i - Len(short)]
    <3>1. short \in Seq(T) /\ ProductPlan \in Seq(T)
      BY <1>2, <1>4
    <3> QED BY <3>1, JoinedAre DEF long
  <2>2. Len(short) + Len(ProductPlan) = 25
    BY <1>4, PartsAre
  <2> QED BY <1>4, <2>1, <2>2
<1>7. ASSUME NEW i \in 1..7
      PROVE  short[i] = StatsPlan[i] /\ long[i] = StatsPlan[i]
  <2>1. i \in 1..17 /\ i \in 1..18
    OBVIOUS
  <2> QED BY <1>3, <1>4, <1>6, <2>1
<1>8. ASSUME NEW i \in 8..17
      PROVE  short[i] = InsightPlan[i - 7] /\ long[i] = InsightPlan[i - 7]
  <2>1. i \in 1..17 /\ i \in 1..18 /\ i > 7
    OBVIOUS
  <2> QED BY <1>3, <1>4, <1>6, <2>1
<1>9. long[18] = "categories"
  <2>1. 18 \in 1..18
    OBVIOUS
  <2> QED BY <1>5, <1>6, <2>1
<1>10. ASSUME NEW i \in 19..25
       PROVE  long[i] = ProductPlan[i - 18]
  <2>1. i \in 1..25 /\ i > 18
    OBVIOUS
  <2> QED BY <1>6, <2>1
<1> QED BY <1>1, <1>4, <1>5, <1>6, <1>7, <1>8, <1>9, <1>10

LEMMA PlansAre ==
    /\ DOMAIN Plan = Reports
    /\ \A op \in Reports :
          /\ Len(Plan[op]) \in Nat /\ DOMAIN Plan[op] = 1..Len(Plan[op])
          /\ \A i, j \in 1..Len(Plan[op]) : Plan[op][i] = Plan[op][j] => i = j
    /\ Plan["stats"] = StatsPlan /\ Plan["products"] = ProductPlan
<1>1. DOMAIN Plan = Reports
  BY DEF Plan, Reports
<1>2. Plan["stats"] = StatsPlan /\ Plan["products"] = ProductPlan
  BY DEF Plan
<1> DEFINE Fine(op) == /\ Len(Plan[op]) \in Nat /\ DOMAIN Plan[op] = 1..Len(Plan[op])
                       /\ \A i, j \in 1..Len(Plan[op]) : Plan[op][i] = Plan[op][j] => i = j
<1>3. Fine("stats") /\ Fine("products")
  BY <1>2, PartsAre
<1>4. Fine("insights")
  <2> DEFINE P == Plan["insights"]
  <2>1. /\ Len(P) = 18 /\ DOMAIN P = 1..18
        /\ \A i \in 1..7 : P[i] = StatsPlan[i]
        /\ \A i \in 8..17 : P[i] = InsightPlan[i - 7] /\ i - 7 \in 1..10
        /\ P[18] = "categories"
    BY LongPlans
  <2> HIDE DEF P
  <2>2. ASSUME NEW i \in 1..18, NEW j \in 1..18, P[i] = P[j]
        PROVE  i = j
    BY <2>1, <2>2, PartsAre
  <2> QED BY <2>1, <2>2 DEF P
<1>5. Fine("analysis")
  <2> DEFINE P == Plan["analysis"]
  <2>1. /\ Len(P) = 25 /\ DOMAIN P = 1..25
        /\ \A i \in 1..7 : P[i] = StatsPlan[i]
        /\ \A i \in 8..17 : P[i] = InsightPlan[i - 7] /\ i - 7 \in 1..10
        /\ P[18] = "categories"
        /\ \A i \in 19..25 : P[i] = ProductPlan[i - 18] /\ i - 18 \in 1..7
    BY LongPlans
  <2> HIDE DEF P
  <2>2. ASSUME NEW i \in 1..25, NEW j \in 1..25, P[i] = P[j]
        PROVE  i = j
    <3>1. CASE i \in 1..7
      BY <2>1, <2>2, <3>1, PartsAre
    <3>2. CASE i \in 8..17
      BY <2>1, <2>2, <3>2, PartsAre
    <3>3. CASE i = 18
      BY <2>1, <2>2, <3>3, PartsAre
    <3>4. CASE i \in 19..25
      BY <2>1, <2>2, <3>4, PartsAre
    <3> QED BY <3>1, <3>2, <3>3, <3>4
  <2> QED BY <2>1, <2>2 DEF P
<1>6. Fine("spend") /\ Fine("reorder") /\ Fine("history") /\ Fine("membership") /\ Fine("context")
  BY DEF Plan
<1>7. ASSUME NEW op \in Reports PROVE Fine(op)
  <2> HIDE DEF Fine
  <2> QED BY <1>3, <1>4, <1>5, <1>6 DEF Reports
<1> QED BY <1>1, <1>2, <1>7

\* What the first k queries of a plan are named.
Names(op, k) == {Plan[op][i] : i \in 1..k}

\* A query that was answered was preceded by the ones before it in the plan.
LEMMA AnsweredBefore ==
    ASSUME NEW op \in Reports, NEW k \in 0..Len(Plan[op]),
           NEW j \in 1..Len(Plan[op]), Plan[op][j] \in Names(op, k)
    PROVE  \A i \in 1..j : Plan[op][i] \in Names(op, k)
<1>1. PICK x \in 1..k : Plan[op][x] = Plan[op][j]
  BY DEF Names
<1>2. Len(Plan[op]) \in Nat /\ x \in 1..Len(Plan[op])
  BY PlansAre
<1>3. x = j
  BY <1>1, <1>2, PlansAre
<1> QED BY <1>2, <1>3 DEF Names

LEMMA NamesAre ==
    ASSUME NEW op \in Reports, NEW k \in 0..Len(Plan[op])
    PROVE  /\ IsFiniteSet(Names(op, k)) /\ Cardinality(Names(op, k)) = k
           /\ k < Len(Plan[op]) => /\ k + 1 \in 1..Len(Plan[op])
                                   /\ Names(op, k + 1) = Names(op, k) \cup {Plan[op][k + 1]}
           /\ \A i \in 1..k : Plan[op][i] \in Names(op, k)
<1>1. Len(Plan[op]) \in Nat /\ k \in Nat
  BY PlansAre
<1> DEFINE f == [i \in 1..k |-> Plan[op][i]]
           D == 1..k
<1>2. \A i, j \in D : f[i] = f[j] => i = j
  BY <1>1, PlansAre
<1>3. Names(op, k) = {f[i] : i \in D}
  BY DEF Names
<1>4. IsFiniteSet(D) /\ Cardinality(D) = k
  <2>1. 1 \in Int /\ k \in Int
    BY <1>1
  <2>2. Cardinality(1..k) = IF 1 > k THEN 0 ELSE k - 1 + 1
    BY <2>1, FS_Interval
  <2> QED BY <1>1, <2>1, <2>2, FS_Interval
<1>5. IsFiniteSet(Names(op, k)) /\ Cardinality(Names(op, k)) = k
  <2> HIDE DEF f, D
  <2>1. IsFiniteSet({f[i] : i \in D}) /\ Cardinality({f[i] : i \in D}) = Cardinality(D)
    BY <1>2, <1>4, ImageIs
  <2> QED BY <1>3, <1>4, <2>1
<1>6. k < Len(Plan[op]) => /\ k + 1 \in 1..Len(Plan[op])
                           /\ Names(op, k + 1) = Names(op, k) \cup {Plan[op][k + 1]}
  BY <1>1 DEF Names
<1> QED BY <1>5, <1>6 DEF Names

\* The queries of a plan are in it, each after the ones before it.
InPlan(p, name) == \E i \in 1..Len(p) : p[i] = name

LEMMA StatsAre ==
    /\ StatsPlan[1] = "order_states" /\ StatsPlan[2] = "item_totals"
    /\ StatsPlan[6] = "brands" /\ InsightPlan[1] = "dates"
    /\ InsightPlan[2] = "day_series" /\ InsightPlan[3] = "branded"
    /\ InsightPlan[4] = "timed" /\ InsightPlan[5] = "returns"
    /\ InsightPlan[6] = "speed" /\ InsightPlan[7] = "repeat"
    /\ InsightPlan[8] = "baskets" /\ InsightPlan[10] = "compositions"
BY DEF StatsPlan, InsightPlan

\* Which plans have the queries whose rates are computed, and where.
LEMMA PlacesAre ==
    ASSUME NEW op \in Reports, NEW P, P = Plan[op]
    PROVE  /\ op \in {"insights", "analysis"} =>
                  /\ P[1] = "order_states" /\ P[2] = "item_totals" /\ P[6] = "brands"
                  /\ P[8] = "dates" /\ P[9] = "day_series" /\ P[10] = "branded"
                  /\ P[11] = "timed" /\ P[12] = "returns" /\ P[13] = "speed"
                  /\ P[14] = "repeat" /\ P[15] = "baskets" /\ P[17] = "compositions"
                  /\ P[18] = "categories" /\ Len(P) \in {18, 25}
           /\ op = "stats" => P[1] = "order_states" /\ P[2] = "item_totals" /\ Len(P) = 7
           /\ op \notin {"insights", "analysis"} =>
                  ~InPlan(P, "returns") /\ ~InPlan(P, "categories")
           /\ op \notin {"insights", "analysis", "stats"} => ~InPlan(P, "item_totals")
<1>1. CASE op \in {"insights", "analysis"}
  <2>1. /\ Len(P) \in {18, 25} /\ P[18] = "categories"
        /\ \A i \in 1..7 : P[i] = StatsPlan[i]
        /\ \A i \in 8..17 : P[i] = InsightPlan[i - 7]
    BY <1>1, LongPlans
  <2>2. P[1] = StatsPlan[1] /\ P[2] = StatsPlan[2] /\ P[6] = StatsPlan[6]
    BY <2>1
  <2>3. /\ P[8] = InsightPlan[1] /\ P[9] = InsightPlan[2] /\ P[10] = InsightPlan[3]
        /\ P[11] = InsightPlan[4] /\ P[12] = InsightPlan[5] /\ P[13] = InsightPlan[6]
        /\ P[14] = InsightPlan[7] /\ P[15] = InsightPlan[8] /\ P[17] = InsightPlan[10]
    BY <2>1
  <2> QED BY <1>1, <2>1, <2>2, <2>3, StatsAre
<1>2. CASE op = "stats"
  <2>1. P = StatsPlan
    BY <1>2, PlansAre
  <2>2. /\ \A i \in 1..7 : StatsPlan[i] # "returns" /\ StatsPlan[i] # "categories"
        /\ StatsPlan[1] = "order_states" /\ StatsPlan[2] = "item_totals"
    BY DEF StatsPlan
  <2>3. Len(P) = 7
    BY <2>1, PartsAre
  <2>4. ~InPlan(P, "returns") /\ ~InPlan(P, "categories")
    BY <2>1, <2>2, <2>3 DEF InPlan
  <2> QED BY <1>2, <2>1, <2>2, <2>3, <2>4
<1>3. CASE op = "products"
  <2>1. P = ProductPlan
    BY <1>3, PlansAre
  <2>2. \A i \in 1..7 : ProductPlan[i] # "returns" /\ ProductPlan[i] # "item_totals"
    BY DEF ProductPlan
  <2> QED BY <1>3, <2>1, <2>2, PartsAre DEF InPlan
<1>4. CASE op = "spend"
  <2>1. P = <<"totals", "commerce">>
    BY <1>4 DEF Plan
  <2> QED BY <1>4, <2>1 DEF InPlan
<1>5. CASE op = "reorder"
  <2>1. P = <<"reorder">>
    BY <1>5 DEF Plan
  <2> QED BY <1>5, <2>1 DEF InPlan
<1>6. CASE op = "history"
  <2>1. P = <<"history">>
    BY <1>6 DEF Plan
  <2> QED BY <1>6, <2>1 DEF InPlan
<1>7. CASE op = "membership"
  <2>1. P = <<"order_dates", "membership">>
    BY <1>7 DEF Plan
  <2> QED BY <1>7, <2>1 DEF InPlan
<1>8. CASE op = "context"
  <2>1. P = <<"product_only", "exact">>
    BY <1>8 DEF Plan
  <2> QED BY <1>8, <2>1 DEF InPlan
<1> QED BY <1>1, <1>2, <1>3, <1>4, <1>5, <1>6, <1>7, <1>8 DEF Reports

\* Which queries were answered before which.
LEMMA PlacesOf ==
    ASSUME NEW op \in Reports, NEW k \in 0..Len(Plan[op]), NEW N, N = Names(op, k)
    PROVE  /\ "item_totals" \in N => "order_states" \in N
           /\ "returns" \in N => {"timed", "order_states", "item_totals"} \subseteq N
           /\ "categories" \in N =>
                 {"brands", "dates", "day_series", "branded", "timed", "speed",
                  "repeat", "baskets", "compositions"} \subseteq N
<1> DEFINE P == Plan[op]
           long == op \in {"insights", "analysis"}
<1>1. Len(P) \in Nat
  BY PlansAre
<1>2. \A x \in N : InPlan(P, x)
  BY <1>1 DEF Names, InPlan
<1>3. \A j \in 1..Len(P) : P[j] \in N => \A i \in 1..j : P[i] \in N
  BY AnsweredBefore
<1>4. P = Plan[op]
  OBVIOUS
<1> HIDE DEF P
<1>5. /\ long =>
             /\ P[1] = "order_states" /\ P[2] = "item_totals" /\ P[6] = "brands"
             /\ P[8] = "dates" /\ P[9] = "day_series" /\ P[10] = "branded"
             /\ P[11] = "timed" /\ P[12] = "returns" /\ P[13] = "speed"
             /\ P[14] = "repeat" /\ P[15] = "baskets" /\ P[17] = "compositions"
             /\ P[18] = "categories" /\ Len(P) \in {18, 25}
      /\ op = "stats" => P[1] = "order_states" /\ P[2] = "item_totals" /\ Len(P) = 7
      /\ ~long => ~InPlan(P, "returns") /\ ~InPlan(P, "categories")
      /\ ~long /\ op # "stats" => ~InPlan(P, "item_totals")
  BY <1>4, PlacesAre
<1>6. "item_totals" \in N => "order_states" \in N
  <2>1. long \/ op = "stats" => 2 \in 1..Len(P) /\ 1 \in 1..2
    BY <1>5
  <2> QED BY <1>2, <1>3, <1>5, <2>1
<1>7. "returns" \in N => {"timed", "order_states", "item_totals"} \subseteq N
  <2>1. long => 12 \in 1..Len(P)
    BY <1>5
  <2>2. 1 \in 1..12 /\ 2 \in 1..12 /\ 11 \in 1..12
    OBVIOUS
  <2>3. long /\ "returns" \in N => P[1] \in N /\ P[2] \in N /\ P[11] \in N
    BY <1>3, <1>5, <2>1, <2>2
  <2> QED BY <1>2, <1>5, <2>3
<1>8. "categories" \in N => {"brands", "dates", "day_series", "branded", "timed", "speed",
                             "repeat", "baskets", "compositions"} \subseteq N
  <2>1. long => 18 \in 1..Len(P)
    BY <1>5
  <2>2. long /\ "categories" \in N => \A i \in 1..18 : P[i] \in N
    BY <1>3, <1>5, <2>1
  <2>3. long /\ "categories" \in N =>
           /\ P[6] \in N /\ P[8] \in N /\ P[9] \in N /\ P[10] \in N /\ P[11] \in N
           /\ P[13] \in N /\ P[14] \in N /\ P[15] \in N /\ P[17] \in N
    BY <2>2
  <2> QED BY <1>2, <1>5, <2>3
<1> QED BY <1>6, <1>7, <1>8

LEMMA QueryIs ==
    ASSUME NEW t, NEW S, NEW p
    PROVE  /\ Query("totals", t, S, p) = Totals(t, S)
           /\ Query("commerce", t, S, p) = Commerce(t, S)
           /\ Query("order_states", t, S, p) = OrderStates(t, S)
           /\ Query("item_totals", t, S, p) = ItemTotals(t, S)
           /\ Query("hours", t, S, p) = HourStats(t, S)
           /\ Query("months", t, S, p) = MonthStats(t, S)
           /\ Query("dates", t, S, p) = InsightDates(t, S)
           /\ Query("day_series", t, S, p) = OrderDaySeries(t, S)
           /\ Query("weekdays", t, S, p) = WeekdayStats(t, S)
           /\ Query("brands", t, S, p) = TopBrands(t, S)
           /\ Query("deliveries", t, S, p) = DeliveryStats(t, S)
           /\ Query("branded", t, S, p) = Cardinality(Branded(t, S))
           /\ Query("speed", t, S, p) = DeliverySpeed(t, S)
           /\ Query("medians", t, S, p) = BasketMedians(t, S)
           /\ Query("timed", t, S, p) = TimedOrders(t, S)
           /\ Query("returns", t, S, p) = TimedReturns(t, S)
           /\ Query("repeat", t, S, p) = RepeatPurchases(t, S)
           /\ Query("baskets", t, S, p) = Baskets(t, S)
           /\ Query("compositions", t, S, p) = Compositions(t, S)
           /\ Query("categories", t, S, p) = CategoryLines(t, S)
           /\ Query("window", t, S, p) = SpendWindow(t, S)
           /\ Query("coverage", t, S, p) = ProductCoverage(t, S)
           /\ Query("products", t, S, p) = ProductAggregates(t, S)
           /\ Query("highest_unit", t, S, p) = PaidUnit(t, S, TRUE)
           /\ Query("lowest_unit", t, S, p) = PaidUnit(t, S, FALSE)
           /\ Query("highest_day", t, S, p) = SpendDay(t, S, TRUE)
           /\ Query("lowest_day", t, S, p) = SpendDay(t, S, FALSE)
           /\ Query("reorder", t, S, p) = ReorderCandidates(t, S, p)
           /\ Query("order_dates", t, S, p) = OrderDates(t)
           /\ Query("membership", t, S, p) = MembershipCosts(t)
           /\ Query("product_only", t, S, p) = ProductMatches(t)
           /\ Query("exact", t, S, p) = ExactMatches(t)
<1> QED BY DEF Query

-----------------------------------------------------------------------------
(* Documents.                                                              *)

LEMMA GivenIsInt ==
    ASSUME NEW value \in SUBSET Int, NEW otherwise \in Int
    PROVE  Given(value, otherwise) \in Int
<1>1. CASE value = {}
  BY <1>1 DEF Given
<1>2. CASE value # {}
  <2>1. \E w \in value : TRUE
    BY <1>2
  <2>2. (CHOOSE v \in value : TRUE) \in value
    BY <2>1
  <2> QED BY <1>2, <2>2 DEF Given
<1> QED BY <1>1, <1>2

\* A finite set of numbers has an nth, in their order.
LEMMA NthExists ==
    ASSUME NEW K \in SUBSET Nat, IsFiniteSet(K), NEW n \in 1..Cardinality(K)
    PROVE  \E i \in K : Cardinality({j \in K : j < i}) = n - 1
<1>0. \A j \in K : j \in Int
  OBVIOUS
<1> DEFINE below(i) == {j \in K : j < i}
           upto(i) == {j \in K : j <= i}
           S == {i \in K : Cardinality(upto(i)) >= n}
<1>1. Cardinality(K) \in Nat /\ n \in Nat /\ n >= 1
  BY FS_CardinalityType
<1>2. K # {}
  BY <1>1, FS_EmptySet
<1>3. Max(K) \in K /\ \A j \in K : j <= Max(K)
  BY <1>2, MaxIs
<1>4. upto(Max(K)) = K
  BY <1>3
<1>5. Max(K) \in S
  BY <1>1, <1>3, <1>4
<1>6. S \in SUBSET Nat /\ S # {} /\ IsFiniteSet(S)
  <2>1. S \in SUBSET K
    OBVIOUS
  <2> HIDE DEF S
  <2> QED BY <1>5, <2>1, PartOf
<1>7. Min(S) \in S /\ \A j \in S : Min(S) <= j
  <2> HIDE DEF S
  <2> QED BY <1>6, MinIs
<1> DEFINE i == Min(S)
<1>8. i \in K /\ i \in Nat /\ Cardinality(upto(i)) >= n
  BY <1>7
<1>9. \A j \in K : Cardinality(upto(j)) >= n => i <= j
  BY <1>7
<1> HIDE DEF i, S
<1>10. /\ IsFiniteSet(below(i)) /\ IsFiniteSet(upto(i))
       /\ Cardinality(below(i)) \in Nat /\ Cardinality(upto(i)) \in Nat
  BY PartOf
<1>11. Cardinality(upto(i)) = Cardinality(below(i)) + 1
  <2>1. upto(i) = below(i) \cup {i} /\ i \notin below(i)
    <3>1. \A j \in K : j <= i <=> j < i \/ j = i
      BY <1>0, <1>8
    <3>2. i \notin below(i)
      BY <1>8
    <3>3. upto(i) \subseteq below(i) \cup {i}
      BY <3>1
    <3>4. below(i) \cup {i} \subseteq upto(i)
      BY <1>8, <3>1
    <3> QED BY <3>2, <3>3, <3>4
  <2> HIDE DEF below, upto
  <2> QED BY <1>10, <2>1, FS_AddElement
<1>12. Cardinality(below(i)) < n
  <2> SUFFICES ASSUME Cardinality(below(i)) >= n PROVE FALSE
    BY <1>1, <1>10
  <2>1. below(i) # {}
    <3> HIDE DEF below
    <3> QED BY <1>1, <1>10, FS_EmptySet
  <2>2. below(i) \in SUBSET Int
    BY <1>0
  <2>3. Max(below(i)) \in below(i) /\ \A j \in below(i) : Max(below(i)) >= j
    <3> HIDE DEF below
    <3> QED BY <1>10, <2>1, <2>2, MaxIs
  <2> DEFINE m == Max(below(i))
  <2> HIDE DEF m
  <2>4. m \in K /\ m < i /\ \A j \in K : j < i => j <= m
    BY <2>3 DEF m
  <2>5. upto(m) = below(i)
    <3>1. i \in Int /\ m \in Int
      BY <1>0, <1>8, <2>4
    <3>2. \A j \in K : j <= m <=> j < i
      BY <1>0, <2>4, <3>1
    <3> QED BY <3>2
  <2>6. i <= m
    BY <1>9, <2>4, <2>5
  <2> QED BY <1>8, <2>4, <2>6
<1>13. Cardinality(below(i)) = n - 1
  BY <1>1, <1>8, <1>10, <1>11, <1>12
<1> QED BY <1>8, <1>13

LEMMA KeptAre ==
    ASSUME NEW order, order.lines \in Seq(RawLine)
    PROVE  /\ Kept(order) \in Seq(RawLine) /\ DOMAIN Kept(order) = 1..Len(Kept(order))
           /\ \A i \in DOMAIN Kept(order) : LooksLikeItem(Kept(order)[i])
<1> DEFINE K == {i \in DOMAIN order.lines : LooksLikeItem(order.lines[i])}
           nth(n) == CHOOSE i \in K : Cardinality({j \in K : j < i}) = n - 1
           kept == [n \in 1..Cardinality(K) |-> order.lines[nth(n)]]
<1>1. IsFiniteSet(DOMAIN order.lines) /\ DOMAIN order.lines \subseteq Nat
  <2>1. DOMAIN order.lines = 1..Len(order.lines) /\ Len(order.lines) \in Nat
    OBVIOUS
  <2> QED BY <2>1, FS_Interval
<1>2. K \in SUBSET Nat /\ IsFiniteSet(K) /\ Cardinality(K) \in Nat
  BY <1>1, PartOf
<1>3. Kept(order) = kept
  BY DEF Kept
<1>4. ASSUME NEW n \in 1..Cardinality(K)
      PROVE  nth(n) \in K
  <2> HIDE DEF K
  <2>1. \E i \in K : Cardinality({j \in K : j < i}) = n - 1
    BY <1>2, NthExists
  <2> QED BY <2>1
<1>5. \A n \in 1..Cardinality(K) : /\ order.lines[nth(n)] \in RawLine
                                   /\ LooksLikeItem(order.lines[nth(n)])
  <2>1. \A i \in K : order.lines[i] \in RawLine /\ LooksLikeItem(order.lines[i])
    OBVIOUS
  <2> HIDE DEF K, nth
  <2> QED BY <1>4, <2>1
<1>6. kept \in Seq(RawLine) /\ DOMAIN kept = 1..Len(kept)
  <2> DEFINE c == Cardinality(K)
  <2>1. c \in Nat /\ kept \in [1..c -> RawLine] /\ DOMAIN kept = 1..c
    BY <1>2, <1>5
  <2> HIDE DEF c, kept
  <2>2. Len(kept) = c
    BY <2>1
  <2> QED BY <2>1, <2>2
<1>7. \A n \in DOMAIN kept : LooksLikeItem(kept[n])
  BY <1>5
<1> HIDE DEF kept
<1> QED BY <1>3, <1>6, <1>7

LEMMA LastExists ==
    ASSUME NEW n \in Nat, NEW saying \in SUBSET (1..n), saying # {}
    PROVE  (CHOOSE i \in saying : \A j \in saying : j <= i) \in saying
<1>1. IsFiniteSet(saying) /\ saying \in SUBSET Int
  <2>1. IsFiniteSet(1..n)
    BY FS_Interval
  <2>2. IsFiniteSet(saying)
    BY <2>1, FS_Subset
  <2>3. 1..n \subseteq Int
    OBVIOUS
  <2> QED BY <2>2, <2>3
<1>2. \E i \in saying : \A j \in saying : j <= i
  BY <1>1, MaxIs
<1> QED BY <1>2

\* What either reader takes from a line is an item row.
LEMMA ItemOfIs ==
    ASSUME NEW line \in RawLine, NEW c \in Int, NEW b \in Int, NEW p \in Int
    PROVE  ItemOf(line, c, b, p) \in ItemRow
<1> DEFINE Around == [status: Optional(SUBSET Word), delivered: Optional(Int)]
           around == line.around
           n == Len(around)
<1>1. /\ around \in Seq(Around) /\ line.product \in Nat /\ line.vendor \in Nat
      /\ line.name \in Nat /\ line.brand \in Nat /\ line.quantity \in Optional(-Safe..Safe)
  BY DEF RawLine
<1>2. n \in Nat /\ DOMAIN around = 1..n /\ \A i \in 1..n : around[i] \in Around
  <2> HIDE DEF Around, around
  <2> QED BY <1>1
<1>3. \A i \in 1..n : around[i].delivered \in Optional(Int)
  <2> HIDE DEF around, n
  <2> QED BY <1>2
<1>4. Inherited(around, LAMBDA o : o.delivered) \in Optional(Int)
  <2> DEFINE saying == {i \in DOMAIN around : around[i].delivered # {}}
             last == CHOOSE i \in saying : \A j \in saying : j <= i
  <2>1. Inherited(around, LAMBDA o : o.delivered)
          = IF saying = {} THEN {} ELSE around[last].delivered
    BY DEF Inherited
  <2>2. CASE saying = {}
    BY <2>1, <2>2 DEF Optional
  <2>3. CASE saying # {}
    <3>1. saying \in SUBSET (1..n)
      BY <1>2
    <3>2. last \in saying
      <4> HIDE DEF saying, n
      <4> QED BY <1>2, <2>3, <3>1, LastExists
    <3>3. last \in 1..n
      <4> HIDE DEF saying, n, last
      <4> QED BY <3>1, <3>2
    <3> HIDE DEF last, saying, around, n
    <3> QED BY <1>3, <2>1, <2>3, <3>3
  <2> QED BY <2>2, <2>3
<1>6. Kind(line) \in {"product_purchase", "membership_fee"}
  BY DEF Kind
<1>7. \A words : StatusOf(words) \in {"none", "cancelled", "returned"}
  BY DEF StatusOf
<1>8. Given(line.quantity, 0) \in Int
  BY <1>1, GivenIsInt, NumbersAssumption DEF Optional
<1>9. Inherited(line.around, LAMBDA o : o.delivered) \in Optional(Int)
  BY <1>4
<1> DEFINE status == StatusOf(Given(Inherited(line.around, LAMBDA o : o.status), {}))
           kind == Kind(line)
           quantity == Given(line.quantity, 0)
           delivered == Inherited(line.around, LAMBDA o : o.delivered)
<1>10. ItemOf(line, c, b, p) =
         [product |-> line.product, vendor |-> line.vendor, name |-> line.name,
          brand |-> line.brand, kind |-> kind, status |-> status, delivered |-> delivered,
          quantity |-> quantity, cancelled |-> c, returned |-> b, paid |-> p]
  BY DEF ItemOf
<1>11. status \in {"none", "cancelled", "returned"}
  BY <1>7
<1> HIDE DEF status, kind, quantity, delivered
<1> QED BY <1>1, <1>6, <1>8, <1>9, <1>10, <1>11 DEF ItemRow, kind, quantity, delivered

LEMMA PaidIsInt ==
    ASSUME NEW line \in RawLine
    PROVE  ParsedPaid(line) \in Int /\ ReadPaid(line) \in Int
<1>1. /\ line.quantity \in SUBSET Int /\ line.unit \in SUBSET Int
      /\ line.unitPaid \in SUBSET Int /\ line.paid \in SUBSET Int
  BY NumbersAssumption DEF RawLine, Optional
<1>2. \A V \in SUBSET Int : Int64(V) \in SUBSET Int /\ SafeInt(V) \in SUBSET Int
  BY DEF Int64, SafeInt
<1>3. ASSUME NEW n \in Int PROVE Wrapped(n) \in Int
  <2>1. 2 * Half \in Nat \ {0} /\ Half \in Int
    BY NumbersAssumption
  <2> DEFINE h == 2 * Half
             m == n + Half
  <2>2. h \in Nat \ {0} /\ m \in Int
    BY <2>1
  <2>3. m % h \in Int
    <3> HIDE DEF h, m
    <3> QED BY <2>2
  <2>4. Wrapped(n) = (m % h) - Half
    BY DEF Wrapped
  <2> HIDE DEF h, m
  <2> QED BY <2>1, <2>3, <2>4
<1> DEFINE units == Given(line.quantity, 0)
           parsedUnit == Given(Int64(line.unit), 0)
           parsedPrice == Given(Int64(line.unitPaid), parsedUnit)
           readUnit == Given(SafeInt(line.unit), 0)
           readPrice == Given(SafeInt(line.unitPaid), readUnit)
<1>4. units \in Int /\ parsedUnit \in Int /\ readUnit \in Int
  BY <1>1, <1>2, GivenIsInt
<1>5. parsedPrice \in Int /\ readPrice \in Int
  <2> HIDE DEF parsedUnit, readUnit
  <2> QED BY <1>1, <1>2, <1>4, GivenIsInt
<1>6. /\ ParsedPaid(line) = Given(Int64(line.paid), Wrapped(parsedPrice * units))
      /\ ReadPaid(line) = Given(SafeInt(line.paid), readPrice * units)
  BY DEF ParsedPaid, ReadPaid
<1> HIDE DEF units, parsedPrice, readPrice
<1>7. parsedPrice * units \in Int /\ readPrice * units \in Int
  BY <1>4, <1>5
<1>8. Wrapped(parsedPrice * units) \in Int
  BY <1>3, <1>7
<1> QED BY <1>1, <1>2, <1>6, <1>7, <1>8, GivenIsInt

\* What either reader makes of a line is an item row.
LEMMA ItemsAre ==
    ASSUME NEW line \in RawLine
    PROVE  ParsedItem(line) \in ItemRow /\ ReadItem(line) \in ItemRow
<1>1. line.cancelled \in SUBSET Int /\ line.returned \in SUBSET Int
  BY DEF RawLine, Optional
<1>2. \A V \in SUBSET Int : Int64(V) \in SUBSET Int /\ SafeInt(V) \in SUBSET Int
  BY DEF Int64, SafeInt
<1>3. /\ Given(Int64(line.cancelled), 0) \in Int /\ Given(Int64(line.returned), 0) \in Int
      /\ Given(SafeInt(line.cancelled), 0) \in Int /\ Given(SafeInt(line.returned), 0) \in Int
  BY <1>1, <1>2, GivenIsInt
<1> QED BY <1>3, PaidIsInt, ItemOfIs DEF ParsedItem, ReadItem

LEMMA OrderOfIs ==
    ASSUME NEW order \in RawOrder, order.moment # {},
           NEW time \in {"none", "night", "day", "late_evening"}, NEW total \in Int,
           NEW discount \in Int, NEW shipping \in Int, NEW items \in Seq(ItemRow)
    PROVE  OrderOf(order, time, total, discount, shipping, items) \in OrderRow
<1> DEFINE day == Given(order.moment, [day |-> 0]).day
<1>1. /\ order.moment \in SUBSET Moment /\ order.canceled \in BOOLEAN /\ order.won \in BOOLEAN
  BY DEF RawOrder, Optional
<1>2. Given(order.moment, [day |-> 0]) \in Moment
  <2>1. (CHOOSE v \in order.moment : TRUE) \in order.moment
    BY Zenon
  <2> QED BY <1>1, <2>1 DEF Given
<1>3. day \in Day
  BY <1>2 DEF Moment
<1>4. OrderOf(order, time, total, discount, shipping, items) =
         [day |-> day, time |-> time, canceled |-> order.canceled, won |-> order.won,
          amount |-> total, discount |-> discount, shipping |-> shipping, items |-> items]
  BY DEF OrderOf
<1> HIDE DEF day
<1> QED BY <1>1, <1>3, <1>4 DEF OrderRow

\* What either reader makes of an order it takes is an order row.
LEMMA OrdersAre ==
    ASSUME NEW order \in RawOrder
    PROVE  /\ ParsesOrder(order) => ParsedOrder(order) \in OrderRow
           /\ ReadsOrder(order) => ReadOrder(order) \in OrderRow
<1>1. /\ order.lines \in Seq(RawLine) /\ order.moment \in SUBSET Moment
      /\ order.total \in SUBSET Int /\ order.discount \in SUBSET Int
      /\ order.shipping \in SUBSET Int
  BY DEF RawOrder, Optional
<1>2. \A V \in SUBSET Int : Int64(V) \in SUBSET Int /\ SafeInt(V) \in SUBSET Int
  BY DEF Int64, SafeInt
<1> DEFINE n == Len(Kept(order))
           parsed == [i \in DOMAIN Kept(order) |-> ParsedItem(Kept(order)[i])]
           read == [i \in DOMAIN Kept(order) |-> ReadItem(Kept(order)[i])]
<1>3. n \in Nat /\ DOMAIN Kept(order) = 1..n /\ \A i \in 1..n : Kept(order)[i] \in RawLine
  BY <1>1, KeptAre
<1>4. parsed \in Seq(ItemRow) /\ read \in Seq(ItemRow)
  <2>1. \A i \in 1..n : ParsedItem(Kept(order)[i]) \in ItemRow /\ ReadItem(Kept(order)[i]) \in ItemRow
    BY <1>3, ItemsAre
  <2>2. parsed \in [1..n -> ItemRow] /\ read \in [1..n -> ItemRow]
    <3> HIDE DEF n
    <3> QED BY <1>3, <2>1
  <2> HIDE DEF parsed, read, n
  <2> QED BY <1>3, <2>2
<1> DEFINE moment == Given(order.moment, [form |-> "date"])
           times == {"none", "night", "day", "late_evening"}
<1>5. order.moment # {} => ParsedTime(moment) \in times /\ ReadTime(moment) \in times
  <2> SUFFICES ASSUME order.moment # {}
               PROVE  ParsedTime(moment) \in times /\ ReadTime(moment) \in times
    OBVIOUS
  <2>1. moment \in Moment
    <3>1. (CHOOSE v \in order.moment : TRUE) \in order.moment
      BY Zenon
    <3> QED BY <1>1, <3>1 DEF Given
  <2> HIDE DEF moment
  <2>2. /\ moment.form \in {"instant", "date", "spaced_date"}
        /\ moment.time \in {"night", "day", "late_evening"}
    BY <2>1 DEF Moment
  <2>3. ParsedTime(moment) \in times
    BY <2>2 DEF ParsedTime
  <2>4. ReadTime(moment) \in times
    BY <2>2 DEF ReadTime
  <2> QED BY <2>3, <2>4
<1>6. /\ Given(Int64(order.total), 0) \in Int /\ Given(Int64(order.discount), 0) \in Int
      /\ Given(Int64(order.shipping), 0) \in Int
      /\ Given(SafeInt(order.total), 0) \in Int /\ Given(SafeInt(order.discount), 0) \in Int
      /\ Given(SafeInt(order.shipping), 0) \in Int
  BY <1>1, <1>2, GivenIsInt
<1>7. ASSUME ParsesOrder(order) PROVE ParsedOrder(order) \in OrderRow
  <2>1. order.moment # {}
    BY <1>7 DEF ParsesOrder
  <2>2. ParsedOrder(order) = OrderOf(order, ParsedTime(moment), Given(Int64(order.total), 0),
                                     Given(Int64(order.discount), 0),
                                     Given(Int64(order.shipping), 0), parsed)
    BY DEF ParsedOrder
  <2> HIDE DEF moment, parsed
  <2> QED BY <1>4, <1>5, <1>6, <2>1, <2>2, OrderOfIs
<1>8. ASSUME ReadsOrder(order) PROVE ReadOrder(order) \in OrderRow
  <2>1. order.moment # {}
    BY <1>8 DEF ReadsOrder
  <2>2. ReadOrder(order) = OrderOf(order, ReadTime(moment), Given(SafeInt(order.total), 0),
                                   Given(SafeInt(order.discount), 0),
                                   Given(SafeInt(order.shipping), 0), read)
    BY DEF ReadOrder
  <2> HIDE DEF moment, read
  <2> QED BY <1>4, <1>5, <1>6, <2>1, <2>2, OrderOfIs
<1> QED BY <1>7, <1>8

\* A page of either source: an order row at each place, and its reference.
Paged(page) ==
    \E n \in Nat : /\ DOMAIN page.refs = 1..n /\ DOMAIN page.orders = 1..n
                   /\ \A i \in 1..n : page.refs[i] \in Ref /\ page.orders[i] \in OrderRow

LEMMA PagesAre ==
    ASSUME NEW doc \in Document, NEW page
    PROVE  /\ page \in SourcePages(doc) => Paged(page)
           /\ page \in PreviewedPage(doc) => page \in SourcePages(doc) /\ ValidDocument(page)
<1> DEFINE n == Len(doc.orders)
           refs == [i \in DOMAIN doc.orders |-> CHOOSE r \in doc.orders[i].ref : TRUE]
<1>1. /\ n \in Nat /\ DOMAIN doc.orders = 1..n
      /\ \A i \in 1..n : doc.orders[i] \in RawOrder
  BY DEF Document
<1> HIDE DEF n
<1>2. \A i \in 1..n : doc.orders[i].ref \in SUBSET Ref
  BY <1>1 DEF RawOrder, Optional
<1>3. \A i \in 1..n : doc.orders[i].ref # {} =>
          (CHOOSE r \in doc.orders[i].ref : TRUE) \in Ref
  <2> SUFFICES ASSUME NEW i \in 1..n, doc.orders[i].ref # {}
               PROVE  (CHOOSE r \in doc.orders[i].ref : TRUE) \in Ref
    OBVIOUS
  <2>1. (CHOOSE r \in doc.orders[i].ref : TRUE) \in doc.orders[i].ref
    BY Zenon
  <2> QED BY <1>2, <2>1
<1>4. ASSUME page \in ParsedPage(doc)
      PROVE  Paged(page)
  <2>1. /\ page = PageOf(doc, ParsedOrder)
        /\ \A i \in DOMAIN doc.orders : ParsesOrder(doc.orders[i])
    BY <1>4 DEF ParsedPage
  <2>2. /\ page.refs = refs
        /\ page.orders = [i \in DOMAIN doc.orders |-> ParsedOrder(doc.orders[i])]
    BY <2>1 DEF PageOf
  <2>3. \A i \in 1..n : doc.orders[i].ref # {} /\ ParsedOrder(doc.orders[i]) \in OrderRow
    BY <1>1, <2>1, OrdersAre DEF ParsesOrder
  <2>4. DOMAIN page.refs = 1..n /\ DOMAIN page.orders = 1..n
    BY <1>1, <2>2
  <2>5. \A i \in 1..n : page.refs[i] \in Ref
    BY <1>1, <1>3, <2>2, <2>3
  <2>6. \A i \in 1..n : page.orders[i] \in OrderRow
    BY <1>1, <2>2, <2>3
  <2> QED BY <1>1, <2>4, <2>5, <2>6 DEF Paged
<1>5. ASSUME page \in ReadPage(doc)
      PROVE  Paged(page)
  <2>1. /\ page = PageOf(doc, ReadOrder)
        /\ \A i \in DOMAIN doc.orders : ReadsOrder(doc.orders[i])
    BY <1>5 DEF ReadPage
  <2>2. /\ page.refs = refs
        /\ page.orders = [i \in DOMAIN doc.orders |-> ReadOrder(doc.orders[i])]
    BY <2>1 DEF PageOf
  <2>3. \A i \in 1..n : doc.orders[i].ref # {} /\ ReadOrder(doc.orders[i]) \in OrderRow
    BY <1>1, <2>1, OrdersAre DEF ReadsOrder
  <2>4. DOMAIN page.refs = 1..n /\ DOMAIN page.orders = 1..n
    BY <1>1, <2>2
  <2>5. \A i \in 1..n : page.refs[i] \in Ref
    BY <1>1, <1>3, <2>2, <2>3
  <2>6. \A i \in 1..n : page.orders[i] \in OrderRow
    BY <1>1, <2>2, <2>3
  <2> QED BY <1>1, <2>4, <2>5, <2>6 DEF Paged
<1>6. page \in SourcePages(doc) => page \in ParsedPage(doc) \/ page \in ReadPage(doc)
  BY DEF SourcePages, FetchedPage
<1>7. page \in PreviewedPage(doc) => page \in SourcePages(doc) /\ ValidDocument(page)
  BY DEF PreviewedPage, SourcePages, FetchedPage
<1> QED BY <1>4, <1>5, <1>6, <1>7

LEMMA TableIs ==
    ASSUME NEW page, Paged(page)
    PROVE  /\ IsFiniteSet(DOMAIN TableOf(page)) /\ DOMAIN TableOf(page) \subseteq Ref
           /\ \A r \in DOMAIN TableOf(page) : \E i \in DOMAIN page.orders :
                 TableOf(page)[r] = page.orders[i] /\ page.orders[i] \in OrderRow
<1>1. PICK n \in Nat :
         /\ DOMAIN page.refs = 1..n /\ DOMAIN page.orders = 1..n
         /\ \A i \in 1..n : page.refs[i] \in Ref /\ page.orders[i] \in OrderRow
  BY DEF Paged
<1> DEFINE named(r) == {i \in 1..n : page.refs[i] = r}
           last(r) == CHOOSE i \in DOMAIN page.refs :
                         /\ page.refs[i] = r
                         /\ \A j \in DOMAIN page.refs : page.refs[j] = r => j <= i
           D == {page.refs[i] : i \in DOMAIN page.refs}
<1>2. TableOf(page) = [r \in D |-> page.orders[last(r)]]
  BY DEF TableOf
<1>3. IsFiniteSet(D)
  <2>1. IsFiniteSet(1..n)
    BY FS_Interval
  <2>2. IsFiniteSet({page.refs[i] : i \in 1..n})
    BY <2>1, ImageIs
  <2> QED BY <1>1, <2>2
<1>4. D \subseteq Ref
  BY <1>1
<1>5. ASSUME NEW r \in D
      PROVE  last(r) \in 1..n
  <2>1. IsFiniteSet(named(r)) /\ named(r) \in SUBSET Int
    <3>1. IsFiniteSet(1..n) /\ 1..n \subseteq Int
      BY FS_Interval
    <3>2. named(r) \subseteq 1..n
      OBVIOUS
    <3> HIDE DEF named
    <3> QED BY <3>1, <3>2, FS_Subset
  <2>2. named(r) # {}
    BY <1>1
  <2>3. \E i \in named(r) : \A j \in named(r) : j <= i
    <3> HIDE DEF named
    <3> QED BY <2>1, <2>2, MaxIs
  <2>4. \E i \in DOMAIN page.refs : /\ page.refs[i] = r
                                    /\ \A j \in DOMAIN page.refs : page.refs[j] = r => j <= i
    BY <1>1, <2>3
  <2>5. last(r) \in DOMAIN page.refs
    BY <2>4
  <2> HIDE DEF last
  <2> QED BY <1>1, <2>5
<1> HIDE DEF D, last
<1>6. DOMAIN TableOf(page) = D
  BY <1>2
<1>7. ASSUME NEW r \in D
      PROVE  \E i \in DOMAIN page.orders :
                 TableOf(page)[r] = page.orders[i] /\ page.orders[i] \in OrderRow
  <2>1. TableOf(page)[r] = page.orders[last(r)]
    BY <1>2
  <2> QED BY <1>1, <1>5, <2>1
<1> QED BY <1>3, <1>4, <1>6, <1>7

-----------------------------------------------------------------------------
(* The two readers of a document.                                          *)

\* The numbers of a line, of the kind of RawLine, that a browser represents exactly.
SafeLine(line) ==
    /\ line.quantity \in SUBSET (-Safe..Safe)
    /\ line.cancelled \in SUBSET (-Safe..Safe)
    /\ line.returned \in SUBSET (-Safe..Safe)
    /\ line.unit \in SUBSET (-Safe..Safe)
    /\ line.unitPaid \in SUBSET (-Safe..Safe)
    /\ line.paid \in SUBSET (-Safe..Safe)

\* An order of such numbers whose date is not written with spaces.
SafeOrder(order) ==
    /\ order.total \in SUBSET (-Safe..Safe)
    /\ order.discount \in SUBSET (-Safe..Safe)
    /\ order.shipping \in SUBSET (-Safe..Safe)
    /\ \A m \in order.moment : m.form \in {"instant", "date"}
    /\ \A i \in DOMAIN Kept(order) : SafeLine(Kept(order)[i])

-----------------------------------------------------------------------------
(* Numbers both readers take.                                              *)

LEMMA SafeNumbersAlike ==
    ASSUME NEW value \in SUBSET (-Safe..Safe)
    PROVE  SafeInt(value) = value /\ Int64(value) = value
<1>1. \A v \in value : v \in Int /\ v >= -Safe /\ v <= Safe
  BY NumbersAssumption
<1>2. \A v \in value : v >= -Half /\ v < Half
  BY <1>1, NumbersAssumption
<1>3. SafeInt(value) = value
  BY <1>1 DEF SafeInt
<1>4. Int64(value) = value
  BY <1>2 DEF Int64
<1> QED BY <1>3, <1>4

LEMMA SafeIsNotWrapped ==
    ASSUME NEW n \in 0..Safe
    PROVE  Wrapped(n) = n
<1> DEFINE m == n + Half
<1>1. m \in Nat /\ 2 * Half \in Nat \ {0} /\ m < 2 * Half
  BY NumbersAssumption
<1> HIDE DEF m
<1>2. m % (2 * Half) = m
  BY <1>1
<1> QED BY <1>2, NumbersAssumption DEF Wrapped, m

-----------------------------------------------------------------------------
(* Lines both readers take.                                                *)

\* The reader takes the same numbers from a line as the parser, when it takes it.
LEMMA SafePaidAlike ==
    ASSUME NEW line, SafeLine(line), ReadPaid(line) \in 0..Safe
    PROVE  ParsedPaid(line) = ReadPaid(line)
<1> DEFINE unit == Given(line.unit, 0)
           price == Given(line.unitPaid, unit)
           units == Given(line.quantity, 0)
<1>1. /\ SafeInt(line.unit) = line.unit /\ Int64(line.unit) = line.unit
      /\ SafeInt(line.unitPaid) = line.unitPaid /\ Int64(line.unitPaid) = line.unitPaid
      /\ SafeInt(line.paid) = line.paid /\ Int64(line.paid) = line.paid
  BY SafeNumbersAlike DEF SafeLine
<1>2. ReadPaid(line) = Given(line.paid, price * units)
  BY <1>1 DEF ReadPaid
<1>3. ParsedPaid(line) = Given(line.paid, Wrapped(price * units))
  BY <1>1 DEF ParsedPaid
<1> HIDE DEF price, units
<1>4. CASE line.paid = {}
  <2>1. price * units \in 0..Safe
    BY <1>2, <1>4 DEF Given
  <2> QED BY <1>2, <1>3, <1>4, <2>1, SafeIsNotWrapped DEF Given
<1>5. CASE line.paid # {}
  BY <1>2, <1>3, <1>5 DEF Given
<1> QED BY <1>4, <1>5

LEMMA SafeLinesAlike ==
    ASSUME NEW line, SafeLine(line), ReadsItem(line)
    PROVE  ParsesItem(line) /\ ParsedItem(line) = ReadItem(line)
<1>1. /\ SafeInt(line.unit) = line.unit /\ Int64(line.unit) = line.unit
      /\ SafeInt(line.cancelled) = line.cancelled /\ Int64(line.cancelled) = line.cancelled
      /\ SafeInt(line.returned) = line.returned /\ Int64(line.returned) = line.returned
  BY SafeNumbersAlike DEF SafeLine
<1>2. ReadPaid(line) \in Int
  <2>1. /\ Given(SafeInt(line.unit), 0) \in Int /\ Given(line.quantity, 0) \in Int
    BY <1>1, GivenIsInt, NumbersAssumption DEF SafeLine
  <2>2. SafeInt(line.unitPaid) \in SUBSET Int /\ SafeInt(line.paid) \in SUBSET Int
    BY NumbersAssumption DEF SafeLine, SafeInt
  <2> DEFINE unit == Given(SafeInt(line.unit), 0)
             price == Given(SafeInt(line.unitPaid), unit)
             units == Given(line.quantity, 0)
  <2>3. price \in Int
    BY <2>1, <2>2, GivenIsInt
  <2>4. price * units \in Int
    <3> HIDE DEF price, units
    <3> QED BY <2>1, <2>3 DEF units
  <2>5. Given(SafeInt(line.paid), price * units) \in Int
    <3> HIDE DEF price, units
    <3> QED BY <2>2, <2>4, GivenIsInt
  <2> QED BY <2>5 DEF ReadPaid
<1>3. ReadItem(line).paid = ReadPaid(line)
  BY DEF ReadItem, ItemOf
<1>4. ReadPaid(line) \in 0..Safe
  BY <1>2, <1>3, NumbersAssumption DEF ReadsItem
<1>5. ParsedPaid(line) = ReadPaid(line)
  BY <1>4, SafePaidAlike
<1>6. ParsedItem(line) = ReadItem(line)
  BY <1>1, <1>5 DEF ParsedItem, ReadItem
<1>7. ParsesItem(line)
  BY <1>1, <1>6 DEF ReadsItem, ParsesItem
<1> QED BY <1>6, <1>7

-----------------------------------------------------------------------------
(* Orders and pages of both readers.                                       *)

LEMMA SafeOrdersAlike ==
    ASSUME NEW order, SafeOrder(order), ReadsOrder(order)
    PROVE  ParsesOrder(order) /\ ParsedOrder(order) = ReadOrder(order)
<1>1. /\ SafeInt(order.total) = order.total /\ Int64(order.total) = order.total
      /\ SafeInt(order.discount) = order.discount /\ Int64(order.discount) = order.discount
      /\ SafeInt(order.shipping) = order.shipping /\ Int64(order.shipping) = order.shipping
  BY SafeNumbersAlike DEF SafeOrder
<1>2. \A i \in DOMAIN Kept(order) : /\ ParsesItem(Kept(order)[i])
                                    /\ ParsedItem(Kept(order)[i]) = ReadItem(Kept(order)[i])
  BY SafeLinesAlike DEF SafeOrder, ReadsOrder
<1>3. ParsesOrder(order)
  BY <1>1, <1>2 DEF ReadsOrder, ParsesOrder
<1>4. [i \in DOMAIN Kept(order) |-> ParsedItem(Kept(order)[i])]
        = [i \in DOMAIN Kept(order) |-> ReadItem(Kept(order)[i])]
  BY <1>2
<1>5. Given(order.moment, [form |-> "date"]).form \in {"instant", "date"}
  <2>1. order.moment # {}
    BY DEF ReadsOrder
  <2>2. (CHOOSE m \in order.moment : TRUE) \in order.moment
    BY <2>1
  <2> QED BY <2>1, <2>2 DEF Given, SafeOrder
<1>6. ParsedTime(Given(order.moment, [form |-> "date"]))
        = ReadTime(Given(order.moment, [form |-> "date"]))
  BY <1>5 DEF ParsedTime, ReadTime
<1>7. ParsedOrder(order) = ReadOrder(order)
  BY <1>1, <1>4, <1>6 DEF ParsedOrder, ReadOrder
<1> QED BY <1>3, <1>7

(* A page the reader in the browser returns is the page the parser makes of the same   *)
(* document: of numbers a browser represents exactly, and dates without spaces, the    *)
(* two sources of a ledger never disagree on an order both accept.                     *)
THEOREM ReadersAgree ==
    ASSUME NEW doc,
           \A c \in doc.next : c.year \in Int /\ c.page \in Int,
           \A i \in DOMAIN doc.orders : SafeOrder(doc.orders[i])
    PROVE  ReadPage(doc) \subseteq ParsedPage(doc)
<1> SUFFICES ASSUME NEW page \in ReadPage(doc)
             PROVE  page \in ParsedPage(doc)
  OBVIOUS
<1>1. /\ Complete(doc)
      /\ \A i \in DOMAIN doc.orders : ReadsOrder(doc.orders[i])
      /\ \/ doc.hasNext = "no"
         \/ doc.hasNext = "yes" /\ \E c \in doc.next : ValidCursor(c)
      /\ page = PageOf(doc, ReadOrder)
  BY DEF ReadPage
<1>2. \A i \in DOMAIN doc.orders :
          /\ ParsesOrder(doc.orders[i])
          /\ ParsedOrder(doc.orders[i]) = ReadOrder(doc.orders[i])
  BY <1>1, SafeOrdersAlike
<1>3. PageOf(doc, ParsedOrder) = PageOf(doc, ReadOrder)
  <2>1. [i \in DOMAIN doc.orders |-> ParsedOrder(doc.orders[i])]
          = [i \in DOMAIN doc.orders |-> ReadOrder(doc.orders[i])]
    BY <1>2
  <2> QED BY <2>1 DEF PageOf
<1>4. \A c \in doc.next : ValidCursor(c) => c.year >= 2000 /\ c.page >= 0
  BY DEF ValidCursor
<1>5. \/ doc.hasNext = "no"
      \/ doc.hasNext = "yes" /\ \E c \in doc.next : c.year >= 2000 /\ c.page >= 0
  BY <1>1, <1>4
<1> DEFINE parses == /\ Complete(doc)
                     /\ \A i \in DOMAIN doc.orders : ParsesOrder(doc.orders[i])
                     /\ \/ doc.hasNext = "no"
                        \/ /\ doc.hasNext = "yes"
                           /\ \E c \in doc.next : c.year >= 2000 /\ c.page >= 0
<1>6. parses
  BY <1>1, <1>2, <1>5
<1>7. ParsedPage(doc) = IF parses THEN {PageOf(doc, ParsedOrder)} ELSE {}
  BY Zenon DEF ParsedPage
<1>8. ParsedPage(doc) = {PageOf(doc, ParsedOrder)}
  <2> HIDE DEF parses
  <2> QED BY Zenon, <1>6, <1>7
<1> QED BY <1>1, <1>3, <1>8

\* An order of a page that passed the contract of a document can be stored.
LEMMA AdmittedOrderIsValid ==
    ASSUME NEW page, ValidDocument(page), NEW r \in DOMAIN page.orders,
           page.orders[r] \in OrderRow
    PROVE  ValidOrder(page.orders[r])
<1> DEFINE o == page.orders[r]
<1>1. /\ o.won /\ o.amount >= 0 /\ o.discount >= 0 /\ o.shipping >= 0
      /\ \A k \in DOMAIN o.items :
            /\ o.items[k].name # 0
            /\ o.items[k].quantity >= 1 /\ o.items[k].paid >= 0
            /\ o.items[k].cancelled >= 0 /\ o.items[k].cancelled <= o.items[k].quantity
            /\ o.items[k].returned >= 0 /\ o.items[k].returned <= o.items[k].quantity
  BY DEF ValidDocument
<1> HIDE DEF o
<1>2. o.items \in Seq(ItemRow)
  BY DEF OrderRow, o
<1>3. ASSUME NEW k \in DOMAIN o.items
      PROVE  ValidItem(o.items[k])
  <2> DEFINE item == o.items[k]
  <2>1. item \in ItemRow
    BY <1>2, <1>3
  <2>2. item.quantity \in Int /\ item.cancelled \in Int /\ item.returned \in Int
    <3> HIDE DEF item
    <3> QED BY <2>1 DEF ItemRow
  <2> QED BY <1>1, <2>2 DEF ValidItem
<1>4. ValidOrder(o)
  BY <1>1, <1>3 DEF ValidOrder
<1> QED BY <1>4 DEF o

(* What FetchPage lets through, the ledger stores: no document page that passed its    *)
(* contract is refused by the upsert, so a page is not acknowledged in vain.           *)
THEOREM AdmittedPagesAreStorable ==
    ASSUME NEW page, page.orders \in Seq(OrderRow), ValidDocument(page)
    PROVE  ValidPage(page.orders)
<1>1. ASSUME NEW r \in DOMAIN page.orders
      PROVE  ValidOrder(page.orders[r])
  <2>1. page.orders[r] \in OrderRow
    OBVIOUS
  <2> QED BY <2>1, AdmittedOrderIsValid
<1> QED BY <1>1 DEF ValidPage

(* The parser keeps no item the ledger would refuse: an item is only taken when it has *)
(* a name and units of it were ordered, and never with more of them cancelled or returned.              *)
THEOREM ParsedItemsAreStorable ==
    ASSUME NEW line, line.quantity \in SUBSET Int,
           LooksLikeItem(line), ParsesItem(line)
    PROVE  ValidItem(ParsedItem(line))
<1>1. Given(line.quantity, 0) \in Int /\ Given(line.quantity, 0) > 0
  BY GivenIsInt DEF LooksLikeItem
<1>2. ParsedItem(line).quantity = Given(line.quantity, 0) /\ ParsedItem(line).name = line.name
  BY DEF ParsedItem, ItemOf
<1>3. ParsedItem(line).quantity >= 1 /\ ParsedItem(line).name # 0
  BY <1>1, <1>2 DEF LooksLikeItem
<1> QED BY <1>3 DEF ParsesItem, ValidItem

-----------------------------------------------------------------------------
(* Recording prices.                                                       *)

\* The table once the observations of a batch at the places s have been inserted, in
\* their order, when g says what it is for fewer of them.
InsertedAt(table, batch, g, s) ==
    IF s = {} THEN table ELSE Insert(g[s \ {Max(s)}], batch[Max(s)])

Inserted(table, batch) == FoldLeft(Insert, table, batch)

OneByOne(table, batch, n, g) ==
    /\ Inserted(table, batch) = g[1..n] /\ g[{}] = table
    /\ \A k \in 1..n : g[1..k] = Insert(g[1..(k - 1)], batch[k])

\* The batch is inserted one observation after another.
LEMMA InsertsUnfold ==
    ASSUME NEW table, NEW batch, NEW n \in Nat, DOMAIN batch = 1..n
    PROVE  \E g : OneByOne(table, batch, n, g)
<1> DEFINE S == 1..n
           Step(g, s) == InsertedAt(table, batch, g, s)
           Correct(g, m) ==
              /\ g = [s \in SUBSET S |-> g[s]]
              /\ \A s \in SUBSET S : Cardinality(s) <= m => g[s] = Step(g, s)
           T == {m \in Nat : \E g : Correct(g, m)}
           fold == CHOOSE g : g = [s \in SUBSET S |-> Step(g, s)]
<1>0. IsFiniteSet(S) /\ S \subseteq Int
  BY FS_Interval
<1>1. \A s \in SUBSET S : IsFiniteSet(s) /\ Cardinality(s) \in Nat /\ s \subseteq Int
                          /\ Cardinality(s) <= Cardinality(S)
  BY <1>0, FS_Subset, FS_CardinalityType
<1>2. ASSUME NEW s \in SUBSET S, s # {}
      PROVE  /\ s \ {Max(s)} \in SUBSET S
             /\ Cardinality(s \ {Max(s)}) = Cardinality(s) - 1
  <2>1. Max(s) \in s
    BY <1>1, <1>2, MaxIs
  <2> QED BY <1>1, <2>1, FS_RemoveElement
<1> HIDE DEF S
<1>3. 0 \in T
  <2> DEFINE g == [s \in SUBSET S |-> table]
  <2>1. \A s \in SUBSET S : Cardinality(s) <= 0 => s = {}
    BY <1>1, FS_EmptySet
  <2>2. Correct(g, 0)
    BY <2>1 DEF InsertedAt
  <2> QED BY <2>2
<1>4. ASSUME NEW m \in T PROVE m + 1 \in T
  <2>1. PICK g : Correct(g, m)
    OBVIOUS
  <2> DEFINE h == [s \in SUBSET S |-> Step(g, s)]
  <2>2. ASSUME NEW s \in SUBSET S, Cardinality(s) <= m + 1
        PROVE  h[s] = Step(h, s)
    <3>1. CASE s = {}
      BY <3>1 DEF InsertedAt
    <3>2. CASE s # {}
      <4>1. s \ {Max(s)} \in SUBSET S /\ Cardinality(s \ {Max(s)}) <= m
        BY <1>1, <1>2, <2>2, <3>2
      <4>2. g[s \ {Max(s)}] = h[s \ {Max(s)}]
        BY <2>1, <4>1
      <4> QED BY <3>2, <4>2 DEF InsertedAt
    <3> QED BY <3>1, <3>2
  <2>3. Correct(h, m + 1)
    BY <2>2
  <2>4. m + 1 \in Nat
    OBVIOUS
  <2> QED
    <3> HIDE DEF h, Correct
    <3> QED BY <2>3, <2>4
<1>5. Cardinality(S) \in T
  <2>1. T = Nat
    <3> HIDE DEF T
    <3> QED BY <1>3, <1>4, SetInduction DEF T
  <2> QED BY <1>0, <2>1, FS_CardinalityType
<1>6. PICK g : Correct(g, Cardinality(S))
  BY <1>5
<1>7. \E h : h = [s \in SUBSET S |-> Step(h, s)]
  BY <1>1, <1>6
<1>8. Inserted(table, batch) = fold[S]
  BY DEF Inserted, FoldLeft, MapThenFoldSet, InsertedAt, S
<1>9. fold = [s \in SUBSET S |-> Step(fold, s)]
  BY <1>7, Zenon
<1> HIDE DEF fold
<1>10. fold[{}] = table
  BY <1>9 DEF InsertedAt
<1>11. ASSUME NEW k \in 1..n
       PROVE  fold[1..k] = Insert(fold[1..(k - 1)], batch[k])
  <2>1. 1..k \in SUBSET S /\ k \in 1..k /\ 1..k \subseteq Int /\ \A i \in 1..k : k >= i
    BY DEF S
  <2>2. Max(1..k) = k
    <3>1. IsFiniteSet(1..k)
      BY FS_Interval
    <3>2. Max(1..k) \in 1..k /\ \A i \in 1..k : Max(1..k) >= i
      BY <2>1, <3>1, MaxIs
    <3> QED BY <2>1, <3>2
  <2>3. (1..k) \ {k} = 1..(k - 1)
    OBVIOUS
  <2> QED BY <1>9, <2>1, <2>2, <2>3 DEF InsertedAt
<1> QED BY <1>8, <1>10, <1>11 DEF S, OneByOne

\* What a table was begins what it becomes.
Begins(table, after) ==
    Len(table) <= Len(after) /\ \A i \in 1..Len(table) : after[i] = table[i]

\* An observation of a batch that has a row, and rows that are observations of it.
HasRow(after, o) == \E j \in DOMAIN after : SameRow(after[j], o)
From(table, after, batch, k) ==
    \A j \in 1..Len(after) : j > Len(table) => \E i \in 1..k : after[j] = batch[i]

LEMMA InsertIs ==
    ASSUME NEW table, PriceTable(table), NEW o \in Observation, Recordable(o)
    PROVE  /\ PriceTable(Insert(table, o)) /\ Begins(table, Insert(table, o))
           /\ HasRow(Insert(table, o), o)
           /\ \A j \in 1..Len(Insert(table, o)) :
                 j > Len(table) => Insert(table, o)[j] = o
           /\ HasRow(table, o) => Insert(table, o) = table
<1>1. table \in Seq(Observation) /\ Len(table) \in Nat /\ DOMAIN table = 1..Len(table)
  BY DEF PriceTable
<1>2. HasRow(table, o) => Insert(table, o) = table
  BY DEF Insert, HasRow
<1>3. CASE HasRow(table, o)
  <2>1. Insert(table, o) = table
    BY <1>2, <1>3
  <2> QED BY <1>1, <1>3, <2>1 DEF Begins
<1>4. CASE ~HasRow(table, o)
  <2> DEFINE after == Append(table, o)
             n == Len(table)
  <2>1. Insert(table, o) = after
    BY <1>4 DEF Insert, HasRow
  <2>2. /\ after \in Seq(Observation) /\ Len(after) = n + 1 /\ DOMAIN after = 1..(n + 1)
        /\ after[n + 1] = o /\ \A i \in 1..n : after[i] = table[i]
    BY <1>1
  <2> HIDE DEF after
  <2>3. \A i \in 1..n : ~SameRow(table[i], o) /\ ~SameRow(o, table[i])
    BY <1>1, <1>4 DEF HasRow, SameRow
  <2>4. SameRow(o, o)
    BY DEF SameRow
  <2>5. \A i \in DOMAIN after : after[i].evidence # {} => Recordable(after[i])
    <3> SUFFICES ASSUME NEW i \in DOMAIN after, after[i].evidence # {}
                 PROVE  Recordable(after[i])
      OBVIOUS
    <3>1. CASE i \in 1..n
      BY <1>1, <2>2, <3>1 DEF PriceTable
    <3>2. CASE i = n + 1
      BY <2>2, <3>2
    <3> QED BY <1>1, <2>2, <3>1, <3>2
  <2>6. \A i, j \in DOMAIN after : SameRow(after[i], after[j]) => i = j
    <3> SUFFICES ASSUME NEW i \in DOMAIN after, NEW j \in DOMAIN after,
                        SameRow(after[i], after[j])
                 PROVE  i = j
      OBVIOUS
    <3>1. (i \in 1..n \/ i = n + 1) /\ (j \in 1..n \/ j = n + 1)
      BY <1>1, <2>2
    <3>2. CASE i \in 1..n /\ j \in 1..n
      <4>1. SameRow(table[i], table[j])
        BY <2>2, <3>2
      <4> QED BY <1>1, <3>2, <4>1 DEF PriceTable
    <3>3. CASE i \in 1..n /\ j = n + 1
      BY <2>2, <2>3, <3>3
    <3>4. CASE i = n + 1 /\ j \in 1..n
      BY <2>2, <2>3, <3>4
    <3> QED BY <3>1, <3>2, <3>3, <3>4
  <2>7. PriceTable(after)
    BY <2>2, <2>5, <2>6 DEF PriceTable
  <2>8. Begins(table, after)
    BY <1>1, <2>2 DEF Begins
  <2>9. HasRow(after, o)
    <3>1. n + 1 \in DOMAIN after
      BY <1>1, <2>2
    <3> QED BY <2>2, <2>4, <3>1 DEF HasRow
  <2>10. \A j \in 1..Len(after) : j > Len(table) => after[j] = o
    BY <1>1, <2>2
  <2> QED BY <1>4, <2>1, <2>7, <2>8, <2>9, <2>10
<1> QED BY <1>3, <1>4

\* A row that begins a table stays kept in what the table becomes.
LEMMA StaysKept ==
    ASSUME NEW a, NEW b, PriceTable(a), PriceTable(b), Begins(a, b), NEW o, HasRow(a, o)
    PROVE  HasRow(b, o)
<1>1. Len(a) \in Nat /\ DOMAIN a = 1..Len(a) /\ Len(b) \in Nat /\ DOMAIN b = 1..Len(b)
  BY DEF PriceTable
<1>2. PICK j \in DOMAIN a : SameRow(a[j], o)
  BY DEF HasRow
<1>3. j \in DOMAIN b /\ b[j] = a[j]
  BY <1>1 DEF Begins
<1> QED BY <1>2, <1>3 DEF HasRow

(* What RecordPriceObservations keeps, whatever it is given: a table of prices stays   *)
(* one, without two rows of one product, time and source and without an amount that    *)
(* nothing proves; no row already there changes; of a batch with nothing to refuse     *)
(* every observation has a row, and all new rows are its observations.                 *)
THEOREM RecordingKeepsHistory ==
    ASSUME NEW table, PriceTable(table), NEW batch \in Seq(Observation)
    PROVE  LET after == RecordObservations(table, batch)
           IN  /\ PriceTable(after)
               /\ Len(table) <= Len(after) /\ \A i \in DOMAIN table : after[i] = table[i]
               /\ (\A i \in DOMAIN batch : Recordable(batch[i])) =>
                     \A i \in DOMAIN batch : \E j \in DOMAIN after :
                         SameRow(after[j], batch[i])
               /\ \A j \in DOMAIN after \ DOMAIN table :
                     \E i \in DOMAIN batch : after[j] = batch[i] /\ HasEvidence(batch[i])
<1> DEFINE after == RecordObservations(table, batch)
           n == Len(batch)
           accepted == \A i \in DOMAIN batch : Recordable(batch[i])
<1>1. n \in Nat /\ DOMAIN batch = 1..n /\ Len(table) \in Nat /\ DOMAIN table = 1..Len(table)
  BY DEF PriceTable
<1>2. CASE ~accepted
  <2>1. after = table
    BY <1>2 DEF RecordObservations
  <2> HIDE DEF after
  <2> QED BY <1>1, <1>2, <2>1 DEF after
<1>3. CASE accepted
  <2>1. after = Inserted(table, batch)
    BY <1>3 DEF RecordObservations, Inserted
  <2>0. PICK g : OneByOne(table, batch, n, g)
    <3> HIDE DEF n
    <3> QED BY <1>1, InsertsUnfold
  <2>2. /\ Inserted(table, batch) = g[1..n] /\ g[{}] = table
        /\ \A k \in 1..n : g[1..k] = Insert(g[1..(k - 1)], batch[k])
    BY <2>0 DEF OneByOne
  <2> HIDE DEF after
  <2> DEFINE Good(k) == /\ PriceTable(g[1..k]) /\ Begins(table, g[1..k])
                        /\ \A i \in 1..k : HasRow(g[1..k], batch[i])
                        /\ From(table, g[1..k], batch, k)
             T == {k \in Nat : k <= n => Good(k)}
  <2>3. 0 \in T
    <3>1. g[1..0] = table
      BY <2>2
    <3>2. Good(0)
      BY <1>1, <3>1 DEF Begins, From
    <3> QED BY <3>2
  <2>4. ASSUME NEW k \in T PROVE k + 1 \in T
    <3> SUFFICES ASSUME k + 1 <= n PROVE Good(k + 1)
      OBVIOUS
    <3>1. Good(k) /\ k + 1 \in 1..n /\ k \in Nat
      BY <1>1
    <3> DEFINE a == g[1..k]
               b == g[1..(k + 1)]
               o == batch[k + 1]
    <3>2. b = Insert(a, o)
      BY <2>2, <3>1
    <3>3. o \in Observation /\ Recordable(o)
      BY <1>1, <1>3, <3>1
    <3>4. /\ PriceTable(a) /\ Begins(table, a) /\ \A i \in 1..k : HasRow(a, batch[i])
          /\ From(table, a, batch, k)
      BY <3>1
    <3> HIDE DEF a, b, o, Good
    <3>5. /\ PriceTable(b) /\ Begins(a, b) /\ HasRow(b, o)
          /\ \A j \in 1..Len(b) : j > Len(a) => b[j] = o
      BY <3>2, <3>3, <3>4, InsertIs
    <3>6. Len(a) \in Nat /\ Len(b) \in Nat
      BY <3>4, <3>5 DEF PriceTable
    <3>7. Begins(table, b)
      BY <1>1, <3>4, <3>5, <3>6 DEF Begins
    <3>8. \A i \in 1..(k + 1) : HasRow(b, batch[i])
      <4> SUFFICES ASSUME NEW i \in 1..(k + 1) PROVE HasRow(b, batch[i])
        OBVIOUS
      <4>1. CASE i \in 1..k
        BY <3>4, <3>5, <4>1, StaysKept
      <4>2. CASE i = k + 1
        BY <3>5, <4>2 DEF o
      <4> QED BY <3>1, <4>1, <4>2
    <3>9. From(table, b, batch, k + 1)
      <4> SUFFICES ASSUME NEW j \in 1..Len(b), j > Len(table)
                   PROVE  \E i \in 1..(k + 1) : b[j] = batch[i]
        BY DEF From
      <4>1. CASE j <= Len(a)
        <5>1. j \in 1..Len(a) /\ b[j] = a[j]
          BY <3>5, <3>6, <4>1 DEF Begins
        <5>2. PICK i \in 1..k : a[j] = batch[i]
          BY <3>4, <5>1 DEF From
        <5> QED BY <3>1, <5>1, <5>2
      <4>2. CASE j > Len(a)
        <5>1. b[j] = batch[k + 1] /\ k + 1 \in 1..(k + 1)
          BY <3>1, <3>5, <4>2 DEF o
        <5> QED BY <5>1
      <4> QED BY <3>6, <4>1, <4>2
    <3> QED BY <3>5, <3>7, <3>8, <3>9 DEF Good, b
  <2>5. T = Nat
    <3> HIDE DEF T
    <3> QED BY <2>3, <2>4, SetInduction DEF T
  <2>6. Good(n)
    BY <1>1, <2>5
  <2>7. /\ PriceTable(after) /\ Begins(table, after) /\ From(table, after, batch, n)
        /\ \A i \in 1..n : HasRow(after, batch[i])
    BY <2>1, <2>2, <2>6
  <2>8. Len(after) \in Nat /\ DOMAIN after = 1..Len(after)
    BY <2>7 DEF PriceTable
  <2>9. \A j \in DOMAIN after \ DOMAIN table :
           \E i \in DOMAIN batch : after[j] = batch[i] /\ HasEvidence(batch[i])
    <3> SUFFICES ASSUME NEW j \in DOMAIN after \ DOMAIN table
                 PROVE  \E i \in DOMAIN batch : after[j] = batch[i] /\ HasEvidence(batch[i])
      OBVIOUS
    <3>1. j \in 1..Len(after) /\ j > Len(table)
      BY <1>1, <2>8
    <3>2. PICK i \in 1..n : after[j] = batch[i]
      BY <2>7, <3>1 DEF From
    <3>3. HasEvidence(batch[i])
      BY <1>1, <1>3 DEF Recordable
    <3> QED BY <1>1, <3>2, <3>3
  <2> QED BY <1>1, <2>7, <2>9 DEF Begins, HasRow, after
<1> QED BY <1>2, <1>3

\* Observations that all have a row leave the table as it is.
LEMMA KeptAreIgnored ==
    ASSUME NEW table, PriceTable(table), NEW batch \in Seq(Observation),
           \A i \in DOMAIN batch : Recordable(batch[i]) /\ HasRow(table, batch[i])
    PROVE  Inserted(table, batch) = table
<1> DEFINE n == Len(batch)
<1>1. n \in Nat /\ DOMAIN batch = 1..n
  OBVIOUS
<1>0. PICK g : OneByOne(table, batch, n, g)
  <2> HIDE DEF n
  <2> QED BY <1>1, InsertsUnfold
<1>2. /\ Inserted(table, batch) = g[1..n] /\ g[{}] = table
      /\ \A k \in 1..n : g[1..k] = Insert(g[1..(k - 1)], batch[k])
  BY <1>0 DEF OneByOne
<1> DEFINE T == {k \in Nat : k <= n => g[1..k] = table}
<1>3. 0 \in T
  BY <1>2
<1>4. ASSUME NEW k \in T PROVE k + 1 \in T
  <2> SUFFICES ASSUME k + 1 <= n PROVE g[1..(k + 1)] = table
    OBVIOUS
  <2>1. k \in Nat /\ k + 1 \in 1..n /\ g[1..k] = table
    BY <1>1
  <2>2. g[1..(k + 1)] = Insert(table, batch[k + 1])
    BY <1>2, <2>1
  <2>3. HasRow(table, batch[k + 1]) /\ batch[k + 1] \in Observation /\ Recordable(batch[k + 1])
    BY <1>1, <2>1
  <2> QED BY <2>2, <2>3, InsertIs
<1>5. T = Nat
  <2> HIDE DEF T
  <2> QED BY <1>3, <1>4, SetInduction DEF T
<1> QED BY <1>1, <1>2, <1>5

(* A batch recorded again, after a call whose answer was lost, changes nothing.        *)
THEOREM RetriesRecordNothing ==
    ASSUME NEW table, PriceTable(table), NEW batch \in Seq(Observation)
    PROVE  LET after == RecordObservations(table, batch)
           IN  RecordObservations(after, batch) = after
<1> DEFINE after == RecordObservations(table, batch)
           accepted == \A i \in DOMAIN batch : Recordable(batch[i])
<1>1. /\ PriceTable(after)
      /\ accepted => \A i \in DOMAIN batch : HasRow(after, batch[i])
  BY RecordingKeepsHistory DEF HasRow
<1>2. RecordObservations(after, batch) = after
  <2>1. CASE ~accepted
    BY <2>1 DEF RecordObservations
  <2>2. CASE accepted
    <3> HIDE DEF after
    <3>1. RecordObservations(after, batch) = Inserted(after, batch)
      BY <2>2 DEF RecordObservations, Inserted
    <3>2. Inserted(after, batch) = after
      BY <1>1, <2>2, KeptAreIgnored
    <3> QED BY <3>1, <3>2
  <2> QED BY <2>1, <2>2
<1> QED BY <1>2

-----------------------------------------------------------------------------
(* What holds of every reachable state.                                    *)

\* The answers g are those of the orders S of a table, and of a table of prices.
Answered(g, t, S, prices) == \A n \in DOMAIN g : g[n] = Query(n, t, S, prices)

\* The answers of a report are those of one admitted table, of a filter and of one
\* table of prices, to the first queries of its plan.
Fits(l) ==
    /\ Table(l.snapshot) /\ l.filter \in Filter /\ PriceTable(l.prices)
    /\ \E k \in 0..Len(Plan[l.op]) : DOMAIN l.got = Names(l.op, k)
    /\ Answered(l.got, l.snapshot, Selected(l.snapshot, l.filter), l.prices)

\* A list has admitted rows, and items of some of them that are those of admitted
\* rows.
Lists(got) ==
    /\ got = [rows |-> got.rows, items |-> got.items]
    /\ DOMAIN got.items \subseteq DOMAIN got.rows
    /\ \A o \in DOMAIN got.rows : got.rows[o] \in OrderRow /\ ValidOrder(got.rows[o])
    /\ \A o \in DOMAIN got.items : \A i \in DOMAIN got.items[o] :
           ValidItem(got.items[o][i])

Session(l) ==
    /\ l = [op |-> l.op, filter |-> l.filter, snapshot |-> l.snapshot, got |-> l.got,
            prices |-> l.prices]
    /\ l.op \in Reports \cup {"none", "export", "preview"}
    /\ l.filter \in Filter \cup {Idle.filter} /\ Table(l.snapshot)
    /\ l.op \in Reports => Fits(l)
    /\ l.op = "export" => Lists(l.got)
    /\ l.op = "preview" => ValidPage(l.got)

IInv ==
    /\ Table(orders)
    /\ DOMAIN reader = Reader
    /\ \A r \in Reader : Session(reader[r])

LEMMA ReportNames == "none" \notin Reports /\ "export" \notin Reports /\ "preview" \notin Reports
BY DEF Reports

LEMMA NoRowsAre == Table(NoRows) /\ ValidPage(NoRows) /\ DOMAIN NoRows = {}
<1>1. DOMAIN NoRows = {}
  BY DEF NoRows
<1> QED BY <1>1, FS_EmptySet DEF Table, ValidPage

LEMMA IdleIs == Session(Idle) /\ Idle.op = "none"
BY ReportNames, NoRowsAre DEF Session, Idle

LEMMA InitIInv == Init => IInv
<1> SUFFICES ASSUME Init PROVE IInv
  OBVIOUS
<1>1. orders = NoRows /\ reader = [r \in Reader |-> Idle]
  BY DEF Init
<1> QED BY <1>1, NoRowsAre, IdleIs DEF IInv

\* What becomes of one reader leaves the others as they are.
LEMMA BecomeKeeps ==
    ASSUME IInv, NEW r \in Reader, NEW l, Become(r, l), Session(l), UNCHANGED orders
    PROVE  IInv'
<1>1. reader' = [reader EXCEPT ![r] = l]
  BY DEF Become
<1>2. DOMAIN reader = Reader /\ \A s \in Reader : Session(reader[s])
  BY DEF IInv
<1>3. DOMAIN reader' = Reader
  BY <1>1, <1>2
<1>4. \A s \in Reader : reader'[s] = IF s = r THEN l ELSE reader[s]
  BY <1>1, <1>2
<1>5. \A s \in Reader : Session(reader'[s])
  BY <1>2, <1>4
<1>6. Table(orders')
  BY DEF IInv
<1> QED BY <1>3, <1>5, <1>6 DEF IInv

LEMMA UpsertKeeps ==
    ASSUME IInv, NEW page, Upsert(page),
           IsFiniteSet(DOMAIN page), DOMAIN page \subseteq Ref,
           \A r \in DOMAIN page : page[r] \in OrderRow
    PROVE  IInv'
<1>1. /\ Table(orders) /\ UNCHANGED reader /\ ValidPage(page)
      /\ orders' = [r \in DOMAIN orders \cup DOMAIN page |->
                       IF r \in DOMAIN page THEN page[r] ELSE orders[r]]
  BY DEF IInv, Upsert
<1>2. DOMAIN orders' = DOMAIN orders \cup DOMAIN page
  BY <1>1
<1>3. IsFiniteSet(DOMAIN orders')
  BY <1>1, <1>2, FS_Union DEF Table
<1>4. DOMAIN orders' \subseteq Ref
  BY <1>1, <1>2 DEF Table
<1>5. ASSUME NEW r \in DOMAIN orders'
      PROVE  orders'[r] \in OrderRow /\ ValidOrder(orders'[r])
  <2>1. CASE r \in DOMAIN page
    <3>1. orders'[r] = page[r]
      BY <1>1, <1>2, <2>1
    <3> QED BY <1>1, <2>1, <3>1 DEF ValidPage
  <2>2. CASE r \notin DOMAIN page
    <3>1. orders'[r] = orders[r] /\ r \in DOMAIN orders
      BY <1>1, <1>2, <2>2
    <3> QED BY <1>1, <3>1 DEF Table
  <2> QED BY <2>1, <2>2
<1>6. Table(orders')
  BY <1>3, <1>4, <1>5 DEF Table
<1> QED BY <1>1, <1>6 DEF IInv

LEMMA NoPrices == PriceTable(<<>>)
<1>1. <<>> \in Seq(Observation) /\ DOMAIN <<>> = {}
  OBVIOUS
<1> QED BY <1>1 DEF PriceTable

LEMMA BeginKeeps ==
    ASSUME IInv, NEW r \in Reader, Begin(r)
    PROVE  IInv'
<1>1. PICK op \in DOMAIN Plan :
         \E filter \in Filter :
         \E prices \in IF op \in {"reorder", "history"} THEN Prices ELSE {<<>>} :
             Become(r, [op |-> op, filter |-> filter, snapshot |-> orders,
                        got |-> NoRows, prices |-> prices])
  BY DEF Begin
<1>2. PICK filter \in Filter :
         \E prices \in IF op \in {"reorder", "history"} THEN Prices ELSE {<<>>} :
             Become(r, [op |-> op, filter |-> filter, snapshot |-> orders,
                        got |-> NoRows, prices |-> prices])
  BY <1>1
<1>3. PICK prices \in IF op \in {"reorder", "history"} THEN Prices ELSE {<<>>} :
             Become(r, [op |-> op, filter |-> filter, snapshot |-> orders,
                        got |-> NoRows, prices |-> prices])
  BY <1>2
<1> DEFINE l == [op |-> op, filter |-> filter, snapshot |-> orders,
                 got |-> NoRows, prices |-> prices]
<1>4. PriceTable(prices)
  BY <1>3, NoPrices, ReportsAssumption
<1>5. op \in Reports
  BY PlansAre
<1>6. l = [op |-> l.op, filter |-> l.filter, snapshot |-> l.snapshot, got |-> l.got,
           prices |-> l.prices]
      /\ l.op = op /\ l.filter = filter /\ l.snapshot = orders /\ l.got = NoRows
      /\ l.prices = prices
  OBVIOUS
<1> HIDE DEF l
<1>7. Fits(l)
  <2>1. 0 \in 0..Len(Plan[op]) /\ Names(op, 0) = {}
    BY <1>5, PlansAre DEF Names
  <2>2. Table(orders)
    BY DEF IInv
  <2> QED BY <1>4, <1>6, <2>1, <2>2, NoRowsAre DEF Fits, Answered
<1>8. Session(l)
  BY <1>5, <1>6, <1>7, ReportNames DEF Session, Fits
<1>9. Become(r, l) /\ UNCHANGED orders
  BY <1>3 DEF Begin, l
<1> QED BY <1>8, <1>9, BecomeKeeps

LEMMA ReadKeeps ==
    ASSUME IInv, NEW r \in Reader, Read(r)
    PROVE  IInv'
<1> DEFINE m == reader[r]
           op == m.op
           name == Plan[op][Cardinality(DOMAIN m.got) + 1]
           result == Query(name, m.snapshot, Selected(m.snapshot, m.filter), m.prices)
           got == [n \in DOMAIN m.got \cup {name} |-> IF n = name THEN result ELSE m.got[n]]
           l == [m EXCEPT !.got = [n \in DOMAIN @ \cup {name} |->
                                      IF n = name THEN result ELSE @[n]]]
<1>1. op \in Reports /\ ~Finished(r)
  BY PlansAre DEF Read
<1>2. Become(r, l) /\ UNCHANGED orders
  BY DEF Read, Visible
<1>3. Session(m) /\ Fits(m)
  BY <1>1 DEF IInv, Session
<1>4. m = [op |-> m.op, filter |-> m.filter, snapshot |-> m.snapshot, got |-> m.got,
           prices |-> m.prices]
  BY <1>3 DEF Session
<1>5. l = [m EXCEPT !.got = got]
  OBVIOUS
<1> HIDE DEF l, m
<1>6. l = [op |-> m.op, filter |-> m.filter, snapshot |-> m.snapshot, got |-> got,
           prices |-> m.prices]
  <2> HIDE DEF got
  <2> QED BY <1>4, <1>5
<1>7. PICK k \in 0..Len(Plan[op]) : DOMAIN m.got = Names(op, k)
  BY <1>3 DEF Fits
<1>8. /\ Cardinality(DOMAIN m.got) = k /\ Len(Plan[op]) \in Nat
  BY <1>1, <1>7, NamesAre, PlansAre
<1>9. k < Len(Plan[op])
  BY <1>1, <1>7, <1>8, PlansAre DEF Finished, m
<1>10. k + 1 \in 0..Len(Plan[op]) /\ Names(op, k + 1) = Names(op, k) \cup {name}
  BY <1>1, <1>8, <1>9, NamesAre
<1>11. DOMAIN got = Names(op, k + 1)
  <2>1. DOMAIN got = DOMAIN m.got \cup {name}
    OBVIOUS
  <2> QED BY <1>7, <1>10, <2>1
<1>12. \A n \in DOMAIN got :
          got[n] = Query(n, m.snapshot, Selected(m.snapshot, m.filter), m.prices)
  <2>1. ASSUME NEW n \in DOMAIN m.got \cup {name}
        PROVE  got[n] = Query(n, m.snapshot, Selected(m.snapshot, m.filter), m.prices)
    <3>1. got[n] = IF n = name THEN result ELSE m.got[n]
      OBVIOUS
    <3>2. CASE n = name
      BY <3>1, <3>2
    <3>3. CASE n # name
      <4>1. n \in DOMAIN m.got
        BY <3>3
      <4> QED BY <1>3, <3>1, <3>3, <4>1 DEF Fits, Answered
    <3> QED BY <3>2, <3>3
  <2>2. DOMAIN got = DOMAIN m.got \cup {name}
    OBVIOUS
  <2> HIDE DEF got
  <2> QED BY <2>1, <2>2
<1> HIDE DEF got
<1>13. /\ l.op = op /\ l.filter = m.filter /\ l.snapshot = m.snapshot /\ l.got = got
       /\ l.prices = m.prices
       /\ l = [op |-> l.op, filter |-> l.filter, snapshot |-> l.snapshot, got |-> l.got,
               prices |-> l.prices]
  BY <1>6
<1>14. Fits(l)
  BY <1>3, <1>10, <1>11, <1>12, <1>13 DEF Fits, Answered
<1>15. Session(l)
  BY <1>1, <1>13, <1>14, ReportNames DEF Session, Fits
<1> QED BY <1>2, <1>15, BecomeKeeps

LEMMA ListOrdersKeeps ==
    ASSUME IInv, NEW r \in Reader, ListOrders(r)
    PROVE  IInv'
<1>1. PICK filter \in Filter : \E listed \in SUBSET Selected(orders, filter) :
         Become(r, [op |-> "export", filter |-> filter, snapshot |-> NoRows, prices |-> <<>>,
                    got |-> [rows |-> [o \in listed |-> orders[o]], items |-> NoRows]])
  BY DEF ListOrders
<1>2. PICK listed \in SUBSET Selected(orders, filter) :
         Become(r, [op |-> "export", filter |-> filter, snapshot |-> NoRows, prices |-> <<>>,
                    got |-> [rows |-> [o \in listed |-> orders[o]], items |-> NoRows]])
  BY <1>1
<1> DEFINE rows == [o \in listed |-> orders[o]]
           got == [rows |-> rows, items |-> NoRows]
           l == [op |-> "export", filter |-> filter, snapshot |-> NoRows, prices |-> <<>>,
                 got |-> got]
<1>3. \A o \in listed : orders[o] \in OrderRow /\ ValidOrder(orders[o])
  BY DEF IInv, Table, Selected
<1>4. \A o \in DOMAIN rows : rows[o] \in OrderRow /\ ValidOrder(rows[o])
  BY <1>3
<1>5. Become(r, l) /\ UNCHANGED orders
  BY <1>2 DEF ListOrders
<1> HIDE DEF rows
<1>6. Lists(got)
  BY <1>4, NoRowsAre DEF Lists
<1> HIDE DEF got
<1>7. Session(l)
  BY <1>6, ReportNames, NoRowsAre DEF Session
<1> HIDE DEF l
<1> QED BY <1>5, <1>7, BecomeKeeps

LEMMA ListItemsKeeps ==
    ASSUME IInv, NEW r \in Reader, ListItems(r)
    PROVE  IInv'
<1> DEFINE m == reader[r]
           rows == m.got.rows
           old == m.got.items
<1>1. PICK o \in DOMAIN rows \ DOMAIN old :
         LET items == IF o \in DOMAIN orders THEN orders[o].items ELSE <<>>
         IN  Become(r, [m EXCEPT !.got.items =
                 [k \in DOMAIN @ \cup {o} |-> IF k = o THEN items ELSE @[k]]])
  BY DEF ListItems
<1> DEFINE items == IF o \in DOMAIN orders THEN orders[o].items ELSE <<>>
           new == [k \in DOMAIN old \cup {o} |-> IF k = o THEN items ELSE old[k]]
           got == [rows |-> rows, items |-> new]
           l == [op |-> m.op, filter |-> m.filter, snapshot |-> m.snapshot, got |-> got,
                 prices |-> m.prices]
<1>2. m.op = "export" /\ Session(m) /\ Lists(m.got) /\ UNCHANGED orders
  BY DEF ListItems, IInv, Session
<1>3. /\ m = [op |-> m.op, filter |-> m.filter, snapshot |-> m.snapshot, got |-> m.got,
              prices |-> m.prices]
      /\ m.got = [rows |-> rows, items |-> old]
  BY <1>2 DEF Session, Lists
<1>4. [m EXCEPT !.got.items = new] = l
  <2> HIDE DEF new
  <2>1. [m EXCEPT !.got.items = new] = [m EXCEPT !.got = [m.got EXCEPT !.items = new]]
    BY <1>3
  <2>2. [m.got EXCEPT !.items = new] = got
    BY <1>3
  <2> HIDE DEF got
  <2>3. [m EXCEPT !.got = got] = l
    <3> HIDE DEF m
    <3> QED BY <1>3
  <2> QED BY <2>1, <2>2, <2>3
<1>5. Become(r, [m EXCEPT !.got.items = new])
  BY <1>1
<1>6. Become(r, l)
  BY <1>4, <1>5
<1>7. \A i \in DOMAIN items : ValidItem(items[i])
  <2>1. CASE o \in DOMAIN orders
    BY <2>1 DEF IInv, Table, ValidOrder
  <2>2. CASE o \notin DOMAIN orders
    BY <2>2
  <2> QED BY <2>1, <2>2
<1> HIDE DEF items
<1>8. /\ DOMAIN new = DOMAIN old \cup {o}
      /\ \A k \in DOMAIN old \cup {o} : new[k] = IF k = o THEN items ELSE old[k]
  OBVIOUS
<1>9. DOMAIN new \subseteq DOMAIN rows
  BY <1>2, <1>8 DEF Lists
<1>10. \A k \in DOMAIN new : \A i \in DOMAIN new[k] : ValidItem(new[k][i])
  <2> HIDE DEF new
  <2>1. \A k \in DOMAIN old : \A i \in DOMAIN old[k] : ValidItem(old[k][i])
    BY <1>2 DEF Lists
  <2> HIDE DEF old
  <2> QED BY <1>7, <1>8, <2>1
<1>11. \A k \in DOMAIN rows : rows[k] \in OrderRow /\ ValidOrder(rows[k])
  BY <1>2 DEF Lists
<1> HIDE DEF new, rows, old
<1>12. Lists(got)
  BY <1>9, <1>10, <1>11 DEF Lists
<1> HIDE DEF got, m
<1>13. Session(l)
  BY <1>2, <1>12, ReportNames DEF Session
<1> HIDE DEF l
<1> QED BY <1>2, <1>6, <1>13, BecomeKeeps

\* A previewed page passed the contract of a document, which admits no order the
\* store would refuse.
LEMMA PreviewIsValid ==
    ASSUME NEW page, Paged(page), ValidDocument(page)
    PROVE  ValidPage(TableOf(page))
<1> SUFFICES ASSUME NEW r \in DOMAIN TableOf(page)
             PROVE  ValidOrder(TableOf(page)[r])
  BY DEF ValidPage
<1>1. PICK i \in DOMAIN page.orders :
         TableOf(page)[r] = page.orders[i] /\ page.orders[i] \in OrderRow
  BY TableIs
<1>2. ValidOrder(page.orders[i])
  BY <1>1, AdmittedOrderIsValid
<1> QED BY <1>1, <1>2

LEMMA PreviewKeeps ==
    ASSUME IInv, NEW r \in Reader, Preview(r)
    PROVE  IInv'
<1>1. PICK doc \in Source : \E page \in PreviewedPage(doc) :
         Become(r, [Idle EXCEPT !.op = "preview", !.got = TableOf(page)])
  BY DEF Preview
<1>2. PICK page \in PreviewedPage(doc) :
         Become(r, [Idle EXCEPT !.op = "preview", !.got = TableOf(page)])
  BY <1>1
<1>3. doc \in Document
  BY ReportsAssumption
<1>4. ValidPage(TableOf(page))
  BY <1>3, PagesAre, PreviewIsValid
<1> DEFINE t == TableOf(page)
           l == [Idle EXCEPT !.op = "preview", !.got = t]
<1> HIDE DEF t
<1>5. l = [op |-> "preview", filter |-> Idle.filter, snapshot |-> Idle.snapshot, got |-> t,
           prices |-> Idle.prices]
  <2>1. Idle = [op |-> Idle.op, filter |-> Idle.filter, snapshot |-> Idle.snapshot,
                got |-> Idle.got, prices |-> Idle.prices]
    BY IdleIs DEF Session
  <2> DEFINE j == [Idle EXCEPT !.op = "preview"]
  <2>2. j = [op |-> "preview", filter |-> Idle.filter, snapshot |-> Idle.snapshot,
             got |-> Idle.got, prices |-> Idle.prices]
    BY <2>1
  <2>3. l = [j EXCEPT !.got = t]
    OBVIOUS
  <2> HIDE DEF j, l
  <2> QED BY <2>2, <2>3
<1> HIDE DEF l
<1>6. /\ l.op = "preview" /\ l.got = t
      /\ l = [op |-> l.op, filter |-> l.filter, snapshot |-> l.snapshot, got |-> l.got,
              prices |-> l.prices]
  BY <1>5
<1>7. Become(r, l) /\ UNCHANGED orders
  BY <1>2 DEF Preview, l, t
<1>8. ValidPage(t)
  BY <1>4 DEF t
<1>9. Session(l)
  <2>1. l.filter = Idle.filter /\ l.snapshot = NoRows
    BY <1>5 DEF Idle
  <2> QED BY <1>6, <1>8, <2>1, ReportNames, NoRowsAre DEF Session
<1> QED BY <1>7, <1>9, BecomeKeeps

LEMMA StepIInv == IInv /\ [Next]_vars => IInv'
<1> SUFFICES ASSUME IInv, [Next]_vars PROVE IInv'
  OBVIOUS
<1>1. CASE Sync
  <2>1. PICK doc \in Source : \E page \in SourcePages(doc) : Upsert(TableOf(page))
    BY <1>1 DEF Sync
  <2>2. PICK page \in SourcePages(doc) : Upsert(TableOf(page))
    BY <2>1
  <2>3. doc \in Document
    BY ReportsAssumption
  <2>4. Paged(page)
    BY <2>3, PagesAre
  <2>5. /\ IsFiniteSet(DOMAIN TableOf(page)) /\ DOMAIN TableOf(page) \subseteq Ref
        /\ \A r \in DOMAIN TableOf(page) : TableOf(page)[r] \in OrderRow
    BY <2>4, TableIs
  <2> QED BY <2>2, <2>5, UpsertKeeps
<1>2. CASE Import
  <2>1. PICK page \in Page : Upsert(page)
    BY <1>2 DEF Import
  <2> QED BY <2>1, UpsertKeeps, ReportsAssumption
<1>3. CASE Purge
  <2>1. orders' = NoRows /\ UNCHANGED reader
    BY <1>3 DEF Purge
  <2> QED BY <2>1, NoRowsAre DEF IInv
<1>4. ASSUME NEW r \in Reader, End(r) PROVE IInv'
  BY <1>4, IdleIs, BecomeKeeps DEF End
<1>5. CASE UNCHANGED vars
  BY <1>5 DEF vars, IInv
<1> QED BY <1>1, <1>2, <1>3, <1>4, <1>5, BeginKeeps, ReadKeeps, ListOrdersKeeps, ListItemsKeeps,
           PreviewKeeps DEF Next

LEMMA Invariance == Spec => []IInv
<1> QED BY InitIInv, StepIInv, PTL DEF Spec

(* The type invariant: sessions are of an operation of the store, have a filter of the *)
(* request, rows of known orders, and answers to the queries of their operation alone. *)
THEOREM TypeCorrect == Spec => []TypeOK
<1>1. IInv => TypeOK
  <2> SUFFICES ASSUME IInv PROVE TypeOK
    OBVIOUS
  <2>1. DOMAIN orders \subseteq Ref /\ \A r \in DOMAIN orders : ValidOrder(orders[r])
    BY DEF IInv, Table
  <2>2. ASSUME NEW r \in Reader
        PROVE  /\ reader[r].op \in DOMAIN Plan \cup {"none", "export", "preview"}
               /\ reader[r].filter \in Filter \cup {[from |-> 0, to |-> 0]}
               /\ DOMAIN reader[r].snapshot \subseteq Ref
               /\ reader[r].op \in DOMAIN Plan =>
                     DOMAIN reader[r].got \subseteq {Plan[reader[r].op][i] :
                                                        i \in DOMAIN Plan[reader[r].op]}
    <3> DEFINE l == reader[r]
    <3>1. Session(l)
      BY DEF IInv
    <3> HIDE DEF l
    <3>2. Idle.filter = [from |-> 0, to |-> 0]
      BY DEF Idle
    <3>3. /\ l.op \in DOMAIN Plan \cup {"none", "export", "preview"}
          /\ l.filter \in Filter \cup {[from |-> 0, to |-> 0]}
          /\ DOMAIN l.snapshot \subseteq Ref
      BY <3>1, <3>2, PlansAre DEF Session, Table
    <3>4. ASSUME l.op \in DOMAIN Plan
          PROVE  DOMAIN l.got \subseteq {Plan[l.op][i] : i \in DOMAIN Plan[l.op]}
      <4>1. l.op \in Reports
        BY <3>4, PlansAre
      <4>2. PICK k \in 0..Len(Plan[l.op]) : DOMAIN l.got = Names(l.op, k)
        BY <3>1, <4>1 DEF Session, Fits
      <4>3. 1..k \subseteq DOMAIN Plan[l.op]
        BY <4>1, <4>2, PlansAre
      <4> QED BY <4>2, <4>3 DEF Names
    <3> QED BY <3>3, <3>4 DEF l
  <2> QED BY <2>1, <2>2 DEF TypeOK
<1> QED BY <1>1, Invariance, PTL

-----------------------------------------------------------------------------
(* Rates.                                                                  *)

LEMMA AnswersAre ==
    ASSUME NEW l, l.op \in Reports, Fits(l)
    PROVE  LET t == l.snapshot
               S == Selected(l.snapshot, l.filter)
               N == DOMAIN l.got
           IN  /\ Table(t) /\ S \in SUBSET DOMAIN t
               /\ l.filter \in Filter /\ PriceTable(l.prices)
               /\ Answered(l.got, t, S, l.prices)
               /\ "item_totals" \in N => "order_states" \in N
               /\ "returns" \in N => {"timed", "order_states", "item_totals"} \subseteq N
               /\ "categories" \in N =>
                     {"brands", "dates", "day_series", "branded", "timed", "speed",
                      "repeat", "baskets", "compositions"} \subseteq N
<1>1. Selected(l.snapshot, l.filter) \in SUBSET DOMAIN l.snapshot
  BY DEF Selected
<1>2. PICK k \in 0..Len(Plan[l.op]) : DOMAIN l.got = Names(l.op, k)
  BY DEF Fits
<1> QED BY <1>1, <1>2, PlacesOf DEF Fits

\* An axis that is ready has samples, and its part is within them; a delivery badge
\* has a fast delivery.
LEMMA ProfileWithin ==
    ASSUME NEW t, Table(t), NEW S \in SUBSET DOMAIN t, NEW g, NEW filter \in Filter,
           g.timed = TimedOrders(t, S), g.repeat = RepeatPurchases(t, S),
           g.compositions = Compositions(t, S), g.speed = DeliverySpeed(t, S)
    PROVE  /\ \A axis \in {"clock", "choice", "basket"} :
                 LET a == Profile(g, filter)[axis]
                 IN  a.part \in 0..a.whole /\ (a.ready => a.whole > 0)
           /\ "delivery_speedrun" \in Badges(g) => g.speed.day > 0
<1>1. /\ Least.sample \in Nat \ {0} /\ Least.baskets \in Nat \ {0}
      /\ Least.deliveries \in Nat \ {0}
  BY InsightsAssumption
<1>2. /\ g.timed.timed \in Nat /\ g.timed.night + g.timed.late \in 0..g.timed.timed
      /\ g.repeat.choices \in 0..g.repeat.occasions /\ g.repeat.occasions \in Nat
      /\ g.compositions.single \in 0..g.compositions.orders /\ g.compositions.orders \in Nat
      /\ g.speed.day \in Nat /\ g.speed.shipments \in Nat
  <2>1. g.timed.timed \in Nat /\ g.timed.night + g.timed.late \in 0..g.timed.timed
    BY TimedWithin
  <2>2. g.repeat.choices \in 0..g.repeat.occasions /\ g.repeat.occasions \in Nat
    BY RepeatWithin
  <2>3. g.compositions.single \in 0..g.compositions.orders /\ g.compositions.orders \in Nat
    BY CompositionsWithin
  <2>4. g.speed.day \in Nat /\ g.speed.shipments \in Nat
    BY SpeedWithin
  <2> QED BY <2>1, <2>2, <2>3, <2>4
<1>3. /\ Profile(g, filter).clock.part = g.timed.night + g.timed.late
      /\ Profile(g, filter).clock.whole = g.timed.timed
      /\ Profile(g, filter).clock.ready => g.timed.timed >= Least.sample
  BY DEF Profile, Axis
<1>4. /\ Profile(g, filter).choice.part = g.repeat.choices
      /\ Profile(g, filter).choice.whole = g.repeat.occasions
      /\ Profile(g, filter).choice.ready => g.repeat.occasions >= Least.sample
  BY DEF Profile, Axis
<1>5. /\ Profile(g, filter).basket.part = g.compositions.single
      /\ Profile(g, filter).basket.whole = g.compositions.orders
      /\ Profile(g, filter).basket.ready => g.compositions.orders >= Least.baskets
  BY DEF Profile, Axis
<1>6. "delivery_speedrun" \in Badges(g) =>
         g.speed.shipments >= Least.deliveries /\ 2 * g.speed.day >= g.speed.shipments
  BY DEF Badges
<1>7. "delivery_speedrun" \in Badges(g) => g.speed.day > 0
  BY <1>1, <1>2, <1>6
<1>8. ASSUME NEW axis \in {"clock", "choice", "basket"}
      PROVE  LET a == Profile(g, filter)[axis]
             IN  a.part \in 0..a.whole /\ (a.ready => a.whole > 0)
  <2>1. CASE axis = "clock"
    BY <1>1, <1>2, <1>3, <2>1
  <2>2. CASE axis = "choice"
    BY <1>1, <1>2, <1>4, <2>2
  <2>3. CASE axis = "basket"
    BY <1>1, <1>2, <1>5, <2>3
  <2> QED BY <2>1, <2>2, <2>3
<1> QED BY <1>7, <1>8

LEMMA RatesOf ==
    ASSUME IInv, NEW r \in Reader, reader[r].op \in DOMAIN Plan
    PROVE  LET g == reader[r].got
               share(part, whole) == part \in 0..whole
           IN  /\ "item_totals" \in DOMAIN g =>
                     /\ share(g.order_states.canceled, g.order_states.orders)
                     /\ share(g.item_totals.canceledUnits, g.item_totals.units)
                     /\ share(g.item_totals.returnedUnits, g.item_totals.units)
                     /\ share(g.item_totals.returnedLines, g.item_totals.lines)
               /\ "returns" \in DOMAIN g =>
                     /\ share(g.returns.nightReturned, g.returns.nightUnits)
                     /\ share(g.returns.otherReturned, g.returns.otherUnits)
                     /\ share(g.timed.nightCanceled, g.timed.nightAll)
                     /\ share(g.timed.otherCanceled, g.timed.otherAll)
               /\ "categories" \in DOMAIN g =>
                     /\ share(g.repeat.repeated, g.repeat.products)
                     /\ share(g.repeat.choices, g.repeat.occasions)
                     /\ share(g.repeat.repeatOccasions, g.repeat.occasions)
                     /\ share(g.baskets.singleValue, g.baskets.value)
                     /\ share(g.compositions.single, g.compositions.orders)
                     /\ share(g.timed.weekend, g.timed.timed)
                     /\ share(g.speed.day, g.speed.twoDays)
                     /\ share(g.speed.twoDays, g.speed.shipments)
                     /\ share(Peak(g.brands), g.branded)
                     /\ LET profile == Profile(g, reader[r].filter)
                        IN  /\ \A axis \in {"clock", "choice", "basket"} :
                                  /\ share(profile[axis].part, profile[axis].whole)
                                  /\ profile[axis].ready => profile[axis].whole > 0
                            /\ "delivery_speedrun" \in Badges(g) => g.speed.day > 0
                            /\ LET timing == PurchaseTiming(g, reader[r].filter)
                               IN  share(timing.purchases, timing.observed)
               /\ "coverage" \in DOMAIN g =>
                     /\ share(g.coverage.identified, g.coverage.lines)
                     /\ share(g.coverage.spendable, g.coverage.lines)
<1> DEFINE l == reader[r]
           g == l.got
           t == l.snapshot
           S == Selected(t, l.filter)
           N == DOMAIN g
<1>1. l.op \in Reports /\ Fits(l)
  BY PlansAre DEF IInv, Session
<1>2. /\ Table(t) /\ S \in SUBSET DOMAIN t /\ l.filter \in Filter
      /\ Answered(g, t, S, l.prices)
      /\ "item_totals" \in N => "order_states" \in N
      /\ "returns" \in N => {"timed", "order_states", "item_totals"} \subseteq N
      /\ "categories" \in N =>
            {"brands", "dates", "day_series", "branded", "timed", "speed",
             "repeat", "baskets", "compositions"} \subseteq N
  <2> HIDE DEF l
  <2> QED BY <1>1, AnswersAre
<1>3. \A n \in N : g[n] = Query(n, t, S, l.prices)
  BY <1>2 DEF Answered
<1> DEFINE filter == l.filter
<1> HIDE DEF l, g, t, S, filter
<1>4. "item_totals" \in N =>
         /\ g.order_states.canceled \in 0..g.order_states.orders
         /\ g.item_totals.canceledUnits \in 0..g.item_totals.units
         /\ g.item_totals.returnedUnits \in 0..g.item_totals.units
         /\ g.item_totals.returnedLines \in 0..g.item_totals.lines
  <2> SUFFICES ASSUME "item_totals" \in N
               PROVE  /\ g.order_states.canceled \in 0..g.order_states.orders
                      /\ g.item_totals.canceledUnits \in 0..g.item_totals.units
                      /\ g.item_totals.returnedUnits \in 0..g.item_totals.units
                      /\ g.item_totals.returnedLines \in 0..g.item_totals.lines
    OBVIOUS
  <2>1. g.order_states = OrderStates(t, S) /\ g.item_totals = ItemTotals(t, S)
    <3>1. g["order_states"] = Query("order_states", t, S, l.prices)
      BY <1>2, <1>3
    <3>2. g.order_states = OrderStates(t, S)
      BY <3>1, QueryIs
    <3>3. g["item_totals"] = Query("item_totals", t, S, l.prices)
      BY <1>2, <1>3
    <3>4. g.item_totals = ItemTotals(t, S)
      BY <3>3, QueryIs
    <3> QED BY <3>2, <3>4
  <2> QED BY <1>2, <2>1, StatesWithin, ItemTotalsWithin
<1>5. "returns" \in N =>
         /\ g.returns.nightReturned \in 0..g.returns.nightUnits
         /\ g.returns.otherReturned \in 0..g.returns.otherUnits
         /\ g.timed.nightCanceled \in 0..g.timed.nightAll
         /\ g.timed.otherCanceled \in 0..g.timed.otherAll
  <2> SUFFICES ASSUME "returns" \in N
               PROVE  /\ g.returns.nightReturned \in 0..g.returns.nightUnits
                      /\ g.returns.otherReturned \in 0..g.returns.otherUnits
                      /\ g.timed.nightCanceled \in 0..g.timed.nightAll
                      /\ g.timed.otherCanceled \in 0..g.timed.otherAll
    OBVIOUS
  <2>1. "timed" \in N
    BY <1>2
  <2>2. g.returns = TimedReturns(t, S) /\ g.timed = TimedOrders(t, S)
    <3>1. g["returns"] = Query("returns", t, S, l.prices)
      BY <1>3, <2>1
    <3>2. g.returns = TimedReturns(t, S)
      BY <3>1, QueryIs
    <3>3. g["timed"] = Query("timed", t, S, l.prices)
      BY <1>3, <2>1
    <3>4. g.timed = TimedOrders(t, S)
      BY <3>3, QueryIs
    <3> QED BY <3>2, <3>4
  <2> QED BY <1>2, <2>2, ReturnsWithin, TimedWithin
<1>6. "coverage" \in N =>
         /\ g.coverage.identified \in 0..g.coverage.lines
         /\ g.coverage.spendable \in 0..g.coverage.lines
  <2> SUFFICES ASSUME "coverage" \in N
               PROVE  /\ g.coverage.identified \in 0..g.coverage.lines
                      /\ g.coverage.spendable \in 0..g.coverage.lines
    OBVIOUS
  <2>1. g.coverage = ProductCoverage(t, S)
    <3>1. g["coverage"] = Query("coverage", t, S, l.prices)
      BY <1>3
    <3>2. g.coverage = ProductCoverage(t, S)
      BY <3>1, QueryIs
    <3> QED BY <3>2
  <2> QED BY <1>2, <2>1, CoverageWithin
<1> DEFINE Insights ==
             /\ g.repeat.repeated \in 0..g.repeat.products
             /\ g.repeat.choices \in 0..g.repeat.occasions
             /\ g.repeat.repeatOccasions \in 0..g.repeat.occasions
             /\ g.baskets.singleValue \in 0..g.baskets.value
             /\ g.compositions.single \in 0..g.compositions.orders
             /\ g.timed.weekend \in 0..g.timed.timed
             /\ g.speed.day \in 0..g.speed.twoDays
             /\ g.speed.twoDays \in 0..g.speed.shipments
             /\ Peak(g.brands) \in 0..g.branded
           Profiled ==
             /\ \A axis \in {"clock", "choice", "basket"} :
                   /\ Profile(g, filter)[axis].part \in 0..Profile(g, filter)[axis].whole
                   /\ Profile(g, filter)[axis].ready => Profile(g, filter)[axis].whole > 0
             /\ "delivery_speedrun" \in Badges(g) => g.speed.day > 0
             /\ PurchaseTiming(g, filter).purchases \in 0..PurchaseTiming(g, filter).observed
<1>7. "categories" \in N => Insights /\ Profiled
  <2> SUFFICES ASSUME "categories" \in N PROVE Insights /\ Profiled
    OBVIOUS
  <2>1. {"brands", "dates", "day_series", "branded", "timed", "speed", "repeat", "baskets",
         "compositions"} \subseteq N
    BY <1>2
  <2>2. /\ g.repeat = RepeatPurchases(t, S) /\ g.baskets = Baskets(t, S)
        /\ g.compositions = Compositions(t, S)
    <3>1. g["repeat"] = Query("repeat", t, S, l.prices)
      BY <1>3, <2>1
    <3>2. g.repeat = RepeatPurchases(t, S)
      BY <3>1, QueryIs
    <3>3. g["baskets"] = Query("baskets", t, S, l.prices)
      BY <1>3, <2>1
    <3>4. g.baskets = Baskets(t, S)
      BY <3>3, QueryIs
    <3>5. g["compositions"] = Query("compositions", t, S, l.prices)
      BY <1>3, <2>1
    <3>6. g.compositions = Compositions(t, S)
      BY <3>5, QueryIs
    <3> QED BY <3>2, <3>4, <3>6
  <2>3. g.timed = TimedOrders(t, S) /\ g.speed = DeliverySpeed(t, S)
    <3>1. g["timed"] = Query("timed", t, S, l.prices)
      BY <1>3, <2>1
    <3>2. g.timed = TimedOrders(t, S)
      BY <3>1, QueryIs
    <3>3. g["speed"] = Query("speed", t, S, l.prices)
      BY <1>3, <2>1
    <3>4. g.speed = DeliverySpeed(t, S)
      BY <3>3, QueryIs
    <3> QED BY <3>2, <3>4
  <2>4. g.brands = TopBrands(t, S) /\ g.branded = Cardinality(Branded(t, S))
    <3>1. g["brands"] = Query("brands", t, S, l.prices)
      BY <1>3, <2>1
    <3>2. g.brands = TopBrands(t, S)
      BY <3>1, QueryIs
    <3>3. g["branded"] = Query("branded", t, S, l.prices)
      BY <1>3, <2>1
    <3>4. g.branded = Cardinality(Branded(t, S))
      BY <3>3, QueryIs
    <3> QED BY <3>2, <3>4
  <2>5. g.dates = InsightDates(t, S) /\ g.day_series = OrderDaySeries(t, S)
    <3>1. g["dates"] = Query("dates", t, S, l.prices)
      BY <1>3, <2>1
    <3>2. g.dates = InsightDates(t, S)
      BY <3>1, QueryIs
    <3>3. g["day_series"] = Query("day_series", t, S, l.prices)
      BY <1>3, <2>1
    <3>4. g.day_series = OrderDaySeries(t, S)
      BY <3>3, QueryIs
    <3> QED BY <3>2, <3>4
  <2>6. /\ g.repeat.repeated \in 0..g.repeat.products
        /\ g.repeat.choices \in 0..g.repeat.occasions
        /\ g.repeat.repeatOccasions \in 0..g.repeat.occasions
    BY <1>2, <2>2, RepeatWithin
  <2>7. /\ g.baskets.singleValue \in 0..g.baskets.value
        /\ g.compositions.single \in 0..g.compositions.orders
    BY <1>2, <2>2, BasketsWithin, CompositionsWithin
  <2>8. g.timed.weekend \in 0..g.timed.timed
    BY <1>2, <2>3, TimedWithin
  <2>9. g.speed.day \in 0..g.speed.twoDays /\ g.speed.twoDays \in 0..g.speed.shipments
    BY <1>2, <2>3, SpeedWithin
  <2>10. Peak(g.brands) \in 0..g.branded
    BY <1>2, <2>4, BrandsAre
  <2>11. Insights
    BY <2>6, <2>7, <2>8, <2>9, <2>10
  <2>12. filter \in Filter
    BY <1>2 DEF filter
  <2>13. PurchaseTiming(g, filter).purchases \in 0..PurchaseTiming(g, filter).observed
    BY <1>2, <2>5, <2>12, TimingWithin
  <2>14. Profiled
    BY <1>2, <2>2, <2>3, <2>12, <2>13, ProfileWithin
  <2> QED BY <2>11, <2>14
<1> QED BY <1>4, <1>5, <1>6, <1>7 DEF l, g, filter

(* No rate of a report exceeds 1, whatever was committed between its queries, and      *)
(* none is negative; an axis of the profile that is ready has samples.                 *)
THEOREM RatesStayWithinScale == Spec => []RatesWithinScale
<1>1. IInv => RatesWithinScale
  BY RatesOf DEF RatesWithinScale
<1> QED BY <1>1, Invariance, PTL

-----------------------------------------------------------------------------
(* Totals of parts.                                                        *)

Amounts(t) == [r \in DOMAIN t |-> t[r].amount]

LEMMA AmountIs ==
    ASSUME NEW t, Table(t), NEW R \in SUBSET DOMAIN t
    PROVE  /\ Amount(t, R) = SumFunctionOnSet(Amounts(t), R)
           /\ Amount(t, R) \in Nat /\ IsFiniteSet(R)
           /\ Summable(Amounts(t), R)
           /\ \A r \in DOMAIN t : Amounts(t)[r] \in Nat /\ Amounts(t)[r] = t[r].amount
<1> DEFINE f == [r \in R |-> t[r].amount]
<1>1. \A r \in DOMAIN t : t[r].amount \in Nat
  <2> SUFFICES ASSUME NEW r \in DOMAIN t PROVE t[r].amount \in Nat
    OBVIOUS
  <2>1. t[r] \in OrderRow /\ t[r].amount >= 0
    BY DEF Table, ValidOrder
  <2>2. t[r].amount \in Int
    BY <2>1 DEF OrderRow
  <2> QED BY <2>1, <2>2
<1>2. IsFiniteSet(R)
  BY FS_Subset DEF Table
<1>3. \A r \in DOMAIN t : Amounts(t)[r] \in Nat /\ Amounts(t)[r] = t[r].amount
  BY <1>1 DEF Amounts
<1>4. Amount(t, R) = SumFunctionOnSet(f, R)
  <2>1. DOMAIN f = R
    OBVIOUS
  <2>2. Amount(t, R) = SumFunction(f)
    BY DEF Amount
  <2> HIDE DEF f
  <2> QED BY <2>1, <2>2 DEF SumFunction
<1>5. Summable(f, R) /\ Summable(Amounts(t), R)
  BY <1>1, <1>2, <1>3 DEF Summable
<1>6. \A r \in R : f[r] = Amounts(t)[r]
  BY <1>3
<1> HIDE DEF f
<1>7. SumFunctionOnSet(f, R) = SumFunctionOnSet(Amounts(t), R)
  BY <1>5, <1>6, SumOfEquals
<1>8. SumFunctionOnSet(Amounts(t), R) \in Nat
  BY <1>2, <1>3, SumIsNat
<1> QED BY <1>2, <1>3, <1>4, <1>5, <1>7, <1>8

\* The days of a set of orders.
DaysOf(t, R) == {t[r].day : r \in R}

LEMMA DaysAre ==
    ASSUME NEW t, Table(t), NEW R \in SUBSET DOMAIN t, NEW D, D = DaysOf(t, R)
    PROVE  /\ IsFiniteSet(D) /\ D \subseteq Day /\ D \in SUBSET Nat
           /\ D = {} <=> R = {}
           /\ D # {} => /\ Min(D) \in D /\ Max(D) \in D
                        /\ \A d \in D : Min(D) <= d /\ d <= Max(D)
<1> DEFINE f == [r \in R |-> t[r].day]
<1>0. IsFiniteSet(R) /\ IsFiniteSet({f[r] : r \in R})
  <2>1. IsFiniteSet(R)
    BY FS_Subset DEF Table
  <2> HIDE DEF f
  <2> QED BY <2>1, ImageIs
<1>1. D = {f[r] : r \in R}
  BY DEF DaysOf
<1>2. \A r \in DOMAIN t : t[r].day \in Day
  BY DEF Table, OrderRow
<1>3. D \subseteq Day /\ Day \subseteq Nat
  <2>1. D \subseteq Day
    BY <1>2 DEF DaysOf
  <2>2. Day \subseteq Nat
    BY DEF Day
  <2> QED BY <2>1, <2>2
<1> HIDE DEF f
<1>4. IsFiniteSet(D)
  BY <1>0, <1>1
<1>5. D = {} <=> R = {}
  BY <1>1
<1> QED BY <1>3, <1>4, <1>5, ExtremeDays

\* The totals of the parts of a set of orders add up to those of the set.
LEMMA TotalsAddUp ==
    ASSUME NEW t, Table(t), NEW S \in SUBSET DOMAIN t, NEW K, IsFiniteSet(K), NEW A,
           Disjoint(A, K), \A k \in K : A[k] \in SUBSET S, Together(A, K) = S,
           NEW c, DOMAIN c = K, \A k \in K : c[k] = Totals(t, A[k])
    PROVE  \A field \in DOMAIN Totals(t, S) :
              SumFunction([k \in K |-> c[k][field]]) = Totals(t, S)[field]
<1> DEFINE off(R) == R \ Standing(t, R)
           on(R) == Standing(t, R)
           Off == [k \in K |-> off(A[k])]
           On == [k \in K |-> on(A[k])]
           g == Totals(t, S)
           sum(field) == SumFunction([k \in K |-> c[k][field]])
<1>1. IsFiniteSet(S) /\ \A k \in K : IsFiniteSet(A[k])
  BY FS_Subset DEF Table
<1>2. /\ Disjoint(Off, K) /\ Together(Off, K) = off(S)
      /\ \A k \in K : Off[k] = off(A[k]) /\ off(A[k]) \in SUBSET S /\ off(S) \in SUBSET S
  <2>1. Disjoint(Off, K)
    BY DEF Disjoint
  <2>2. Together(Off, K) = off(S)
    BY DEF Together, Standing
  <2> QED BY <2>1, <2>2
<1>3. /\ Disjoint(On, K) /\ Together(On, K) = on(S)
      /\ \A k \in K : On[k] = on(A[k]) /\ on(A[k]) \in SUBSET S /\ on(S) \in SUBSET S
  <2>1. Disjoint(On, K)
    BY DEF Disjoint, Standing
  <2>2. Together(On, K) = on(S)
    BY DEF Together, Standing
  <2>3. \A R : on(R) \subseteq R
    BY DEF Standing
  <2> QED BY <2>1, <2>2, <2>3
<1>4. \A R : /\ Totals(t, R).orders = Cardinality(R)
             /\ Totals(t, R).amount = Amount(t, R)
             /\ Totals(t, R).canceled = Cardinality(off(R))
             /\ Totals(t, R).canceledAmount = Amount(t, off(R))
             /\ Totals(t, R).standingAmount = Amount(t, on(R))
             /\ DOMAIN Totals(t, R) = {"orders", "amount", "canceled", "canceledAmount",
                                       "standingAmount"}
  BY DEF Totals
<1> HIDE DEF off, on, Off, On
\* The sizes of parts.
<1>5. ASSUME NEW B, NEW P, NEW f, Disjoint(B, K), Together(B, K) = P, DOMAIN f = K,
             \A k \in K : B[k] \in SUBSET S /\ f[k] = Cardinality(B[k])
      PROVE  SumFunction(f) = Cardinality(P)
  <2>1. \A k \in K : IsFiniteSet(B[k])
    BY <1>1, <1>5, FS_Subset
  <2>2. SumFunctionOnSet(f, K) = Cardinality(Together(B, K))
    BY <1>5, <2>1, SizesAddUp
  <2> QED BY <1>5, <2>2 DEF SumFunction
\* The amounts of parts.
<1>6. ASSUME NEW B, NEW P, NEW f, Disjoint(B, K), Together(B, K) = P, DOMAIN f = K,
             \A k \in K : B[k] \in SUBSET S /\ f[k] = Amount(t, B[k]),
             P \in SUBSET S
      PROVE  SumFunction(f) = Amount(t, P)
  <2>1. \A k \in K : /\ Summable(Amounts(t), B[k])
                     /\ f[k] = SumFunctionOnSet(Amounts(t), B[k])
    BY <1>6, AmountIs
  <2>2. SumFunctionOnSet(f, K) = SumFunctionOnSet(Amounts(t), Together(B, K))
    BY <1>6, <2>1, SumOfParts
  <2>3. Amount(t, P) = SumFunctionOnSet(Amounts(t), P)
    BY <1>6, AmountIs
  <2> QED BY <1>6, <2>2, <2>3 DEF SumFunction
<1>7. sum("orders") = g.orders
  <2> DEFINE f == [k \in K |-> c[k]["orders"]]
  <2>1. DOMAIN f = K /\ \A k \in K : A[k] \in SUBSET S /\ f[k] = Cardinality(A[k])
    BY <1>4
  <2> HIDE DEF f
  <2>2. SumFunction(f) = Cardinality(S)
    BY <1>5, <2>1
  <2> QED BY <1>4, <2>2 DEF f
<1>8. sum("amount") = g.amount
  <2> DEFINE f == [k \in K |-> c[k]["amount"]]
  <2>1. DOMAIN f = K /\ \A k \in K : A[k] \in SUBSET S /\ f[k] = Amount(t, A[k])
    BY <1>4
  <2> HIDE DEF f
  <2>2. SumFunction(f) = Amount(t, S)
    BY <1>6, <2>1
  <2> QED BY <1>4, <2>2 DEF f
<1>9. sum("canceled") = g.canceled
  <2> DEFINE f == [k \in K |-> c[k]["canceled"]]
  <2>1. DOMAIN f = K /\ \A k \in K : Off[k] \in SUBSET S /\ f[k] = Cardinality(Off[k])
    BY <1>2, <1>4
  <2> HIDE DEF f
  <2>2. SumFunction(f) = Cardinality(off(S))
    BY <1>2, <1>5, <2>1
  <2> QED BY <1>4, <2>2 DEF f
<1>10. sum("canceledAmount") = g.canceledAmount
  <2> DEFINE f == [k \in K |-> c[k]["canceledAmount"]]
  <2>1. DOMAIN f = K /\ \A k \in K : Off[k] \in SUBSET S /\ f[k] = Amount(t, Off[k])
    BY <1>2, <1>4
  <2>2. off(S) \in SUBSET S
    BY DEF off
  <2> HIDE DEF f
  <2>3. SumFunction(f) = Amount(t, off(S))
    BY <1>2, <1>6, <2>1, <2>2
  <2> QED BY <1>4, <2>3 DEF f
<1>11. sum("standingAmount") = g.standingAmount
  <2> DEFINE f == [k \in K |-> c[k]["standingAmount"]]
  <2>1. DOMAIN f = K /\ \A k \in K : On[k] \in SUBSET S /\ f[k] = Amount(t, On[k])
    BY <1>3, <1>4
  <2>2. on(S) \in SUBSET S
    BY DEF on, Standing
  <2> HIDE DEF f
  <2>3. SumFunction(f) = Amount(t, on(S))
    BY <1>3, <1>6, <2>1, <2>2
  <2> QED BY <1>4, <2>3 DEF f
<1> HIDE DEF g
<1>12. ASSUME NEW field \in {"orders", "amount", "canceled", "canceledAmount", "standingAmount"}
       PROVE  sum(field) = g[field]
  <2> HIDE DEF sum
  <2> QED BY <1>7, <1>8, <1>9, <1>10, <1>11
<1>13. DOMAIN g = {"orders", "amount", "canceled", "canceledAmount", "standingAmount"}
  BY <1>4 DEF g
<1>14. \A field \in DOMAIN g : sum(field) = g[field]
  <2> HIDE DEF sum
  <2> QED BY <1>12, <1>13
<1> QED BY <1>14 DEF g

\* Of every order of S exactly one part of Commerce.
LEMMA SpendFits ==
    ASSUME NEW t, Table(t), NEW S \in SUBSET DOMAIN t, NEW g,
           g.totals = Totals(t, S), g.commerce = Commerce(t, S)
    PROVE  SpendAddsUp(g)
<1> DEFINE K == {"product_purchase", "membership_fee", "unclassified"}
           A == [k \in K |-> OfKind(t, S, k)]
           bought == OrdersOf(Purchases(t, S))
           paying == OrdersOf(Lines(t, S)) \ bought
           c == g.commerce
<1>1. IsFiniteSet(K)
  <2> DEFINE one == {"product_purchase"}
             two == one \cup {"membership_fee"}
  <2>1. IsFiniteSet(one)
    BY FS_Singleton
  <2>2. IsFiniteSet(two)
    <3> HIDE DEF one
    <3> QED BY <2>1, FS_AddElement
  <2>3. IsFiniteSet(two \cup {"unclassified"})
    <3> HIDE DEF two
    <3> QED BY <2>2, FS_AddElement
  <2>4. K = two \cup {"unclassified"}
    OBVIOUS
  <2> QED BY <2>3, <2>4
<1>2. /\ OfKind(t, S, "product_purchase") = bought
      /\ OfKind(t, S, "membership_fee") = paying
      /\ OfKind(t, S, "unclassified") = S \ (bought \cup paying)
  BY DEF OfKind
<1>3. bought \subseteq S /\ paying \subseteq S
  <2>1. \A l \in Lines(t, S) : l[1] \in S
    BY LinesAre
  <2>2. Purchases(t, S) \subseteq Lines(t, S)
    BY LinesNarrow
  <2> QED BY <2>1, <2>2 DEF OrdersOf
<1> HIDE DEF bought, paying
<1>4. /\ A["product_purchase"] = bought /\ A["membership_fee"] = paying
      /\ A["unclassified"] = S \ (bought \cup paying)
  BY <1>2
<1>5. bought \cap paying = {}
  BY DEF paying
<1> HIDE DEF A
<1>6. Disjoint(A, K)
  BY <1>4, <1>5 DEF Disjoint
<1>7. Together(A, K) = S
  <2>1. Together(A, K) = A["product_purchase"] \cup A["membership_fee"] \cup A["unclassified"]
    BY DEF Together
  <2> QED BY <1>3, <1>4, <2>1
<1>8. \A k \in K : A[k] \in SUBSET S
  BY <1>3, <1>4
<1>9. DOMAIN c = K /\ \A k \in K : c[k] = Totals(t, A[k])
  BY DEF Commerce, A
<1>10. \A field \in DOMAIN Totals(t, S) :
          SumFunction([k \in K |-> c[k][field]]) = Totals(t, S)[field]
  <2> HIDE DEF K, c
  <2> QED BY <1>1, <1>6, <1>7, <1>8, <1>9, TotalsAddUp
<1> QED BY <1>9, <1>10 DEF SpendAddsUp

LEMMA MembershipFits ==
    ASSUME NEW t, Table(t), NEW g,
           g.order_dates = OrderDates(t), g.membership = MembershipCosts(t)
    PROVE  MembershipAddsUp(g)
<1> DEFINE fees == OfKind(t, DOMAIN t, "membership_fee")
           days == DaysOf(t, fees)
           all == DaysOf(t, DOMAIN t)
<1>1. fees \in SUBSET DOMAIN t
  <2>1. \A l \in Lines(t, DOMAIN t) : l[1] \in DOMAIN t
    BY LinesAre
  <2>2. fees \subseteq OrdersOf(Lines(t, DOMAIN t))
    BY DEF OfKind
  <2> HIDE DEF fees
  <2> QED BY <2>1, <2>2 DEF OrdersOf
<1> HIDE DEF fees
<1>2. IsFiniteSet(fees) /\ IsFiniteSet(DOMAIN t)
  BY <1>1, FS_Subset DEF Table
<1>3. IsFiniteSet(days) /\ IsFiniteSet(all) /\ days \subseteq all /\ all \subseteq Day
  <2>1. IsFiniteSet(days) /\ IsFiniteSet(all) /\ all \subseteq Day
    <3>1. DOMAIN t \in SUBSET DOMAIN t
      OBVIOUS
    <3>2. IsFiniteSet(days)
      BY <1>1, DaysAre
    <3>3. IsFiniteSet(all) /\ all \subseteq Day
      BY <3>1, DaysAre
    <3> QED BY <3>2, <3>3
  <2>2. days \subseteq all
    BY <1>1 DEF DaysOf
  <2> QED BY <2>1, <2>2
<1>4. days # {} <=> fees # {}
  BY DEF DaysOf
<1>5. \A d \in Day : d \in Nat /\ d # 0
  BY DayIs
<1>6. /\ g.membership.totals = Totals(t, fees)
      /\ days # {} => g.membership.first = Min(days) /\ g.membership.last = Max(days)
      /\ all # {} => g.order_dates.first = Min(all) /\ g.order_dates.last = Max(all)
  <2>0. MembershipCosts(t) = [totals |-> Totals(t, fees),
                              first |-> IF days = {} THEN 0 ELSE Min(days),
                              last |-> IF days = {} THEN 0 ELSE Max(days)]
    BY DEF MembershipCosts, DaysOf, fees
  <2>1. g.membership.totals = Totals(t, fees)
    BY <2>0
  <2>2. days # {} => g.membership.first = Min(days) /\ g.membership.last = Max(days)
    <3> HIDE DEF days
    <3> QED BY <2>0
  <2>3. all # {} => g.order_dates.first = Min(all) /\ g.order_dates.last = Max(all)
    BY DEF OrderDates, DaysOf
  <2> QED BY <2>1, <2>2, <2>3
<1> HIDE DEF days, all
<1>7. g.membership.totals.standingAmount <= g.membership.totals.amount
  <2>1. /\ g.membership.totals.standingAmount = Amount(t, Standing(t, fees))
        /\ g.membership.totals.amount = Amount(t, fees)
    BY <1>6 DEF Totals
  <2>2. Standing(t, fees) \in SUBSET fees
    BY DEF Standing
  <2>3. /\ Amount(t, Standing(t, fees)) = SumFunctionOnSet(Amounts(t), Standing(t, fees))
        /\ Amount(t, fees) = SumFunctionOnSet(Amounts(t), fees)
        /\ \A r \in fees : Amounts(t)[r] \in Nat
    BY <1>1, <2>2, AmountIs
  <2>4. SumFunctionOnSet(Amounts(t), Standing(t, fees)) <= SumFunctionOnSet(Amounts(t), fees)
    BY <1>2, <2>2, <2>3, SumOfPart
  <2> QED BY <2>1, <2>3, <2>4
<1>8. g.membership.totals.orders > 0 => days # {}
  <2>1. g.membership.totals.orders = Cardinality(fees)
    BY <1>6 DEF Totals
  <2>2. fees = {} => Cardinality(fees) = 0
    BY FS_EmptySet
  <2> QED BY <1>4, <2>1, <2>2
<1>9. days # {} => /\ MembershipStatus(g.order_dates) = "partial_history"
                   /\ g.membership.first >= g.order_dates.first
                   /\ g.membership.last <= g.order_dates.last
  <2> SUFFICES ASSUME days # {}
               PROVE  /\ MembershipStatus(g.order_dates) = "partial_history"
                      /\ g.membership.first >= g.order_dates.first
                      /\ g.membership.last <= g.order_dates.last
    OBVIOUS
  <2>1. days \in SUBSET Nat /\ all \in SUBSET Nat /\ all # {}
    BY <1>3, <1>5
  <2>2. /\ Min(days) \in days /\ Max(days) \in days /\ Min(all) \in all
        /\ \A d \in all : Min(all) <= d /\ d <= Max(all)
    BY <1>3, <2>1, ExtremeDays
  <2>3. Min(all) # 0
    BY <1>3, <1>5, <2>2
  <2> QED BY <1>3, <1>6, <2>1, <2>2, <2>3 DEF MembershipStatus
<1> QED BY <1>7, <1>8, <1>9 DEF MembershipAddsUp

-----------------------------------------------------------------------------
(* Counts by a value, and ranked values.                                   *)

\* Elements counted by a value are counted once each.
LEMMA FibersAddUp ==
    ASSUME NEW S, IsFiniteSet(S), NEW f, NEW h, IsFiniteSet(DOMAIN h),
           \A r \in S : f[r] \in DOMAIN h,
           \A k \in DOMAIN h : h[k] = Cardinality({r \in S : f[r] = k})
    PROVE  /\ SumFunction(h) = Cardinality(S) /\ \A k \in DOMAIN h : h[k] \in Nat
           /\ Summable(h, DOMAIN h) /\ Cardinality(S) \in Nat
<1> DEFINE A == [k \in DOMAIN h |-> {r \in S : f[r] = k}]
<1>1. \A k \in DOMAIN h : IsFiniteSet(A[k]) /\ h[k] = Cardinality(A[k])
  BY FS_Subset
<1>2. Disjoint(A, DOMAIN h)
  BY DEF Disjoint
<1>3. Together(A, DOMAIN h) = S
  BY DEF Together
<1> HIDE DEF A
<1>4. SumFunctionOnSet(h, DOMAIN h) = Cardinality(S) /\ Summable(h, DOMAIN h)
  BY <1>1, <1>2, <1>3, SizesAddUp
<1>5. \A k \in DOMAIN h : h[k] \in Nat
  BY <1>1, FS_CardinalityType
<1> QED BY <1>4, <1>5, FS_CardinalityType DEF SumFunction

\* Values of pairs, of which the kth smallest is ranked.
Valued(E) == IsFiniteSet(E) /\ \A e \in E : e[2] \in Nat

LEMMA RankIs ==
    ASSUME NEW E, Valued(E), NEW k \in 1..Cardinality(E)
    PROVE  LET v == Ranked(E, k)
           IN  /\ v \in Nat /\ \E e \in E : v = e[2]
               /\ Cardinality({e \in E : e[2] < v}) < k
               /\ Cardinality({e \in E : e[2] <= v}) >= k
<1> DEFINE V == {e[2] : e \in E}
           upTo(n) == {e \in E : e[2] <= n}
           below(n) == {e \in E : e[2] < n}
           T == {n \in Nat : Cardinality(upTo(n)) >= k}
<1>1. IsFiniteSet(E) /\ \A e \in E : e[2] \in Nat
  BY DEF Valued
<1>2. Cardinality(E) \in Nat /\ k \in Nat /\ k >= 1 /\ k <= Cardinality(E)
  BY <1>1, FS_CardinalityType
<1>3. E # {}
  BY <1>2, FS_EmptySet
<1>4. \A n : /\ Cardinality(upTo(n)) \in Nat /\ Cardinality(below(n)) \in Nat
  BY <1>1, PartOf
<1>5. T # {}
  <2> DEFINE f == [e \in E |-> e[2]]
             W == {f[e] : e \in E}
  <2>1. W \in SUBSET Int /\ W # {}
    BY <1>1, <1>3
  <2>2. IsFiniteSet(W)
    <3> HIDE DEF f
    <3> QED BY <1>1, ImageIs
  <2>3. Max(W) \in W /\ \A y \in W : Max(W) >= y
    <3> HIDE DEF W
    <3> QED BY <2>1, <2>2, MaxIs
  <2> DEFINE m == Max(W)
  <2>4. m \in Nat /\ \A e \in E : e[2] <= m
    <3>1. \A e \in E : e[2] \in W
      OBVIOUS
    <3>2. W \subseteq Nat
      BY <1>1
    <3> HIDE DEF W
    <3> QED BY <2>3, <3>1, <3>2
  <2> HIDE DEF m
  <2>5. upTo(m) = E
    BY <2>4
  <2>6. Cardinality(upTo(m)) >= k
    <3> HIDE DEF upTo
    <3> QED BY <1>2, <2>5
  <2> QED BY <2>4, <2>6
<1>6. PICK n \in T : \A m \in T : n <= m
  <2>1. T \in SUBSET Nat
    OBVIOUS
  <2> HIDE DEF T
  <2> QED BY <1>5, <2>1, LeastNatural
<1>7. n \in Nat /\ Cardinality(upTo(n)) >= k
  BY <1>6
<1>8. Cardinality(below(n)) < k
  <2>1. CASE n = 0
    <3>1. below(n) = {}
      BY <1>1, <2>1
    <3>2. Cardinality(below(n)) = 0
      <4> HIDE DEF below
      <4> QED BY <3>1, FS_EmptySet
    <3> QED BY <1>2, <3>2
  <2>2. CASE n # 0
    <3> DEFINE m == n - 1
    <3>1. m \in Nat /\ m \notin T
      BY <1>6, <1>7, <2>2
    <3>2. below(n) = upTo(m)
      BY <1>1, <1>7, <2>2
    <3>3. ~(Cardinality(upTo(m)) >= k)
      BY <3>1
    <3> HIDE DEF m, upTo, below
    <3> QED BY <1>2, <1>4, <3>2, <3>3
  <2> QED BY <2>1, <2>2
<1>9. n \in V
  <2> SUFFICES ASSUME n \notin V PROVE FALSE
    OBVIOUS
  <2>1. upTo(n) = below(n)
    BY <1>1, <1>7
  <2> HIDE DEF upTo, below
  <2> QED BY <1>2, <1>4, <1>7, <1>8, <2>1
<1> DEFINE Is(v) == /\ Cardinality({e \in E : e[2] < v}) < k
                    /\ Cardinality({e \in E : e[2] <= v}) >= k
<1>10. Is(n)
  BY <1>7, <1>8
<1>11. Ranked(E, k) = CHOOSE v \in V : Is(v)
  BY DEF Ranked
<1>12. Ranked(E, k) \in V /\ Is(Ranked(E, k))
  <2> HIDE DEF V, Is
  <2> QED BY <1>9, <1>10, <1>11
<1> QED BY <1>1, <1>12

\* A higher rank has no smaller value.
LEMMA RanksGrow ==
    ASSUME NEW E, Valued(E), NEW k \in 1..Cardinality(E), NEW m \in 1..Cardinality(E), k <= m
    PROVE  Ranked(E, k) <= Ranked(E, m)
<1> DEFINE v == Ranked(E, k)
           w == Ranked(E, m)
           A == {e \in E : e[2] <= w}
           B == {e \in E : e[2] < v}
<1>1. v \in Nat /\ Cardinality(B) < k /\ w \in Nat /\ Cardinality(A) >= m
  BY RankIs
<1>2. IsFiniteSet(B) /\ Cardinality(B) \in Nat /\ Cardinality(A) \in Nat
  <2>1. IsFiniteSet(E)
    BY DEF Valued
  <2> QED BY <2>1, PartOf
<1>3. ASSUME v > w PROVE FALSE
  <2>1. A \subseteq B
    BY <1>1, <1>3 DEF Valued
  <2> HIDE DEF A, B
  <2>2. Cardinality(A) <= Cardinality(B)
    BY <1>2, <2>1, PartOf
  <2> HIDE DEF v, w
  <2>3. k \in Int /\ m \in Int
    OBVIOUS
  <2> QED BY <1>1, <1>2, <2>2, <2>3
<1> HIDE DEF v, w, A, B
<1>4. v <= w
  BY <1>1, <1>3
<1> QED BY <1>4 DEF v, w

LEMMA MedianIs ==
    ASSUME NEW E, Valued(E), NEW n, n = Cardinality(E), n # 0
    PROVE  LET low == Ranked(E, (n + 1) \div 2)
               high == Ranked(E, (n + 2) \div 2)
           IN  /\ n \in Nat /\ (n + 1) \div 2 \in 1..n /\ (n + 2) \div 2 \in 1..n
               /\ (9 * n + 9) \div 10 \in 1..n /\ (n + 2) \div 2 <= (9 * n + 9) \div 10
               /\ low \in Nat /\ high \in Nat /\ low <= high
               /\ TwiceMedian(E) = low + high
               /\ high <= Ranked(E, (9 * n + 9) \div 10)
<1>1. n \in Nat /\ n >= 1
  BY FS_CardinalityType DEF Valued
<1> DEFINE a == (n + 1) \div 2
           b == (n + 2) \div 2
           c == (9 * n + 9) \div 10
<1>2. a \in 1..n /\ b \in 1..n /\ c \in 1..n /\ a <= b /\ b <= c
  BY <1>1
<1>3. TwiceMedian(E) = Ranked(E, a) + Ranked(E, b)
  BY DEF TwiceMedian
<1> HIDE DEF a, b, c
<1>4. Ranked(E, a) \in Nat /\ Ranked(E, b) \in Nat
  BY <1>2, RankIs
<1>5. Ranked(E, a) <= Ranked(E, b) /\ Ranked(E, b) <= Ranked(E, c)
  BY <1>2, RanksGrow
<1> QED BY <1>1, <1>2, <1>3, <1>4, <1>5 DEF a, b, c

LEMMA SummaryIs ==
    ASSUME NEW E, Valued(E), NEW d, d = DurationSummary(E)
    PROVE  /\ d.count = Cardinality(E) /\ d.count \in Nat
           /\ d.total = SumFunctionOnSet([e \in E |-> e[2]], E) /\ d.total \in Nat
           /\ d.median = TwiceMedian(E)
           /\ d.count = 0 => d.p90 = 0
           /\ d.count # 0 => d.p90 = Ranked(E, (9 * d.count + 9) \div 10)
           /\ d.p90 \in Nat /\ d.median \in Nat /\ d.median <= 2 * d.p90
<1> DEFINE n == Cardinality(E)
           f == [e \in E |-> e[2]]
           p == IF n = 0 THEN 0 ELSE Ranked(E, (9 * n + 9) \div 10)
<1>1. d = [count |-> n, total |-> SumFunction(f), median |-> TwiceMedian(E), p90 |-> p]
  BY DEF DurationSummary
<1>2. /\ d.count = n /\ d.total = SumFunction(f)
      /\ d.median = TwiceMedian(E) /\ d.p90 = p
  <2> HIDE DEF n, f, p
  <2> QED BY <1>1
<1>3. SumFunction(f) = SumFunctionOnSet(f, E) /\ SumFunctionOnSet(f, E) \in Nat
  <2>1. DOMAIN f = E /\ \A e \in E : f[e] \in Nat
    BY DEF Valued
  <2>2. IsFiniteSet(E)
    BY DEF Valued
  <2> HIDE DEF f
  <2> QED BY <2>1, <2>2, SumIsNat DEF SumFunction
<1>4. n \in Nat
  BY FS_CardinalityType DEF Valued
<1>5. p \in Nat /\ TwiceMedian(E) \in Nat /\ TwiceMedian(E) <= 2 * p
  <2>1. CASE n = 0
    <3>1. TwiceMedian(E) = 0
      BY <2>1 DEF TwiceMedian
    <3> QED BY <2>1, <3>1
  <2>2. CASE n # 0
    <3> DEFINE a == Ranked(E, (n + 1) \div 2)
               b == Ranked(E, (n + 2) \div 2)
               c == Ranked(E, (9 * n + 9) \div 10)
    <3>1. /\ a \in Nat /\ b \in Nat /\ a <= b /\ TwiceMedian(E) = a + b /\ b <= c
          /\ (9 * n + 9) \div 10 \in 1..n
      BY <2>2, MedianIs
    <3>2. c \in Nat
      BY <3>1, RankIs
    <3>3. p = c
      BY <2>2
    <3> HIDE DEF a, b, c, p
    <3> QED BY <3>1, <3>2, <3>3
  <2> QED BY <2>1, <2>2
<1> HIDE DEF f
<1> QED BY <1>2, <1>3, <1>4, <1>5 DEF f

-----------------------------------------------------------------------------
(* Statistics.                                                             *)

TimedBought(t, S) == Timed(t, Bought(t, S))

\* Hours and weekdays count the bought orders whose time is known.
LEMMA HoursAre ==
    ASSUME NEW t, Table(t), NEW S \in SUBSET DOMAIN t, NEW h, h = HourStats(t, S)
    PROVE  /\ SumFunction(h) = Cardinality(TimedBought(t, S))
           /\ DOMAIN h = AllTimes /\ IsFiniteSet(AllTimes) /\ \A k \in DOMAIN h : h[k] \in Nat
<1> DEFINE R == TimedBought(t, S)
           f == [r \in R |-> t[r].time]
<1>1. h = [time \in AllTimes |-> Cardinality(At(t, Bought(t, S), {time}))]
  BY DEF HourStats, Bought
<1>2. DOMAIN h = AllTimes
  BY <1>1
<1>3. IsFiniteSet(AllTimes)
  <2> DEFINE one == {"night"}
             two == one \cup {"day"}
  <2>1. IsFiniteSet(one)
    BY FS_Singleton
  <2>2. IsFiniteSet(two)
    <3> HIDE DEF one
    <3> QED BY <2>1, FS_AddElement
  <2>3. IsFiniteSet(two \cup {"late_evening"})
    <3> HIDE DEF two
    <3> QED BY <2>2, FS_AddElement
  <2>4. AllTimes = two \cup {"late_evening"}
    BY DEF AllTimes
  <2> QED BY <2>3, <2>4
<1>4. IsFiniteSet(R)
  <2>1. R \subseteq Bought(t, S)
    BY DEF TimedBought, Timed, At
  <2> HIDE DEF R
  <2> QED BY <2>1, BoughtAre, FS_Subset
<1>5. \A r \in R : f[r] \in DOMAIN h
  BY <1>2 DEF TimedBought, Timed, At
<1>6. \A k \in DOMAIN h : h[k] = Cardinality({r \in R : f[r] = k})
  <2> SUFFICES ASSUME NEW k \in AllTimes PROVE h[k] = Cardinality({r \in R : f[r] = k})
    BY <1>2
  <2>1. At(t, Bought(t, S), {k}) = {r \in R : f[r] = k}
    BY DEF TimedBought, Timed, At
  <2>2. h[k] = Cardinality(At(t, Bought(t, S), {k}))
    BY <1>1
  <2> QED BY <2>1, <2>2
<1> HIDE DEF f, R
<1>7. SumFunction(h) = Cardinality(R) /\ \A k \in DOMAIN h : h[k] \in Nat
  <2>1. IsFiniteSet(DOMAIN h)
    BY <1>2, <1>3
  <2> QED BY <1>4, <1>5, <1>6, <2>1, FibersAddUp
<1> QED BY <1>2, <1>3, <1>7 DEF R

LEMMA WeekdaysAre ==
    ASSUME NEW t, Table(t), NEW S \in SUBSET DOMAIN t, NEW h, h = WeekdayStats(t, S)
    PROVE  /\ SumFunction(h) = Cardinality(TimedBought(t, S))
           /\ IsFiniteSet(DOMAIN h) /\ \A k \in DOMAIN h : h[k] \in Nat
           /\ \A k \in DOMAIN h :
                 h[k] = Cardinality({r \in TimedBought(t, S) : Weekday(t[r].day) = k})
<1> DEFINE R == TimedBought(t, S)
           f == [r \in R |-> Weekday(t[r].day)]
<1>1. h = [w \in {Weekday(t[r].day) : r \in R} |-> Cardinality({r \in R : Weekday(t[r].day) = w})]
  BY DEF WeekdayStats, TimedBought, Bought
<1>2. IsFiniteSet(R)
  <2>1. R \subseteq Bought(t, S)
    BY DEF TimedBought, Timed, At
  <2> HIDE DEF R
  <2> QED BY <2>1, BoughtAre, FS_Subset
<1>3. IsFiniteSet({f[r] : r \in R})
  <2> HIDE DEF f, R
  <2> QED BY <1>2, ImageIs
<1>4. DOMAIN h = {f[r] : r \in R}
  BY <1>1
<1>5. \A r \in R : f[r] \in DOMAIN h
  BY <1>4
<1>6. \A k \in DOMAIN h : h[k] = Cardinality({r \in R : Weekday(t[r].day) = k})
  BY <1>1
<1>7. \A k \in DOMAIN h : h[k] = Cardinality({r \in R : f[r] = k})
  <2> SUFFICES ASSUME NEW k \in DOMAIN h PROVE h[k] = Cardinality({r \in R : f[r] = k})
    OBVIOUS
  <2>1. {r \in R : Weekday(t[r].day) = k} = {r \in R : f[r] = k}
    OBVIOUS
  <2> QED BY <1>6, <2>1
<1>8. IsFiniteSet(DOMAIN h)
  BY <1>3, <1>4
<1> HIDE DEF f
<1>9. SumFunction(h) = Cardinality(R) /\ \A k \in DOMAIN h : h[k] \in Nat
  <2> HIDE DEF R
  <2> QED BY <1>2, <1>5, <1>7, <1>8, FibersAddUp
<1> QED BY <1>6, <1>8, <1>9

LEMMA DeliveryStatsAre ==
    ASSUME NEW t, Table(t), NEW S \in SUBSET DOMAIN t, NEW d, d = DeliveryStats(t, S)
    PROVE  /\ Valued(Deliveries(t, S)) /\ d.all = DurationSummary(Deliveries(t, S))
           /\ SumFunction([y \in DOMAIN d.byYear |-> d.byYear[y].count]) = d.all.count
           /\ SumFunction([y \in DOMAIN d.byYear |-> d.byYear[y].total]) = d.all.total
           /\ DOMAIN d.byYear \in SUBSET Nat /\ IsFiniteSet(DOMAIN d.byYear)
           /\ \A y \in DOMAIN d.byYear : /\ d.byYear[y].count \in Nat /\ d.byYear[y].count > 0
                                         /\ d.byYear[y].total \in Nat
<1> DEFINE all == Deliveries(t, S)
           f == [e \in all |-> Year(t[e[1]].day)]
           Y == {f[e] : e \in all}
           of(y) == {e \in all : f[e] = y}
           by == [y \in Y |-> DurationSummary(of(y))]
           c == [y \in Y |-> by[y].count]
           s == [y \in Y |-> by[y].total]
<1>1. d.all = DurationSummary(all) /\ d.byYear = by
  <2> DEFINE a == DurationSummary(all)
             years == {Year(t[e[1]].day) : e \in all}
             b == [y \in years |-> DurationSummary({e \in all : Year(t[e[1]].day) = y})]
  <2>1. d = [all |-> a, byYear |-> b]
    BY DEF DeliveryStats
  <2>2. d.all = a /\ d.byYear = b
    <3> HIDE DEF a, b
    <3> QED BY <2>1
  <2>3. years = Y
    OBVIOUS
  <2>4. \A y : {e \in all : Year(t[e[1]].day) = y} = of(y)
    OBVIOUS
  <2>5. b = by
    <3> HIDE DEF Y, of
    <3>1. \A y \in Y : b[y] = by[y]
      BY <2>3, <2>4
    <3> QED BY <2>3, <3>1
  <2> QED BY <2>2, <2>5
<1>2. Valued(all)
  BY DeliveriesAre DEF Valued
<1>3. IsFiniteSet(all) /\ \A e \in all : e[2] \in Nat /\ e[1] \in S
  BY DeliveriesAre
<1>4. IsFiniteSet(Y)
  <2> HIDE DEF f, all
  <2> QED BY <1>3, ImageIs
<1>5. Y \in SUBSET Nat
  <2> SUFFICES ASSUME NEW e \in all PROVE f[e] \in Nat
    OBVIOUS
  <2>1. e[1] \in DOMAIN t /\ t[e[1]].day \in Day
    BY <1>3, BoughtAre
  <2>2. Month(t[e[1]].day) \in Nat \ {0}
    BY <2>1, DayIs
  <2>3. (Month(t[e[1]].day) - 1) \div 12 \in Nat
    <3> DEFINE m == Month(t[e[1]].day)
    <3>1. m \in Nat \ {0}
      BY <2>2
    <3> HIDE DEF m
    <3>2. (m - 1) \div 12 \in Nat
      BY <3>1
    <3> QED BY <3>2 DEF m
  <2> QED BY <2>3 DEF Year
<1>6. \A y : Valued(of(y)) /\ of(y) \subseteq all
  BY <1>3, FS_Subset DEF Valued
<1> DEFINE x == [e \in all |-> e[2]]
           A == [y \in Y |-> of(y)]
<1>7. ASSUME NEW y \in Y
      PROVE  /\ c[y] = Cardinality(of(y)) /\ c[y] \in Nat /\ c[y] > 0
             /\ s[y] \in Nat /\ s[y] = SumFunctionOnSet(x, of(y)) /\ Summable(x, of(y))
  <2>1. PICK e \in all : f[e] = y
    OBVIOUS
  <2>2. of(y) # {} /\ IsFiniteSet(of(y))
    BY <1>6, <2>1 DEF Valued
  <2> DEFINE v == DurationSummary(of(y))
             z == [i \in of(y) |-> i[2]]
  <2>3. /\ v.count = Cardinality(of(y)) /\ v.count \in Nat
        /\ v.total = SumFunctionOnSet(z, of(y)) /\ v.total \in Nat
    BY <1>6, SummaryIs
  <2>4. c[y] = v.count /\ s[y] = v.total
    OBVIOUS
  <2>5. Cardinality(of(y)) # 0
    BY <2>2, SizeOf
  <2>6. \A i \in of(y) : z[i] = x[i] /\ z[i] \in Int
    BY <1>3
  <2>7. Summable(z, of(y)) /\ Summable(x, of(y))
    BY <2>2, <2>6 DEF Summable
  <2> HIDE DEF z, x, of, c, s, v
  <2>8. SumFunctionOnSet(z, of(y)) = SumFunctionOnSet(x, of(y))
    BY <2>6, <2>7, SumOfEquals
  <2> QED BY <2>3, <2>4, <2>5, <2>7, <2>8
<1>8. SumFunction(c) = Cardinality(all)
  <2>1. DOMAIN c = Y /\ \A e \in all : f[e] \in Y
    OBVIOUS
  <2>2. \A y \in Y : c[y] = Cardinality({e \in all : f[e] = y})
    BY <1>7
  <2> HIDE DEF c, Y, f, all
  <2> QED BY <1>3, <1>4, <2>1, <2>2, FibersAddUp
<1>9. SumFunction(s) = SumFunctionOnSet(x, all)
  <2>1. DOMAIN s = Y
    OBVIOUS
  <2>2. Disjoint(A, Y)
    BY DEF Disjoint
  <2>3. Together(A, Y) = all
    <3>1. \A y \in Y : A[y] \subseteq all
      OBVIOUS
    <3>2. \A e \in all : f[e] \in Y /\ e \in A[f[e]]
      OBVIOUS
    <3> HIDE DEF A, Y, f, all
    <3> QED BY <3>1, <3>2 DEF Together
  <2>4. \A y \in Y : Summable(x, A[y]) /\ s[y] = SumFunctionOnSet(x, A[y])
    BY <1>7
  <2> HIDE DEF s, A, Y, x, all
  <2>5. SumFunctionOnSet(s, Y) = SumFunctionOnSet(x, Together(A, Y))
    BY <1>4, <2>2, <2>4, SumOfParts
  <2> QED BY <2>1, <2>3, <2>5 DEF SumFunction
<1>10. /\ d.all.count = Cardinality(all) /\ d.all.total = SumFunctionOnSet(x, all)
  BY <1>1, <1>2, SummaryIs
<1>11. DOMAIN d.byYear = Y /\ \A y \in Y : d.byYear[y].count = c[y] /\ d.byYear[y].total = s[y]
  BY <1>1
<1>12. /\ c = [y \in DOMAIN d.byYear |-> d.byYear[y].count]
       /\ s = [y \in DOMAIN d.byYear |-> d.byYear[y].total]
  <2>1. c = [y \in Y |-> c[y]] /\ s = [y \in Y |-> s[y]]
    OBVIOUS
  <2> HIDE DEF c, s, Y
  <2> QED BY <1>11, <2>1
<1> HIDE DEF all, f, Y, of, by, c, s, x, A
<1> QED BY <1>1, <1>2, <1>4, <1>5, <1>7, <1>8, <1>9, <1>10, <1>11, <1>12 DEF all

\* Deliveries that became slower take time.
LEMMA SlowerTakesTime ==
    ASSUME NEW d, DOMAIN d \in SUBSET Nat, IsFiniteSet(DOMAIN d),
           \A y \in DOMAIN d : d[y].count \in Nat /\ d[y].total \in Nat,
           DeliveryTrend(d) = "slower"
    PROVE  \E y \in DOMAIN d : d[y].total > 0
<1>1. DOMAIN d # {}
  <2>1. ~(Cardinality(DOMAIN d) < 2)
    BY DEF DeliveryTrend
  <2> QED BY <2>1, FS_EmptySet
<1> DEFINE a == Min(DOMAIN d)
           b == Max(DOMAIN d)
<1>2. a \in DOMAIN d /\ b \in DOMAIN d
  BY <1>1, ExtremeDays
<1>3. d[b].total * d[a].count - d[a].total * d[b].count > 0
  BY DEF DeliveryTrend
<1> SUFFICES ASSUME \A y \in DOMAIN d : ~(d[y].total > 0) PROVE FALSE
  OBVIOUS
<1> HIDE DEF a, b
<1>4. d[a].total = 0 /\ d[b].total = 0 /\ d[a].count \in Nat /\ d[b].count \in Nat
  BY <1>2
<1> QED BY <1>3, <1>4

\* The statistics of one report add up.
LEMMA StatsFit ==
    ASSUME NEW t, Table(t), NEW S \in SUBSET DOMAIN t, NEW g,
           g.hours = HourStats(t, S), g.weekdays = WeekdayStats(t, S),
           g.deliveries = DeliveryStats(t, S)
    PROVE  StatsAddUp(g)
<1> DEFINE d == g.deliveries
<1>1. SumFunction(g.hours) = SumFunction(g.weekdays)
  <2>1. SumFunction(g.hours) = Cardinality(TimedBought(t, S))
    BY HoursAre
  <2>2. SumFunction(g.weekdays) = Cardinality(TimedBought(t, S))
    BY WeekdaysAre
  <2> QED BY <2>1, <2>2
<1>2. /\ Valued(Deliveries(t, S)) /\ d.all = DurationSummary(Deliveries(t, S))
      /\ SumFunction([y \in DOMAIN d.byYear |-> d.byYear[y].count]) = d.all.count
      /\ SumFunction([y \in DOMAIN d.byYear |-> d.byYear[y].total]) = d.all.total
      /\ DOMAIN d.byYear \in SUBSET Nat /\ IsFiniteSet(DOMAIN d.byYear)
      /\ \A y \in DOMAIN d.byYear : /\ d.byYear[y].count \in Nat /\ d.byYear[y].count > 0
                                    /\ d.byYear[y].total \in Nat
  BY DeliveryStatsAre
<1>3. d.all.median <= 2 * d.all.p90
  BY <1>2, SummaryIs
<1>4. DeliveryTrend(d.byYear) = "slower" => \E y \in DOMAIN d.byYear : d.byYear[y].total > 0
  BY <1>2, SlowerTakesTime
<1> QED BY <1>1, <1>2, <1>3, <1>4 DEF StatsAddUp

-----------------------------------------------------------------------------
(* Days and months of insights.                                            *)

OnDay(t, S, d) == {r \in Bought(t, S) : t[r].day = d}
InMonth(t, S, m) == {r \in Bought(t, S) : Month(t[r].day) = m}

LEMMA SeriesAddsUp ==
    ASSUME NEW t, Table(t), NEW S \in SUBSET DOMAIN t, NEW s, s = OrderDaySeries(t, S)
    PROVE  /\ DOMAIN s = BoughtDays(t, S) /\ IsFiniteSet(DOMAIN s) /\ DOMAIN s \in SUBSET Day
           /\ SumFunction(s) = Cardinality(Bought(t, S))
           /\ \A d \in DOMAIN s : /\ s[d] = Cardinality(OnDay(t, S, d))
                                  /\ s[d] \in Nat \ {0}
<1> DEFINE R == Bought(t, S)
           f == [r \in R |-> t[r].day]
           of(d) == {r \in R : t[r].day = d}
<1>1. DOMAIN s = BoughtDays(t, S) /\ \A d \in DOMAIN s : s[d] = Cardinality(of(d))
  BY DaySeriesIs
<1>2. IsFiniteSet(R) /\ IsFiniteSet(BoughtDays(t, S)) /\ BoughtDays(t, S) \in SUBSET Day
  BY BoughtAre
<1>3. \A r \in R : f[r] \in DOMAIN s
  BY <1>1 DEF BoughtDays
<1>4. \A d \in DOMAIN s : s[d] = Cardinality({r \in R : f[r] = d})
  <2> SUFFICES ASSUME NEW d \in DOMAIN s PROVE s[d] = Cardinality({r \in R : f[r] = d})
    OBVIOUS
  <2>1. of(d) = {r \in R : f[r] = d}
    OBVIOUS
  <2> QED BY <1>1, <2>1
<1>5. \A d \in DOMAIN s : s[d] # 0
  <2> SUFFICES ASSUME NEW d \in DOMAIN s PROVE s[d] # 0
    OBVIOUS
  <2>1. of(d) # {}
    BY <1>1 DEF BoughtDays
  <2>2. IsFiniteSet(of(d))
    BY <1>2, FS_Subset
  <2> HIDE DEF of
  <2> QED BY <1>1, <2>1, <2>2, SizeOf
<1> HIDE DEF f
<1>6. SumFunction(s) = Cardinality(R) /\ \A d \in DOMAIN s : s[d] \in Nat
  <2> HIDE DEF R
  <2> QED BY <1>1, <1>2, <1>3, <1>4, FibersAddUp
<1> QED BY <1>1, <1>2, <1>5, <1>6 DEF OnDay

LEMMA MonthsAddUp ==
    ASSUME NEW t, Table(t), NEW S \in SUBSET DOMAIN t, NEW g, g.months = MonthStats(t, S),
           NEW months, months = RetainedMonths(g),
           NEW h, DOMAIN h = DOMAIN months, \A m \in DOMAIN months : h[m] = months[m].orders
    PROVE  /\ DOMAIN months = Months(BoughtDays(t, S))
           /\ IsFiniteSet(DOMAIN months) /\ DOMAIN months \in SUBSET Nat /\ 0 \notin DOMAIN months
           /\ SumFunction(h) = Cardinality(Bought(t, S))
           /\ \A m \in DOMAIN months :
                 /\ months[m].orders \in Nat
                 /\ months[m].orders = Cardinality(InMonth(t, S, m))
<1> DEFINE all == KeptOrders(t, S)
           R == Bought(t, S)
           part(m) == {r \in all : Month(t[r].day) = m}
           on(m) == InMonth(t, S, m)
           M == DOMAIN g.months
           kept(m) == g.months[m].orders - g.months[m].canceled
           f == [r \in R |-> Month(t[r].day)]
<1>1. R \subseteq all /\ R = {r \in all : ~t[r].canceled} /\ all \subseteq S
  BY DEF Bought, Standing, KeptOrders
<1>2. IsFiniteSet(all) /\ IsFiniteSet(R) /\ \A r \in all : r \in DOMAIN t
  <2>1. IsFiniteSet(S)
    BY LinesAre
  <2> HIDE DEF all, R
  <2> QED BY <1>1, <2>1, FS_Subset
<1>3. /\ M = Months({t[r].day : r \in all})
      /\ \A m \in M : g.months[m] = Totals(t, part(m))
  BY DEF MonthStats
<1>4. ASSUME NEW m \in M
      PROVE  kept(m) = Cardinality(on(m)) /\ kept(m) \in Nat
  <2> DEFINE P == part(m)
             Q == on(m)
  <2>1. P \ Standing(t, P) = P \ Q
    BY <1>1 DEF Standing, InMonth
  <2>2. Q \subseteq P /\ IsFiniteSet(P)
    BY <1>1, <1>2, FS_Subset DEF InMonth
  <2>3. g.months[m] = Totals(t, P)
    BY <1>3
  <2> HIDE DEF P, Q
  <2>4. /\ g.months[m].orders = Cardinality(P)
        /\ g.months[m].canceled = Cardinality(P \ Standing(t, P))
    BY <2>3 DEF Totals
  <2>5. Q \in SUBSET P /\ (P \ Q) \in SUBSET P /\ Q \cap (P \ Q) = {} /\ Q \cup (P \ Q) = P
    BY <2>2
  <2>6. /\ Cardinality(Q) \in Nat /\ Cardinality(P \ Q) \in Nat
        /\ Cardinality(Q) + Cardinality(P \ Q) = Cardinality(P)
    BY <2>2, <2>5, PartsOf
  <2>7. g.months[m].orders - g.months[m].canceled = Cardinality(Q)
    <3> DEFINE o == g.months[m].orders
               c == g.months[m].canceled
               p == Cardinality(P)
               q == Cardinality(Q)
               d == Cardinality(P \ Q)
    <3>1. o = p /\ c = d
      BY <2>1, <2>4
    <3>2. q \in Nat /\ d \in Nat /\ q + d = p
      BY <2>6
    <3> HIDE DEF o, c, p, q, d
    <3>3. o - c = q
      BY <3>1, <3>2
    <3> QED BY <3>3 DEF o, c, q
  <2> QED BY <2>6, <2>7 DEF Q
<1>5. /\ DOMAIN months = {m \in M : kept(m) > 0}
      /\ \A m \in DOMAIN months : months[m].orders = kept(m)
  BY DEF RetainedMonths
<1>6. \A r \in R : Month(t[r].day) \in M
  BY <1>1, <1>3 DEF Months
<1>7. ASSUME NEW m \in M
      PROVE  kept(m) > 0 <=> \E r \in R : Month(t[r].day) = m
  <2>1. IsFiniteSet(on(m))
    BY <1>2, FS_Subset DEF InMonth
  <2>2. Cardinality(on(m)) = 0 <=> on(m) = {}
    <3> HIDE DEF on
    <3> QED BY <2>1, SizeOf
  <2>3. on(m) = {} <=> ~\E r \in R : Month(t[r].day) = m
    BY DEF InMonth
  <2> HIDE DEF kept, on
  <2> QED BY <1>4, <2>2, <2>3
<1> HIDE DEF kept
<1>8. \A m : m \in DOMAIN months <=> \E r \in R : Month(t[r].day) = m
  <2> HIDE DEF R, M
  <2> QED BY <1>5, <1>6, <1>7
<1>9. DOMAIN months = Months(BoughtDays(t, S))
  <2>1. \A m : m \in Months(BoughtDays(t, S)) <=> \E r \in R : Month(t[r].day) = m
    BY DEF Months, BoughtDays
  <2> HIDE DEF R
  <2> QED BY <1>8, <2>1
<1>10. DOMAIN months = {f[r] : r \in R}
  <2>1. \A m : m \in {f[r] : r \in R} <=> \E r \in R : Month(t[r].day) = m
    OBVIOUS
  <2> HIDE DEF R, f
  <2> QED BY <1>8, <2>1
<1>11. IsFiniteSet(DOMAIN months)
  <2>1. IsFiniteSet({f[r] : r \in R})
    <3> HIDE DEF f, R
    <3> QED BY <1>2, ImageIs
  <2> QED BY <1>10, <2>1
<1>12. DOMAIN months \in SUBSET Nat /\ 0 \notin DOMAIN months
  <2>1. \A r \in R : t[r].day \in Day
    BY <1>1, <1>2, BoughtAre
  <2>2. \A r \in R : Month(t[r].day) \in Nat \ {0}
    BY <2>1, DayIs
  <2> HIDE DEF R
  <2> QED BY <1>8, <2>2
<1>13. \A m \in DOMAIN months : /\ months[m].orders = Cardinality(on(m))
                                /\ months[m].orders \in Nat
  BY <1>4, <1>5
<1>14. SumFunction(h) = Cardinality(R)
  <2>1. DOMAIN h = DOMAIN months
    OBVIOUS
  <2>2. \A r \in R : f[r] \in DOMAIN h
    BY <1>10, <2>1
  <2>3. \A m \in DOMAIN h : h[m] = Cardinality({r \in R : f[r] = m})
    <3> SUFFICES ASSUME NEW m \in DOMAIN months PROVE h[m] = Cardinality({r \in R : f[r] = m})
      BY <2>1
    <3>1. on(m) = {r \in R : f[r] = m}
      BY DEF InMonth
    <3>2. h[m] = months[m].orders
      OBVIOUS
    <3> QED BY <1>13, <3>1, <3>2
  <2> HIDE DEF R, f
  <2> QED BY <1>2, <1>11, <2>1, <2>2, <2>3, FibersAddUp
<1> QED BY <1>9, <1>11, <1>12, <1>13, <1>14

\* The busiest month has at least the orders of the fullest day.
LEMMA BusiestIsFull ==
    ASSUME NEW t, Table(t), NEW S \in SUBSET DOMAIN t, NEW g, g.months = MonthStats(t, S),
           g.day_series = OrderDaySeries(t, S),
           NEW months, months = RetainedMonths(g), NEW b \in DOMAIN months,
           \A m \in DOMAIN months : months[b].orders >= months[m].orders
    PROVE  months[b].orders >= Peak(g.day_series)
<1> DEFINE s == g.day_series
           R == Bought(t, S)
           on(m) == InMonth(t, S, m)
           of(d) == OnDay(t, S, d)
           h == [m \in DOMAIN months |-> months[m].orders]
<1>1. /\ DOMAIN s = BoughtDays(t, S) /\ IsFiniteSet(DOMAIN s)
      /\ \A d \in DOMAIN s : s[d] = Cardinality(of(d)) /\ s[d] \in Nat
  BY SeriesAddsUp
<1>2. /\ DOMAIN months = Months(BoughtDays(t, S))
      /\ \A m \in DOMAIN months : /\ months[m].orders = Cardinality(on(m))
                                  /\ months[m].orders \in Nat
  <2>1. DOMAIN h = DOMAIN months /\ \A m \in DOMAIN months : h[m] = months[m].orders
    OBVIOUS
  <2> HIDE DEF h
  <2> QED BY <2>1, MonthsAddUp
<1>3. IsFiniteSet(R)
  BY BoughtAre
<1>4. ASSUME NEW d \in DOMAIN s PROVE s[d] <= months[b].orders
  <2>1. Month(d) \in DOMAIN months
    BY <1>1, <1>2 DEF Months
  <2>2. of(d) \subseteq on(Month(d)) /\ IsFiniteSet(on(Month(d)))
    BY <1>3, FS_Subset DEF OnDay, InMonth
  <2> HIDE DEF of, on
  <2>3. /\ Cardinality(of(d)) <= Cardinality(on(Month(d)))
        /\ Cardinality(of(d)) \in Nat /\ Cardinality(on(Month(d))) \in Nat
    BY <2>2, PartOf
  <2> QED BY <1>1, <1>2, <2>1, <2>3
<1>5. /\ Peak(s) \in Nat
      /\ DOMAIN s = {} => Peak(s) = 0
      /\ DOMAIN s # {} => \E k \in DOMAIN s : s[k] = Peak(s)
  <2> HIDE DEF s
  <2> QED BY <1>1, PeakIs
<1> DEFINE n == months[b].orders
           p == Peak(s)
<1>6. n \in Nat /\ \A d \in DOMAIN s : s[d] <= n
  BY <1>2, <1>4
<1>7. p \in Nat /\ (p = 0 \/ \E k \in DOMAIN s : s[k] = p)
  BY <1>5
<1> HIDE DEF n, p, s
<1>8. n >= p
  BY <1>6, <1>7
<1> QED BY <1>8 DEF n, p, s

LEMMA PeakMonthIs ==
    ASSUME NEW months, IsFiniteSet(DOMAIN months), DOMAIN months \in SUBSET Nat,
           NEW b, b = PeakMonth(months, LAMBDA m : m.orders), b # 0
    PROVE  /\ b \in DOMAIN months
           /\ \A m \in DOMAIN months : months[b].orders >= months[m].orders
<1> DEFINE peaks == {m \in DOMAIN months : \A k \in DOMAIN months :
                        months[m].orders >= months[k].orders}
<1>1. b = IF peaks = {} THEN 0 ELSE Min(peaks)
  BY DEF PeakMonth
<1>2. peaks # {} /\ b = Min(peaks)
  BY <1>1
<1>3. peaks \in SUBSET Nat /\ IsFiniteSet(peaks)
  BY FS_Subset
<1>4. b \in peaks
  <2> HIDE DEF peaks
  <2> QED BY <1>2, <1>3, ExtremeDays
<1> QED BY <1>4

LEMMA StreaksFit ==
    ASSUME NEW M, IsFiniteSet(M)
    PROVE  LongestStreak(M) \in 0..Cardinality(M)
<1> DEFINE streaks == {n \in 1..Cardinality(M) : \E m \in M : m..(m + n - 1) \subseteq M}
<1>1. LongestStreak(M) = IF streaks = {} THEN 0 ELSE Max(streaks)
  BY DEF LongestStreak
<1>2. Cardinality(M) \in Nat
  BY FS_CardinalityType
<1>3. streaks \in SUBSET Nat /\ streaks \subseteq 1..Cardinality(M)
      /\ \A n \in streaks : n \in 0..Cardinality(M)
  BY <1>2
<1>4. IsFiniteSet(streaks)
  <2>1. IsFiniteSet(1..Cardinality(M))
    <3>1. 1 \in Int /\ Cardinality(M) \in Int
      BY <1>2
    <3> QED BY <3>1, FS_Interval
  <2> HIDE DEF streaks
  <2> QED BY <1>3, <2>1, FS_Subset
<1>5. streaks # {} => Max(streaks) \in streaks
  <2> HIDE DEF streaks
  <2> QED BY <1>3, <1>4, ExtremeDays
<1> HIDE DEF streaks
<1>6. streaks # {} => Max(streaks) \in 0..Cardinality(M)
  BY <1>3, <1>5
<1> QED BY <1>1, <1>2, <1>6

-----------------------------------------------------------------------------
(* Gaps, and days with several orders.                                     *)

\* Positive terms add up to their number only when each is one.
LEMMA SumAboveOnes ==
    ASSUME NEW f, NEW S, IsFiniteSet(S), \A x \in S : f[x] \in Nat \ {0},
           NEW T, T = {x \in S : f[x] > 1}
    PROVE  Cardinality(T) = 0 <=> SumFunctionOnSet(f, S) = Cardinality(S)
<1> DEFINE one == [x \in S |-> 1]
           more == [x \in S |-> f[x] - 1]
<1>1. \A x \in S : one[x] = 1 /\ more[x] \in Nat /\ f[x] = one[x] + more[x]
  OBVIOUS
<1>2. \A x \in S : more[x] = f[x] - 1
  OBVIOUS
<1> HIDE DEF one, more
<1>3. Summable(one, S) /\ Summable(more, S)
  BY <1>1 DEF Summable
<1>4. SumFunctionOnSet(f, S) = SumFunctionOnSet(one, S) + SumFunctionOnSet(more, S)
  BY <1>1, <1>3, SumOfSums
<1>5. SumFunctionOnSet(one, S) = Cardinality(S)
  BY <1>1, SumOfOnes
<1>6. SumFunctionOnSet(more, S) \in Nat /\ Cardinality(S) \in Nat
  BY <1>1, SumIsNat, FS_CardinalityType
<1>7. IsFiniteSet(T)
  BY FS_Subset
<1>8. Cardinality(T) = 0 <=> T = {}
  BY <1>7, SizeOf
<1>9. ASSUME T = {} PROVE SumFunctionOnSet(more, S) = 0
  <2>1. \A x \in S : more[x] = 0
    <3> SUFFICES ASSUME NEW x \in S PROVE more[x] = 0
      OBVIOUS
    <3>1. ~(f[x] > 1) /\ f[x] \in Nat \ {0}
      BY <1>9
    <3> QED BY <1>2, <3>1
  <2> QED BY <2>1, SumOfZeros
<1>10. ASSUME T # {} PROVE SumFunctionOnSet(more, S) # 0
  <2>1. PICK x \in S : f[x] > 1
    BY <1>10
  <2>2. more[x] <= SumFunctionOnSet(more, S)
    BY <1>1, SumHasTerm
  <2>3. more[x] >= 1
    BY <1>2, <2>1
  <2> QED BY <1>1, <1>6, <2>2, <2>3
<1>11. SumFunctionOnSet(more, S) = 0 <=> SumFunctionOnSet(f, S) = Cardinality(S)
  BY <1>4, <1>5, <1>6
<1> QED BY <1>8, <1>9, <1>10, <1>11

\* No gap is longer than from the first day to the last, which are as far apart as
\* there are days at least.
LEMMA GapsFit ==
    ASSUME NEW s, DOMAIN s \in SUBSET Day, IsFiniteSet(DOMAIN s), NEW g, g = DayGaps(s)
    PROVE  /\ g.most = Peak(s)
           /\ g.several = Cardinality({d \in DOMAIN s : s[d] > 1})
           /\ g.longest <= g.total
           /\ g.total + 1 >= Cardinality(DOMAIN s)
<1> DEFINE D == DOMAIN s
           next(d) == Min({e \in D : e > d})
           f == [d \in D \ {Max(D)} |-> DayNumber(next(d)) - DayNumber(d)]
           gaps == {f[d] : d \in D \ {Max(D)}}
           total == IF D = {} THEN 0 ELSE DayNumber(Max(D)) - DayNumber(Min(D))
           longest == IF Cardinality(D) < 2 THEN 0 ELSE Max(gaps)
           several == Cardinality({d \in D : s[d] > 1})
<1>1. g = [most |-> Peak(s), several |-> several, total |-> total, longest |-> longest]
  <2>1. gaps = {DayNumber(next(d)) - DayNumber(d) : d \in D \ {Max(D)}}
    OBVIOUS
  <2> QED BY <2>1 DEF DayGaps
<1>2. g.most = Peak(s) /\ g.several = several /\ g.total = total /\ g.longest = longest
  <2> HIDE DEF several, total, longest
  <2> QED BY <1>1
<1>3. D \in SUBSET Nat /\ IsFiniteSet(D) /\ Cardinality(D) \in Nat
  BY FS_CardinalityType DEF Day
<1>4. D # {} => /\ Min(D) \in D /\ Max(D) \in D
                /\ \A d \in D : Min(D) <= d /\ d <= Max(D)
  <2> HIDE DEF D
  <2> QED BY <1>3, ExtremeDays
<1>5. longest <= total /\ total + 1 >= Cardinality(D)
  <2>1. CASE D = {}
    <3>1. Cardinality(D) = 0
      <4> HIDE DEF D
      <4> QED BY <2>1, FS_EmptySet
    <3>2. total = 0 /\ longest = 0
      <4> HIDE DEF D
      <4> QED BY <2>1, <3>1
    <3> HIDE DEF total, longest, D
    <3> QED BY <3>1, <3>2
  <2>2. CASE D # {}
    <3> DEFINE a == Min(D)
               b == Max(D)
    <3>1. a \in D /\ b \in D /\ \A d \in D : a <= d /\ d <= b
      BY <1>4, <2>2
    <3>2. total = DayNumber(b) - DayNumber(a)
      BY <2>2
    <3>3. a \in Day /\ b \in Day /\ a <= b /\ D \in SUBSET Day
      BY <3>1
    <3>4. DayNumber(a) \in Nat /\ DayNumber(b) \in Nat /\ DayNumber(a) <= DayNumber(b)
      BY <3>3, DayIs, DaysKeepOrder
    <3>5. total + 1 >= Cardinality(D)
      <4> HIDE DEF a, b, D, total
      <4>1. Cardinality(D) \in 0..(DayNumber(b) - DayNumber(a) + 1)
        BY <1>3, <3>1, <3>3, DaysFit
      <4> QED BY <1>3, <3>2, <3>4, <4>1
    <3>6. longest <= total
      <4>1. CASE Cardinality(D) < 2
        <5>1. longest = 0
          BY <4>1
        <5> HIDE DEF a, b, D, total, longest
        <5> QED BY <3>2, <3>4, <5>1
      <4>2. CASE ~(Cardinality(D) < 2)
        <5> DEFINE E == D \ {b}
        <5>1. E # {} /\ IsFiniteSet(E)
          <6>1. E = {} => D = {b}
            BY <3>1
          <6>2. E = {} => Cardinality(D) = 1
            <7> HIDE DEF D, E
            <7> QED BY <6>1, FS_Singleton
          <6>3. IsFiniteSet(E)
            <7> HIDE DEF D
            <7> QED BY <1>3, FS_Subset
          <6> HIDE DEF D, E
          <6> QED BY <4>2, <6>2, <6>3
        <5>2. ASSUME NEW d \in E
              PROVE  f[d] \in Int /\ f[d] <= total
          <6> DEFINE N == {e \in D : e > d}
          <6>1. N # {} /\ N \in SUBSET Nat /\ IsFiniteSet(N) /\ N \subseteq D
            <7>1. d \in D /\ d # b /\ d <= b /\ d \in Nat /\ b \in Nat
              BY <1>3, <3>1
            <7>2. b \in N
              <8> HIDE DEF D, b
              <8> QED BY <3>1, <7>1
            <7>3. N \subseteq D
              OBVIOUS
            <7> HIDE DEF N, D
            <7> QED BY <1>3, <7>2, <7>3, FS_Subset
          <6>2. Min(N) \in N
            <7> HIDE DEF N
            <7> QED BY <6>1, ExtremeDays
          <6> DEFINE n == next(d)
          <6>3. n \in D
            BY <6>1, <6>2
          <6>4. f[d] = DayNumber(n) - DayNumber(d)
            OBVIOUS
          <6> HIDE DEF n, f, N, total
          <6>5. n \in Day /\ d \in Day /\ n <= b /\ a <= d
            BY <3>1, <3>3, <6>3
          <6> HIDE DEF a, b, D
          <6>6. /\ DayNumber(n) \in Nat /\ DayNumber(d) \in Nat
                /\ DayNumber(n) <= DayNumber(b) /\ DayNumber(a) <= DayNumber(d)
            BY <3>3, <6>5, DayIs, DaysKeepOrder
          <6> QED BY <3>2, <3>4, <6>4, <6>6
        <5>3. gaps = {f[d] : d \in E}
          OBVIOUS
        <5>4. IsFiniteSet({f[d] : d \in E})
          <6> HIDE DEF f, E
          <6> QED BY <5>1, ImageIs
        <5>5. longest = Max(gaps)
          BY <4>2
        <5> HIDE DEF f, E, gaps, longest, total
        <5>6. gaps \in SUBSET Int /\ gaps # {} /\ IsFiniteSet(gaps)
          BY <5>1, <5>2, <5>3, <5>4
        <5>7. Max(gaps) \in gaps
          BY <5>6, MaxIs
        <5> QED BY <5>2, <5>3, <5>5, <5>7
      <4> QED BY <4>1, <4>2
    <3> QED BY <3>5, <3>6
  <2> QED BY <2>1, <2>2
<1> QED BY <1>2, <1>5

-----------------------------------------------------------------------------
(* Hours, weekends and deliveries against the rates beside them.           *)

LEMMA BoughtAreTimed ==
    ASSUME NEW t, Table(t), NEW S \in SUBSET DOMAIN t, NEW g, g = TimedOrders(t, S),
           NEW h, h = HourStats(t, S), NEW w, w = WeekdayStats(t, S)
    PROVE  /\ SumFunction(h) <= g.timed
           /\ SumFunctionOnSet(w, DOMAIN w \cap {0, 6}) <= g.weekend
<1> DEFINE all == Standing(t, Timed(t, ProductOrders(t, S)))
           ends == {r \in all : Weekday(t[r].day) \in {0, 6}}
           R == TimedBought(t, S)
           K == DOMAIN w \cap {0, 6}
           A == [k \in DOMAIN w |-> {r \in R : Weekday(t[r].day) = k}]
<1>1. g.timed = Cardinality(all) /\ g.weekend = Cardinality(ends)
  BY DEF TimedOrders
<1>2. R \subseteq all
  <2>1. Bought(t, S) \subseteq ProductOrders(t, S)
    BY BoughtAre
  <2>2. \A r \in Bought(t, S) : ~t[r].canceled
    BY DEF Bought, Standing
  <2> QED BY <2>1, <2>2 DEF TimedBought, Timed, At, Standing
<1>3. IsFiniteSet(all) /\ IsFiniteSet(ends) /\ Cardinality(ends) \in Nat /\ Cardinality(all) \in Nat
  <2>1. all \subseteq S /\ IsFiniteSet(S)
    BY LinesAre DEF Standing, Timed, At, ProductOrders
  <2>2. ends \subseteq all
    OBVIOUS
  <2> HIDE DEF all, ends
  <2> QED BY <2>1, <2>2, FS_Subset, FS_CardinalityType
<1>4. SumFunction(h) = Cardinality(R)
  BY HoursAre
<1>5. Cardinality(R) <= Cardinality(all)
  <2> HIDE DEF R, all
  <2> QED BY <1>2, <1>3, PartOf
<1>6. /\ IsFiniteSet(DOMAIN w) /\ \A k \in DOMAIN w : w[k] \in Nat
      /\ \A k \in DOMAIN w : w[k] = Cardinality({r \in R : Weekday(t[r].day) = k})
  BY WeekdaysAre
<1>7. \A k \in K : w[k] = Cardinality(A[k]) /\ IsFiniteSet(A[k]) /\ A[k] \subseteq ends
  <2> SUFFICES ASSUME NEW k \in K
               PROVE  w[k] = Cardinality(A[k]) /\ IsFiniteSet(A[k]) /\ A[k] \subseteq ends
    OBVIOUS
  <2>1. A[k] = {r \in R : Weekday(t[r].day) = k} /\ k \in {0, 6}
    OBVIOUS
  <2>2. A[k] \subseteq ends
    BY <1>2, <2>1
  <2>3. w[k] = Cardinality(A[k])
    BY <1>6, <2>1
  <2> HIDE DEF A, ends
  <2> QED BY <1>3, <2>2, <2>3, FS_Subset
<1>8. Disjoint(A, K)
  BY DEF Disjoint
<1>9. IsFiniteSet(K)
  BY <1>6, FS_Subset
<1> HIDE DEF A, K, ends
<1>10. SumFunctionOnSet(w, K) = Cardinality(Together(A, K)) /\ IsFiniteSet(Together(A, K))
  BY <1>7, <1>8, <1>9, SizesAddUp
<1>11. Together(A, K) \subseteq ends
  BY <1>7 DEF Together
<1>12. Cardinality(Together(A, K)) <= Cardinality(ends)
  BY <1>3, <1>11, PartOf
<1> QED BY <1>1, <1>4, <1>5, <1>10, <1>12 DEF K

\* The speed of deliveries against their percentiles: nine of ten took at most the
\* 90th, and half of them at most the median, if they are an odd number.
LEMMA SpeedFits ==
    ASSUME NEW t, Table(t), NEW S \in SUBSET DOMAIN t, NEW g, g = DeliverySpeed(t, S),
           NEW d, d = DeliveryStats(t, S)
    PROVE  /\ g.shipments = d.all.count
           /\ d.all.p90 <= 48 => 10 * g.twoDays >= 9 * g.shipments
           /\ d.all.median <= 48 => 2 * g.day >= g.shipments \/ d.all.count % 2 = 0
<1> DEFINE all == Deliveries(t, S)
           upTo(v) == {e \in all : e[2] <= v}
           n == Cardinality(all)
<1>1. Valued(all) /\ d.all = DurationSummary(all)
  BY DeliveryStatsAre
<1>2. IsFiniteSet(all) /\ n \in Nat
  BY <1>1, FS_CardinalityType DEF Valued
<1>3. /\ g.shipments = n /\ g.day = Cardinality(upTo(24)) /\ g.twoDays = Cardinality(upTo(48))
  BY SpeedWithin
<1>4. /\ d.all.count = n /\ d.all.median = TwiceMedian(all)
      /\ n # 0 => d.all.p90 = Ranked(all, (9 * n + 9) \div 10)
  BY <1>1, SummaryIs
\* More values are within the larger bound.
<1>5. ASSUME NEW k \in 1..n, NEW v \in Nat, Ranked(all, k) <= v
      PROVE  Cardinality(upTo(v)) >= k
  <2> DEFINE r == Ranked(all, k)
  <2>1. r \in Nat /\ Cardinality(upTo(r)) >= k
    BY <1>1, RankIs
  <2>2. upTo(r) \subseteq upTo(v)
    <3>1. \A e \in all : e[2] \in Nat
      BY <1>1 DEF Valued
    <3> QED BY <1>5, <2>1, <3>1
  <2>3. IsFiniteSet(upTo(v))
    BY <1>2, FS_Subset
  <2> HIDE DEF upTo, r
  <2>4. /\ Cardinality(upTo(r)) <= Cardinality(upTo(v))
        /\ Cardinality(upTo(r)) \in Nat /\ Cardinality(upTo(v)) \in Nat
    BY <2>2, <2>3, PartOf
  <2>5. k \in Int
    OBVIOUS
  <2> QED BY <2>1, <2>4, <2>5
<1>6. Cardinality(upTo(24)) \in Nat /\ Cardinality(upTo(48)) \in Nat
  BY <1>2, PartOf
<1>7. CASE n = 0
  <2>1. d.all.count % 2 = 0
    BY <1>4, <1>7
  <2>2. 10 * g.twoDays >= 9 * g.shipments
    <3> HIDE DEF n, upTo
    <3> QED BY <1>3, <1>6, <1>7
  <2> QED BY <1>3, <1>4, <2>1, <2>2
<1>8. CASE n # 0
  <2> DEFINE a == (n + 1) \div 2
             b == (n + 2) \div 2
             c == (9 * n + 9) \div 10
             low == Ranked(all, a)
             high == Ranked(all, b)
  <2>1. /\ a \in 1..n /\ c \in 1..n /\ low \in Nat /\ high \in Nat /\ low <= high
        /\ TwiceMedian(all) = low + high
    BY <1>1, <1>8, MedianIs
  <2>2. d.all.p90 <= 48 => 10 * g.twoDays >= 9 * g.shipments
    <3> SUFFICES ASSUME d.all.p90 <= 48 PROVE 10 * g.twoDays >= 9 * g.shipments
      OBVIOUS
    <3>1. Ranked(all, c) <= 48
      BY <1>4, <1>8
    <3>2. Cardinality(upTo(48)) >= c
      <4> HIDE DEF c, upTo, n, all
      <4> QED BY <1>5, <2>1, <3>1
    <3> DEFINE m == Cardinality(upTo(48))
    <3>3. g.twoDays = m /\ g.shipments = n /\ m \in Nat /\ m >= c
      BY <1>3, <1>6, <3>2
    <3> HIDE DEF m, n
    <3>4. 10 * m >= 9 * n
      BY <1>2, <3>3
    <3> QED BY <3>3, <3>4
  <2>3. d.all.median <= 48 => 2 * g.day >= g.shipments \/ d.all.count % 2 = 0
    <3> SUFFICES ASSUME d.all.median <= 48, n % 2 # 0 PROVE 2 * g.day >= g.shipments
      BY <1>4
    <3>1. a = b
      <4> HIDE DEF n
      <4> QED BY <1>2
    <3>2. low = high /\ low + high <= 48
      BY <1>4, <2>1, <3>1
    <3>3. low <= 24
      <4> HIDE DEF low, high
      <4> QED BY <2>1, <3>2
    <3>4. Cardinality(upTo(24)) >= a
      <4> HIDE DEF a, upTo, n, all
      <4> QED BY <1>5, <2>1, <3>3 DEF low
    <3> DEFINE m == Cardinality(upTo(24))
    <3>5. g.day = m /\ g.shipments = n /\ m \in Nat /\ m >= a
      BY <1>3, <1>6, <3>4
    <3> HIDE DEF m, n
    <3>6. 2 * m >= n
      BY <1>2, <3>5
    <3> QED BY <3>5, <3>6
  <2> QED BY <1>3, <1>4, <2>2, <2>3
<1> QED BY <1>7, <1>8

-----------------------------------------------------------------------------
(* Medians of baskets.                                                     *)

\* A rounded median is within the values.
LEMMA MedianWithin ==
    ASSUME NEW E, Valued(E), NEW N \in Nat, \A e \in E : e[2] <= N
    PROVE  Rounded(TwiceMedian(E), 2) \in 0..N
<1> DEFINE n == Cardinality(E)
           m == TwiceMedian(E)
<1>1. Rounded(m, 2) = (2 * m + 2) \div 4
  BY DEF Rounded
<1>2. CASE n = 0
  <2>1. m = 0
    BY <1>2 DEF TwiceMedian
  <2> HIDE DEF m
  <2>2. (2 * m + 2) \div 4 \in 0..N
    BY <2>1
  <2> QED BY <1>1, <2>2 DEF m
<1>3. CASE n # 0
  <2> DEFINE low == Ranked(E, (n + 1) \div 2)
             high == Ranked(E, (n + 2) \div 2)
  <2>1. /\ low \in Nat /\ high \in Nat /\ low <= high /\ m = low + high
        /\ (n + 2) \div 2 \in 1..n
    BY <1>3, MedianIs
  <2>2. \E e \in E : high = e[2]
    BY <2>1, RankIs
  <2> HIDE DEF low, high, m
  <2>3. high <= N
    BY <2>2
  <2>4. (2 * m + 2) \div 4 \in 0..N
    BY <2>1, <2>3
  <2> QED BY <1>1, <2>4 DEF m
<1> QED BY <1>2, <1>3

\* What the lines of baskets were paid for.
PaidFor(t, L) == SumFunction([l \in L |-> Item(t, l).paid])
PaidOf(t) == [l \in Lines(t, DOMAIN t) |-> Item(t, l).paid]

LEMMA PaidIs ==
    ASSUME NEW t, Table(t), NEW S \in SUBSET DOMAIN t, NEW L \in SUBSET Purchases(t, S)
    PROVE  /\ PaidFor(t, L) = SumFunctionOnSet(PaidOf(t), L) /\ PaidFor(t, L) \in Nat
           /\ IsFiniteSet(L) /\ Summable(PaidOf(t), L)
           /\ \A l \in L : PaidOf(t)[l] \in Nat /\ PaidOf(t)[l] = Item(t, l).paid
<1> DEFINE f == [l \in L |-> Item(t, l).paid]
<1>1. IsFiniteSet(L)
  BY LinesNarrow, FS_Subset
<1>2. L \subseteq Lines(t, DOMAIN t)
  <2>1. L \subseteq Lines(t, S)
    BY LinesNarrow
  <2>2. Lines(t, S) \subseteq Lines(t, DOMAIN t)
    BY DEF Lines
  <2> QED BY <2>1, <2>2
<1>3. \A l \in L : Item(t, l).paid \in Nat
  BY LinesNarrow, ItemIs
<1>4. \A l \in L : f[l] \in Nat /\ f[l] = PaidOf(t)[l] /\ f[l] = Item(t, l).paid
  BY <1>2, <1>3 DEF PaidOf
<1>5. DOMAIN f = L /\ PaidFor(t, L) = SumFunction(f)
  BY DEF PaidFor
<1> HIDE DEF f
<1>6. Summable(f, L) /\ Summable(PaidOf(t), L)
  BY <1>1, <1>4 DEF Summable
<1>7. SumFunctionOnSet(f, L) = SumFunctionOnSet(PaidOf(t), L) /\ SumFunctionOnSet(f, L) \in Nat
  BY <1>1, <1>4, <1>6, SumOfEquals, SumIsNat
<1> QED BY <1>1, <1>4, <1>5, <1>6, <1>7 DEF SumFunction

LEMMA MediansFit ==
    ASSUME NEW t, Table(t), NEW S \in SUBSET DOMAIN t, NEW g, g = Baskets(t, S),
           NEW m, m = BasketMedians(t, S)
    PROVE  m.single <= g.singleValue /\ m.multi <= g.value - g.singleValue
<1> DEFINE retained == Retained(t, S)
           of(r) == {l \in retained : l[1] = r}
           baskets == OrdersOf(retained)
           single == {r \in baskets : Cardinality(of(r)) = 1}
           alone == UNION {of(r) : r \in single}
           values(R) == {<<r, PaidFor(t, of(r))>> : r \in R}
           median(R) == Rounded(TwiceMedian(values(R)), 2)
<1>1. m = [single |-> median(single), multi |-> median(baskets \ single)]
  BY Zenon DEF BasketMedians, SumOf, PaidFor
<1>2. m.single = median(single) /\ m.multi = median(baskets \ single)
  <2> HIDE DEF median, single, baskets
  <2> QED BY <1>1
<1>3. g.value = PaidFor(t, retained) /\ g.singleValue = PaidFor(t, alone)
  BY Zenon DEF Baskets, SumOf, PaidFor
<1>4. /\ retained \in SUBSET Purchases(t, S) /\ IsFiniteSet(retained)
  BY LinesNarrow
<1>5. IsFiniteSet(baskets)
  BY <1>4, ProductsAre
<1>6. /\ \A r : IsFiniteSet(of(r)) /\ of(r) \in SUBSET retained
      /\ alone \in SUBSET retained
  <2>1. \A r : of(r) \in SUBSET retained
    OBVIOUS
  <2> HIDE DEF of, retained
  <2>2. \A r : IsFiniteSet(of(r))
    BY <1>4, <2>1, FS_Subset
  <2>3. alone \in SUBSET retained
    BY <2>1
  <2> QED BY <2>1, <2>2, <2>3
<1> DEFINE f == PaidOf(t)
           sum(L) == SumFunctionOnSet(f, L)
<1>7. \A L \in SUBSET retained : /\ PaidFor(t, L) = sum(L) /\ sum(L) \in Nat /\ Summable(f, L)
                                 /\ IsFiniteSet(L) /\ \A l \in L : f[l] \in Nat
  <2> SUFFICES ASSUME NEW L \in SUBSET retained
               PROVE  /\ PaidFor(t, L) = sum(L) /\ sum(L) \in Nat /\ Summable(f, L)
                      /\ IsFiniteSet(L) /\ \A l \in L : f[l] \in Nat
    OBVIOUS
  <2>1. L \in SUBSET Purchases(t, S)
    BY <1>4
  <2> HIDE DEF retained
  <2> QED BY <2>1, PaidIs
\* The median of the values of baskets within a set of lines is within its value.
<1>8. ASSUME NEW R \in SUBSET baskets, NEW L \in SUBSET retained, \A r \in R : of(r) \subseteq L
      PROVE  median(R) \in 0..sum(L)
  <2> DEFINE h == [r \in R |-> <<r, PaidFor(t, of(r))>>]
             E == {h[r] : r \in R}
  <2>1. values(R) = E
    OBVIOUS
  <2>2. IsFiniteSet(E)
    <3>1. IsFiniteSet(R)
      BY <1>5, FS_Subset
    <3> HIDE DEF h
    <3> QED BY <3>1, ImageIs
  <2>3. ASSUME NEW r \in R PROVE PaidFor(t, of(r)) \in Nat /\ PaidFor(t, of(r)) <= sum(L)
    <3>1. of(r) \in SUBSET L /\ of(r) \in SUBSET retained
      BY <1>6, <1>8
    <3> HIDE DEF of, retained
    <3>2. PaidFor(t, of(r)) = sum(of(r)) /\ sum(of(r)) \in Nat
      BY <1>7, <3>1
    <3>3. sum(of(r)) <= sum(L)
      BY <1>7, <1>8, <3>1, SumOfPart
    <3> HIDE DEF sum
    <3> QED BY <3>2, <3>3
  <2>4. \A e \in E : e[2] \in Nat /\ e[2] <= sum(L)
    <3> SUFFICES ASSUME NEW r \in R PROVE h[r][2] \in Nat /\ h[r][2] <= sum(L)
      OBVIOUS
    <3>1. h[r][2] = PaidFor(t, of(r))
      OBVIOUS
    <3> HIDE DEF h, of, sum
    <3> QED BY <2>3, <3>1
  <2>5. Valued(E) /\ sum(L) \in Nat
    BY <1>7, <1>8, <2>2, <2>4 DEF Valued
  <2> HIDE DEF E, sum
  <2>6. Rounded(TwiceMedian(E), 2) \in 0..sum(L)
    BY <2>4, <2>5, MedianWithin
  <2> QED BY <2>1, <2>6
<1>9. m.single <= g.singleValue
  <2>1. \A r \in single : of(r) \subseteq alone
    OBVIOUS
  <2>2. single \in SUBSET baskets
    OBVIOUS
  <2> HIDE DEF alone, single, of, baskets, retained, median
  <2>3. median(single) \in 0..sum(alone) /\ sum(alone) \in Nat /\ PaidFor(t, alone) = sum(alone)
    BY <1>6, <1>7, <1>8, <2>1, <2>2
  <2> HIDE DEF sum
  <2> QED BY <1>2, <1>3, <2>3
<1>10. m.multi <= g.value - g.singleValue
  <2> DEFINE rest == retained \ alone
             multi == baskets \ single
  <2>1. \A r \in multi : of(r) \subseteq rest
    OBVIOUS
  <2>2. multi \in SUBSET baskets /\ rest \in SUBSET retained
    OBVIOUS
  <2>3. alone \cup rest = retained /\ alone \cap rest = {}
    BY <1>6
  <2>4. m.multi = median(multi)
    BY <1>2
  <2> HIDE DEF alone, single, of, baskets, median, rest, multi
  <2>5. median(multi) \in 0..sum(rest)
    BY <1>8, <2>1, <2>2
  <2> HIDE DEF retained
  <2>6. /\ sum(rest) \in Nat /\ sum(alone) \in Nat /\ Summable(f, rest) /\ Summable(f, alone)
        /\ PaidFor(t, alone) = sum(alone) /\ PaidFor(t, retained) = sum(retained)
    BY <1>6, <1>7, <2>2
  <2>7. sum(retained) = sum(alone) + sum(rest)
    <3>1. sum(alone \cup rest) = sum(alone) + sum(rest)
      BY <2>3, <2>6, SumOfUnion
    <3> QED BY <2>3, <3>1
  <2> HIDE DEF sum
  <2> QED BY <1>3, <2>4, <2>5, <2>6, <2>7
<1> QED BY <1>9, <1>10

-----------------------------------------------------------------------------
(* The insights of one report.                                             *)

LEMMA DaysFitMonths ==
    ASSUME NEW t, Table(t), NEW S \in SUBSET DOMAIN t, NEW g,
           g.months = MonthStats(t, S), g.dates = InsightDates(t, S),
           g.day_series = OrderDaySeries(t, S),
           NEW months, months = RetainedMonths(g), NEW gaps, gaps = DayGaps(g.day_series)
    PROVE  /\ SumFunction(g.day_series) = g.dates.orders
           /\ Cardinality(DOMAIN g.day_series) = g.dates.days
           /\ SumFunction([m \in DOMAIN months |-> months[m].orders]) = g.dates.orders
           /\ DOMAIN months = Months(DOMAIN g.day_series)
           /\ PeakMonth(months, LAMBDA m : m.orders) # 0 =>
                 months[PeakMonth(months, LAMBDA m : m.orders)].orders >= gaps.most
           /\ gaps.several = 0 <=> g.dates.orders = g.dates.days
           /\ LongestStreak(DOMAIN months) \in 0..Cardinality(DOMAIN months)
           /\ gaps.longest <= gaps.total
           /\ gaps.total + 1 >= g.dates.days
<1> DEFINE s == g.day_series
           h == [m \in DOMAIN months |-> months[m].orders]
<1>1. /\ DOMAIN s = BoughtDays(t, S) /\ IsFiniteSet(DOMAIN s) /\ DOMAIN s \in SUBSET Day
      /\ SumFunction(s) = Cardinality(Bought(t, S))
      /\ \A d \in DOMAIN s : s[d] \in Nat \ {0}
  BY SeriesAddsUp
<1>2. /\ g.dates.days = Cardinality(BoughtDays(t, S))
      /\ g.dates.orders = Cardinality(Bought(t, S))
  BY DatesAre
<1>3. DOMAIN h = DOMAIN months /\ \A m \in DOMAIN months : h[m] = months[m].orders
  OBVIOUS
<1> HIDE DEF h
<1>4. /\ DOMAIN months = Months(BoughtDays(t, S))
      /\ IsFiniteSet(DOMAIN months) /\ DOMAIN months \in SUBSET Nat
      /\ SumFunction(h) = Cardinality(Bought(t, S))
  BY <1>3, MonthsAddUp
<1>5. /\ gaps.most = Peak(s)
      /\ gaps.several = Cardinality({d \in DOMAIN s : s[d] > 1})
      /\ gaps.longest <= gaps.total
      /\ gaps.total + 1 >= Cardinality(DOMAIN s)
  BY <1>1, GapsFit
<1>6. gaps.several = 0 <=> g.dates.orders = g.dates.days
  <2> DEFINE T == {d \in DOMAIN s : s[d] > 1}
  <2>1. T = {d \in DOMAIN s : s[d] > 1} /\ gaps.several = Cardinality(T)
    BY <1>5
  <2> HIDE DEF T
  <2>2. Cardinality(T) = 0 <=> SumFunctionOnSet(s, DOMAIN s) = Cardinality(DOMAIN s)
    BY <1>1, <2>1, SumAboveOnes
  <2> QED BY <1>1, <1>2, <2>1, <2>2 DEF SumFunction
<1>7. LongestStreak(DOMAIN months) \in 0..Cardinality(DOMAIN months)
  BY <1>4, StreaksFit
<1> DEFINE b == PeakMonth(months, LAMBDA m : m.orders)
<1>8. b # 0 => months[b].orders >= gaps.most
  <2> SUFFICES ASSUME b # 0 PROVE months[b].orders >= gaps.most
    OBVIOUS
  <2>1. /\ b \in DOMAIN months
        /\ \A m \in DOMAIN months : months[b].orders >= months[m].orders
    BY <1>4, PeakMonthIs
  <2> HIDE DEF b
  <2>2. months[b].orders >= Peak(g.day_series)
    BY <2>1, BusiestIsFull
  <2> QED BY <1>5, <2>2
<1> QED BY <1>1, <1>2, <1>4, <1>5, <1>6, <1>7, <1>8 DEF h

LEMMA InsightsFit ==
    ASSUME NEW t, Table(t), NEW S \in SUBSET DOMAIN t, NEW g,
           g.months = MonthStats(t, S), g.dates = InsightDates(t, S),
           g.day_series = OrderDaySeries(t, S),
           g.hours = HourStats(t, S), g.weekdays = WeekdayStats(t, S),
           g.timed = TimedOrders(t, S), g.order_states = OrderStates(t, S),
           g.item_totals = ItemTotals(t, S), g.returns = TimedReturns(t, S),
           g.speed = DeliverySpeed(t, S), g.deliveries = DeliveryStats(t, S),
           g.brands = TopBrands(t, S), g.branded = Cardinality(Branded(t, S)),
           g.repeat = RepeatPurchases(t, S), g.baskets = Baskets(t, S),
           g.medians = BasketMedians(t, S), g.compositions = Compositions(t, S)
    PROVE  InsightsAddUp(g)
<1> DEFINE months == RetainedMonths(g)
           gaps == DayGaps(g.day_series)
<1>1. /\ SumFunction(g.day_series) = g.dates.orders
      /\ Cardinality(DOMAIN g.day_series) = g.dates.days
      /\ SumFunction([m \in DOMAIN months |-> months[m].orders]) = g.dates.orders
      /\ DOMAIN months = Months(DOMAIN g.day_series)
      /\ PeakMonth(months, LAMBDA m : m.orders) # 0 =>
            months[PeakMonth(months, LAMBDA m : m.orders)].orders >= gaps.most
      /\ gaps.several = 0 <=> g.dates.orders = g.dates.days
      /\ LongestStreak(DOMAIN months) \in 0..Cardinality(DOMAIN months)
      /\ gaps.longest <= gaps.total
      /\ gaps.total + 1 >= g.dates.days
  BY DaysFitMonths
<1>2. /\ SumFunction(g.hours) <= g.timed.timed
      /\ SumFunctionOnSet(g.weekdays, DOMAIN g.weekdays \cap {0, 6}) <= g.timed.weekend
  BY BoughtAreTimed
<1>3. /\ g.timed.night + g.timed.late <= g.timed.timed
      /\ g.timed.nightCanceled + g.timed.otherCanceled <= g.order_states.canceled
  <2>1. /\ g.timed.timed \in Nat /\ g.timed.night + g.timed.late \in 0..g.timed.timed
        /\ g.timed.nightCanceled + g.timed.otherCanceled <= OrderStates(t, S).canceled
    BY TimedWithin
  <2> QED BY <2>1
<1>4. g.returns.nightUnits + g.returns.otherUnits <= g.item_totals.units
  BY ReturnsWithin
<1>5. /\ g.speed.shipments = g.deliveries.all.count
      /\ g.deliveries.all.p90 <= 48 => 10 * g.speed.twoDays >= 9 * g.speed.shipments
      /\ g.deliveries.all.median <= 48 => 2 * g.speed.day >= g.speed.shipments
            \/ g.deliveries.all.count % 2 = 0
  BY SpeedFits
<1>6. /\ SumFunction(g.brands) <= g.branded
      /\ g.brands = NoRows <=> g.branded = 0
      /\ g.branded <= g.repeat.lines
  <2>1. /\ IsFiniteSet(Branded(t, S)) /\ Branded(t, S) \subseteq Retained(t, S)
        /\ SumFunctionOnSet(g.brands, DOMAIN g.brands) <= Cardinality(Branded(t, S))
        /\ g.brands = NoRows <=> Cardinality(Branded(t, S)) = 0
    BY BrandsAre
  <2>2. g.repeat.lines = Cardinality(Retained(t, S))
    BY RepeatWithin
  <2>3. IsFiniteSet(Retained(t, S))
    BY LinesNarrow
  <2>4. Cardinality(Branded(t, S)) <= Cardinality(Retained(t, S))
    BY <2>1, <2>3, PartOf
  <2> QED BY <2>1, <2>2, <2>4 DEF SumFunction
<1>7. /\ g.repeat.lines = g.baskets.lines
      /\ g.repeat.occasions = g.repeat.products + g.repeat.choices
      /\ g.compositions.orders <= g.baskets.orders
  <2>1. g.repeat.lines = Cardinality(Retained(t, S))
        /\ g.repeat.occasions = g.repeat.products + g.repeat.choices
    BY RepeatWithin
  <2>2. /\ g.baskets.lines = Cardinality(Retained(t, S))
        /\ g.baskets.orders = Cardinality(OrdersOf(Retained(t, S)))
    BY BasketsWithin
  <2>3. g.compositions.orders <= Cardinality(OrdersOf(Retained(t, S)))
    BY CompositionsWithin
  <2> QED BY <2>1, <2>2, <2>3
<1>8. /\ g.medians.single <= g.baskets.singleValue
      /\ g.medians.multi <= g.baskets.value - g.baskets.singleValue
  BY MediansFit
<1> QED BY <1>1, <1>2, <1>3, <1>4, <1>5, <1>6, <1>7, <1>8, Zenon DEF InsightsAddUp

-----------------------------------------------------------------------------
(* Fractions and leaders.                                                  *)

LEMMA DivIs ==
    ASSUME NEW x \in Nat, NEW y \in Nat \ {0}
    PROVE  /\ x \div y \in Nat /\ y * (x \div y) <= x
           /\ \A q \in Nat : y * q <= x => q <= x \div y
OBVIOUS

\* Rounding keeps the order of fractions.
LEMMA RoundedGrows ==
    ASSUME NEW a \in Nat, NEW b \in Nat \ {0}, NEW c \in Nat, NEW d \in Nat \ {0},
           a * d <= c * b
    PROVE  Rounded(a, b) <= Rounded(c, d)
<1> DEFINE x == 2 * a + b
           y == 2 * b
           u == 2 * c + d
           v == 2 * d
           q == x \div y
<1>1. x \in Nat /\ y \in Nat \ {0} /\ u \in Nat /\ v \in Nat \ {0}
  OBVIOUS
<1>2. q \in Nat /\ y * q <= x
  <2> HIDE DEF x, y
  <2> QED BY <1>1, DivIs
<1>3. v * q <= u
  <2> HIDE DEF q
  <2>1. (y * q) * d <= x * d
    <3> DEFINE p == y * q
    <3>1. p \in Nat /\ p <= x
      BY <1>1, <1>2
    <3> HIDE DEF p, x, y
    <3>2. p * d <= x * d
      BY <1>1, <3>1
    <3> QED BY <3>2 DEF p
  <2>2. x * d <= u * b
    BY <1>1
  <2>3. (y * q) * d = (v * q) * b
    BY <1>1, <1>2
  <2>4. (v * q) * b <= u * b
    BY <1>1, <1>2, <2>1, <2>2, <2>3
  <2> DEFINE p == v * q
  <2>5. p \in Nat /\ p * b <= u * b
    BY <1>1, <1>2, <2>4
  <2> HIDE DEF p, u
  <2>6. p <= u
    BY <1>1, <2>5
  <2> QED BY <2>6 DEF p
<1>4. q <= u \div v
  <2> HIDE DEF q, u, v
  <2> QED BY <1>1, <1>2, <1>3, DivIs
<1> QED BY <1>4 DEF Rounded

\* p is ahead of q in the first measure in which they differ.
Ahead(M, p, q) ==
    \E k \in 1..3 : /\ M[p][k] > M[q][k]
                    /\ \A j \in 1..(k - 1) : M[p][j] = M[q][j]

LEMMA AheadIs ==
    ASSUME NEW M, NEW p, NEW q
    PROVE  Ahead(M, p, q) <=> \/ M[p][1] > M[q][1]
                              \/ M[p][1] = M[q][1] /\ M[p][2] > M[q][2]
                              \/ /\ M[p][1] = M[q][1] /\ M[p][2] = M[q][2]
                                 /\ M[p][3] > M[q][3]
<1> DEFINE A(k) == /\ M[p][k] > M[q][k]
                   /\ \A j \in 1..(k - 1) : M[p][j] = M[q][j]
<1>1. 1..(1 - 1) = {} /\ 1..(2 - 1) = {1} /\ 1..(3 - 1) = {1, 2} /\ 1..3 = {1, 2, 3}
  OBVIOUS
<1>2. A(1) <=> M[p][1] > M[q][1]
  BY <1>1
<1>3. A(2) <=> M[p][1] = M[q][1] /\ M[p][2] > M[q][2]
  BY <1>1
<1>4. A(3) <=> /\ M[p][1] = M[q][1] /\ M[p][2] = M[q][2]
               /\ M[p][3] > M[q][3]
  BY <1>1
<1>5. Ahead(M, p, q) <=> \E k \in {1, 2, 3} : A(k)
  BY <1>1 DEF Ahead
<1> HIDE DEF A
<1> QED BY <1>2, <1>3, <1>4, <1>5

LEMMA LeaderExists ==
    ASSUME NEW P, IsFiniteSet(P), P # {}, NEW M, \A p \in P : \A k \in 1..3 : M[p][k] \in Int
    PROVE  \E p \in P : \A q \in P : ~Ahead(M, q, p)
<1> DEFINE R == {z \in P \X P : ~Ahead(M, z[1], z[2])}
<1>1. \A x, y \in P : <<x, y>> \in R <=> ~Ahead(M, x, y)
  OBVIOUS
<1>2. \A x \in P : M[x][1] \in Int /\ M[x][2] \in Int /\ M[x][3] \in Int
  OBVIOUS
<1> HIDE DEF R
<1>3. \A x, y \in P : <<x, y>> \in R \/ <<y, x>> \in R
  <2> SUFFICES ASSUME NEW x \in P, NEW y \in P
               PROVE  ~Ahead(M, x, y) \/ ~Ahead(M, y, x)
    BY <1>1
  <2> QED BY <1>2, AheadIs
<1>4. \A x, y, z \in P : <<x, y>> \in R /\ <<y, z>> \in R => <<x, z>> \in R
  <2> SUFFICES ASSUME NEW x \in P, NEW y \in P, NEW z \in P,
                      ~Ahead(M, x, y), ~Ahead(M, y, z)
               PROVE  ~Ahead(M, x, z)
    BY <1>1
  <2> QED BY <1>2, AheadIs
<1>5. PICK p \in P : \A q \in P : <<q, p>> \in R
  BY <1>3, <1>4, TopExists
<1> QED BY <1>1, <1>5

-----------------------------------------------------------------------------
(* Lines of products.                                                      *)

ProductLines(t, S, p) == {l \in Eligible(t, S) : Key(Item(t, l)) = p}
SpentLines(t, S, p) == {l \in ProductLines(t, S, p) : Unaltered(Item(t, l))}
QuantityOf(t) == [l \in Lines(t, DOMAIN t) |-> Item(t, l).quantity]
KeptOf(t) == [l \in Lines(t, DOMAIN t) |-> RetainedUnits(Item(t, l))]

LEMMA SameSum ==
    ASSUME NEW f, NEW L, DOMAIN f = L, IsFiniteSet(L), NEW h,
           \A x \in L : f[x] \in Nat /\ f[x] = h[x]
    PROVE  /\ SumFunction(f) = SumFunctionOnSet(h, L) /\ SumFunction(f) \in Nat
           /\ Summable(h, L)
<1>1. Summable(f, L) /\ Summable(h, L)
  BY DEF Summable
<1>2. SumFunctionOnSet(f, L) = SumFunctionOnSet(h, L) /\ SumFunctionOnSet(f, L) \in Nat
  BY <1>1, SumOfEquals, SumIsNat
<1> QED BY <1>1, <1>2 DEF SumFunction

LEMMA EligibleAre ==
    ASSUME NEW t, Table(t), NEW S \in SUBSET DOMAIN t
    PROVE  /\ IsFiniteSet(Eligible(t, S)) /\ Eligible(t, S) \in SUBSET Purchases(t, S)
           /\ \A l \in Eligible(t, S) :
                 /\ l \in Lines(t, DOMAIN t) /\ l[1] \in S
                 /\ Item(t, l).quantity \in Nat \ {0} /\ Item(t, l).paid \in Nat
                 /\ RetainedUnits(Item(t, l)) \in Nat \ {0}
                 /\ PaidOf(t)[l] = Item(t, l).paid
                 /\ QuantityOf(t)[l] = Item(t, l).quantity
                 /\ KeptOf(t)[l] = RetainedUnits(Item(t, l))
<1>1. /\ IsFiniteSet(Eligible(t, S)) /\ Eligible(t, S) \in SUBSET Purchases(t, S)
  BY LinesNarrow
<1>2. ASSUME NEW l \in Eligible(t, S)
      PROVE  /\ l \in Lines(t, DOMAIN t) /\ l[1] \in S
             /\ Item(t, l).quantity \in Nat \ {0} /\ Item(t, l).paid \in Nat
             /\ RetainedUnits(Item(t, l)) \in Nat \ {0}
             /\ PaidOf(t)[l] = Item(t, l).paid
             /\ QuantityOf(t)[l] = Item(t, l).quantity
             /\ KeptOf(t)[l] = RetainedUnits(Item(t, l))
  <2>1. l \in Purchases(t, S) /\ l \in Lines(t, S)
    BY <1>1, LinesNarrow
  <2>2. l \in Lines(t, DOMAIN t)
    BY <2>1 DEF Lines
  <2>3. l[1] \in S /\ Item(t, l) \in ItemRow /\ ValidItem(Item(t, l))
    BY <2>1, LinesNarrow
  <2>4. /\ Item(t, l).quantity \in Nat \ {0} /\ Item(t, l).paid \in Nat
        /\ RetainedUnits(Item(t, l)) \in Nat
    BY <2>3, ItemIs
  <2>5. RetainedUnits(Item(t, l)) > 0
    BY DEF Eligible
  <2>6. RetainedUnits(Item(t, l)) \in Nat \ {0}
    BY <2>4, <2>5
  <2>7. /\ PaidOf(t)[l] = Item(t, l).paid
        /\ QuantityOf(t)[l] = Item(t, l).quantity
        /\ KeptOf(t)[l] = RetainedUnits(Item(t, l))
    BY <2>2 DEF PaidOf, QuantityOf, KeptOf
  <2> QED BY <2>2, <2>3, <2>4, <2>6, <2>7
<1> QED BY <1>1, <1>2

LEMMA AggregatesAre ==
    ASSUME NEW t, Table(t), NEW S \in SUBSET DOMAIN t, NEW a, a = ProductAggregates(t, S)
    PROVE  /\ DOMAIN a = ProductsOf(t, Eligible(t, S)) /\ IsFiniteSet(DOMAIN a)
           /\ \A p \in DOMAIN a :
                 /\ a[p].orders \in Nat /\ a[p].units \in Nat
                 /\ a[p].paid \in Nat /\ a[p].spendUnits \in Nat
                 /\ a[p].units = SumFunctionOnSet(KeptOf(t), ProductLines(t, S, p))
                 /\ a[p].paid = SumFunctionOnSet(PaidOf(t), SpentLines(t, S, p))
                 /\ a[p].spendUnits = SumFunctionOnSet(QuantityOf(t), SpentLines(t, S, p))
                 /\ Summable(KeptOf(t), ProductLines(t, S, p))
<1> DEFINE of(p) == ProductLines(t, S, p)
           spent(p) == SpentLines(t, S, p)
           k(p) == [l \in of(p) |-> RetainedUnits(Item(t, l))]
           c(p) == [l \in spent(p) |-> Item(t, l).paid]
           q(p) == [l \in spent(p) |-> Item(t, l).quantity]
           entry(p) == [orders |-> Cardinality(OrdersOf(of(p))), units |-> SumFunction(k(p)),
                        paid |-> SumFunction(c(p)), spendUnits |-> SumFunction(q(p))]
<1>1. a = [p \in ProductsOf(t, Eligible(t, S)) |-> entry(p)]
  BY Zenon DEF ProductAggregates, SumOf, ProductLines, SpentLines
<1>2. IsFiniteSet(Eligible(t, S)) /\ Eligible(t, S) \in SUBSET Purchases(t, S)
  BY EligibleAre
<1>3. IsFiniteSet(ProductsOf(t, Eligible(t, S)))
  BY <1>2, ProductsAre
<1>4. DOMAIN a = ProductsOf(t, Eligible(t, S)) /\ \A p \in DOMAIN a : a[p] = entry(p)
  <2> HIDE DEF entry
  <2> QED BY <1>1
<1>5. ASSUME NEW p \in DOMAIN a
      PROVE  /\ a[p].orders \in Nat /\ a[p].units \in Nat
             /\ a[p].paid \in Nat /\ a[p].spendUnits \in Nat
             /\ a[p].units = SumFunctionOnSet(KeptOf(t), of(p))
             /\ a[p].paid = SumFunctionOnSet(PaidOf(t), spent(p))
             /\ a[p].spendUnits = SumFunctionOnSet(QuantityOf(t), spent(p))
             /\ Summable(KeptOf(t), of(p))
  <2> DEFINE n == Cardinality(OrdersOf(of(p)))
             K == k(p)
             C == c(p)
             Q == q(p)
             L == of(p)
             M == spent(p)
  <2>1. a[p] = [orders |-> n, units |-> SumFunction(K), paid |-> SumFunction(C),
                spendUnits |-> SumFunction(Q)]
    BY <1>4
  <2>2. /\ a[p].orders = n /\ a[p].units = SumFunction(K)
        /\ a[p].paid = SumFunction(C) /\ a[p].spendUnits = SumFunction(Q)
    <3> HIDE DEF n, K, C, Q
    <3> QED BY <2>1
  <2>3. L \in SUBSET Eligible(t, S) /\ M \in SUBSET Eligible(t, S)
    BY DEF ProductLines, SpentLines
  <2>4. IsFiniteSet(L) /\ IsFiniteSet(M) /\ L \in SUBSET Purchases(t, S)
    <3> HIDE DEF L, M
    <3> QED BY <1>2, <2>3, FS_Subset
  <2>5. n \in Nat
    <3>1. IsFiniteSet(OrdersOf(L))
      <4> HIDE DEF L
      <4> QED BY <2>4, ProductsAre
    <3> QED BY <3>1, FS_CardinalityType
  <2>6. DOMAIN K = L /\ DOMAIN C = M /\ DOMAIN Q = M
    OBVIOUS
  <2>7. /\ \A l \in L : K[l] \in Nat /\ K[l] = KeptOf(t)[l]
        /\ \A l \in M : C[l] \in Nat /\ C[l] = PaidOf(t)[l]
        /\ \A l \in M : Q[l] \in Nat /\ Q[l] = QuantityOf(t)[l]
    <3>1. \A l \in L : K[l] = RetainedUnits(Item(t, l))
      OBVIOUS
    <3>2. \A l \in M : C[l] = Item(t, l).paid /\ Q[l] = Item(t, l).quantity
      OBVIOUS
    <3> HIDE DEF K, C, Q, L, M
    <3> QED BY <2>3, <3>1, <3>2, EligibleAre
  <2> HIDE DEF n, K, C, Q
  <2>8. /\ SumFunction(K) = SumFunctionOnSet(KeptOf(t), L) /\ SumFunction(K) \in Nat
        /\ Summable(KeptOf(t), L)
    <3> HIDE DEF L
    <3> QED BY <2>4, <2>6, <2>7, SameSum
  <2>9. /\ SumFunction(C) = SumFunctionOnSet(PaidOf(t), M) /\ SumFunction(C) \in Nat
    <3> HIDE DEF M
    <3> QED BY <2>4, <2>6, <2>7, SameSum
  <2>10. /\ SumFunction(Q) = SumFunctionOnSet(QuantityOf(t), M) /\ SumFunction(Q) \in Nat
    <3> HIDE DEF M
    <3> QED BY <2>4, <2>6, <2>7, SameSum
  <2> QED BY <2>2, <2>5, <2>8, <2>9, <2>10
<1> QED BY <1>3, <1>4, <1>5

\* The units of all products are within those of the lines.
LEMMA UnitsFit ==
    ASSUME NEW t, Table(t), NEW S \in SUBSET DOMAIN t, NEW a, a = ProductAggregates(t, S),
           NEW c, c = ProductCoverage(t, S), NEW h, DOMAIN h = DOMAIN a,
           \A p \in DOMAIN a : h[p] = a[p].units
    PROVE  /\ SumFunction(h) <= c.units
           /\ Cardinality(DOMAIN a) = c.products
           /\ DOMAIN a = {} <=> c.identified = 0
<1> DEFINE E == Eligible(t, S)
           P == DOMAIN a
           A == [p \in P |-> ProductLines(t, S, p)]
           f == [l \in E |-> RetainedUnits(Item(t, l))]
<1>1. /\ P = ProductsOf(t, E) /\ IsFiniteSet(P)
      /\ \A p \in P : /\ h[p] = SumFunctionOnSet(KeptOf(t), A[p])
                      /\ Summable(KeptOf(t), A[p])
  BY AggregatesAre
<1>2. IsFiniteSet(E) /\ \A l \in E : f[l] \in Nat /\ f[l] = KeptOf(t)[l]
  BY EligibleAre
<1>3. /\ c.units = SumFunctionOnSet(f, E) /\ c.products = Cardinality(ProductsOf(t, E))
      /\ c.identified = Cardinality(Identified(t, E))
  BY CoverageWithin
<1>4. Disjoint(A, P)
  BY DEF Disjoint, ProductLines
<1>5. Together(A, P) \subseteq E
  BY DEF Together, ProductLines
<1> HIDE DEF A, f
<1>6. SumFunction(h) = SumFunctionOnSet(KeptOf(t), Together(A, P))
  <2>1. SumFunctionOnSet(h, P) = SumFunctionOnSet(KeptOf(t), Together(A, P))
    <3> HIDE DEF P, E
    <3> QED BY <1>1, <1>4, SumOfParts
  <2> QED BY <2>1 DEF SumFunction
<1>7. SumFunctionOnSet(f, E) = SumFunctionOnSet(KeptOf(t), E)
  <2>1. Summable(f, E)
    BY <1>2 DEF Summable
  <2> HIDE DEF E
  <2> QED BY <1>2, <2>1, SumOfEquals
<1>8. SumFunctionOnSet(KeptOf(t), Together(A, P)) <= SumFunctionOnSet(KeptOf(t), E)
  <2>1. \A l \in E : KeptOf(t)[l] \in Nat
    BY <1>2
  <2> HIDE DEF E, P
  <2> QED BY <1>2, <1>5, <2>1, SumOfPart
<1>9. P = {} <=> c.identified = 0
  <2>1. P = {} <=> Identified(t, E) = {}
    BY <1>1 DEF ProductsOf
  <2>2. IsFiniteSet(Identified(t, E))
    BY <1>2, FS_Subset DEF Identified
  <2>3. Cardinality(Identified(t, E)) = 0 <=> Identified(t, E) = {}
    BY <2>2, SizeOf
  <2> QED BY <1>3, <2>1, <2>3
<1> QED BY <1>1, <1>3, <1>6, <1>7, <1>8, <1>9

-----------------------------------------------------------------------------
(* Prices of units.                                                        *)

LEMMA FractionsOrder ==
    ASSUME NEW a \in Nat, NEW b \in Nat \ {0}, NEW c \in Nat, NEW d \in Nat \ {0},
           NEW e \in Nat, NEW f \in Nat \ {0}, a * d <= c * b, c * f <= e * d
    PROVE  a * f <= e * b
<1>1. (a * d) * f <= (c * b) * f
  <2> DEFINE x == a * d
             y == c * b
  <2>1. x \in Nat /\ y \in Nat /\ x <= y
    OBVIOUS
  <2> HIDE DEF x, y
  <2>2. x * f <= y * f
    BY <2>1
  <2> QED BY <2>2 DEF x, y
<1>2. (c * f) * b <= (e * d) * b
  <2> DEFINE x == c * f
             y == e * d
  <2>1. x \in Nat /\ y \in Nat /\ x <= y
    OBVIOUS
  <2> HIDE DEF x, y
  <2>2. x * b <= y * b
    BY <2>1
  <2> QED BY <2>2 DEF x, y
<1>3. /\ (a * d) * f = (a * f) * d /\ (c * b) * f = (c * f) * b
      /\ (e * d) * b = (e * b) * d
  OBVIOUS
<1>4. (a * f) * d <= (e * b) * d
  <2>1. (a * d) * f \in Nat /\ (c * b) * f \in Nat /\ (e * d) * b \in Nat
    OBVIOUS
  <2> QED BY <1>1, <1>2, <1>3, <2>1
<1> DEFINE x == a * f
           y == e * b
<1>5. x \in Nat /\ y \in Nat /\ x * d <= y * d
  BY <1>4
<1> HIDE DEF x, y
<1>6. x <= y
  BY <1>5
<1> QED BY <1>6 DEF x, y

PaidLines(t, S) ==
    {l \in Identified(t, Retained(t, S)) : Unaltered(Item(t, l)) /\ Item(t, l).paid > 0}

\* Of two lines, the unit of k costs at most that of l.
Cheaper(t, k, l) ==
    Item(t, k).paid * Item(t, l).quantity <= Item(t, l).paid * Item(t, k).quantity

LEMMA PaidLinesAre ==
    ASSUME NEW t, Table(t), NEW S \in SUBSET DOMAIN t
    PROVE  /\ IsFiniteSet(PaidLines(t, S))
           /\ \A l \in PaidLines(t, S) :
                 /\ Item(t, l).paid \in Nat \ {0} /\ Item(t, l).quantity \in Nat \ {0}
                 /\ l \in Eligible(t, S) /\ Key(Item(t, l)) # NoKey
           /\ \A l \in Eligible(t, S) :
                 Key(Item(t, l)) # NoKey /\ Unaltered(Item(t, l)) /\ Item(t, l).paid > 0
                    => l \in PaidLines(t, S)
           /\ \A k, l \in PaidLines(t, S) : Cheaper(t, k, l) \/ Cheaper(t, l, k)
           /\ \A k, l, m \in PaidLines(t, S) :
                 Cheaper(t, k, l) /\ Cheaper(t, l, m) => Cheaper(t, k, m)
<1>1. /\ PaidLines(t, S) \subseteq Retained(t, S) /\ Retained(t, S) \subseteq Purchases(t, S)
      /\ IsFiniteSet(Retained(t, S)) /\ Eligible(t, S) \subseteq Retained(t, S)
  BY LinesNarrow DEF PaidLines, Identified
<1>2. IsFiniteSet(PaidLines(t, S))
  BY <1>1, FS_Subset
<1>3. ASSUME NEW l \in PaidLines(t, S)
      PROVE  /\ Item(t, l).paid \in Nat \ {0} /\ Item(t, l).quantity \in Nat \ {0}
             /\ l \in Eligible(t, S) /\ Key(Item(t, l)) # NoKey
  <2>1. Item(t, l) \in ItemRow /\ ValidItem(Item(t, l))
    BY <1>1, LinesNarrow
  <2>2. /\ Unaltered(Item(t, l)) /\ Item(t, l).paid > 0 /\ Key(Item(t, l)) # NoKey
        /\ l \in Retained(t, S)
    BY DEF PaidLines, Identified
  <2>3. /\ Item(t, l).paid \in Nat /\ Item(t, l).quantity \in Nat \ {0}
        /\ RetainedUnits(Item(t, l)) = Item(t, l).quantity
    BY <2>1, <2>2, ItemIs
  <2>4. RetainedUnits(Item(t, l)) > 0
    BY <2>3
  <2> QED BY <2>2, <2>3, <2>4 DEF Eligible
<1>4. ASSUME NEW l \in Eligible(t, S), Key(Item(t, l)) # NoKey,
             Unaltered(Item(t, l)), Item(t, l).paid > 0
      PROVE  l \in PaidLines(t, S)
  BY <1>1, <1>4 DEF PaidLines, Identified
<1>5. ASSUME NEW k \in PaidLines(t, S), NEW l \in PaidLines(t, S)
      PROVE  Cheaper(t, k, l) \/ Cheaper(t, l, k)
  <2> DEFINE x == Item(t, k).paid * Item(t, l).quantity
             y == Item(t, l).paid * Item(t, k).quantity
  <2>1. x \in Nat /\ y \in Nat
    BY <1>3
  <2> HIDE DEF x, y
  <2>2. x <= y \/ y <= x
    BY <2>1
  <2> QED BY <2>2 DEF x, y, Cheaper
<1>6. ASSUME NEW k \in PaidLines(t, S), NEW l \in PaidLines(t, S), NEW m \in PaidLines(t, S),
             Cheaper(t, k, l), Cheaper(t, l, m)
      PROVE  Cheaper(t, k, m)
  <2> DEFINE a == Item(t, k).paid
             b == Item(t, k).quantity
             c == Item(t, l).paid
             d == Item(t, l).quantity
             e == Item(t, m).paid
             f == Item(t, m).quantity
  <2>1. /\ a \in Nat /\ b \in Nat \ {0} /\ c \in Nat /\ d \in Nat \ {0}
        /\ e \in Nat /\ f \in Nat \ {0}
    BY <1>3
  <2>2. a * d <= c * b /\ c * f <= e * d
    BY <1>6 DEF Cheaper
  <2> HIDE DEF a, b, c, d, e, f
  <2>3. a * f <= e * b
    BY <2>1, <2>2, FractionsOrder
  <2> QED BY <2>3 DEF Cheaper, a, b, e, f
<1> QED BY <1>2, <1>3, <1>4, <1>5, <1>6

\* The extreme prices are those of a line no other costs more, or less, than.
LEMMA UnitsOfPaid ==
    ASSUME NEW t, Table(t), NEW S \in SUBSET DOMAIN t
    PROVE  /\ PaidUnit(t, S, TRUE) = {} <=> PaidLines(t, S) = {}
           /\ \A unit \in PaidUnit(t, S, TRUE) : \E l \in PaidLines(t, S) :
                 /\ unit = Rounded(Item(t, l).paid, Item(t, l).quantity)
                 /\ \A k \in PaidLines(t, S) : Cheaper(t, k, l)
           /\ \A unit \in PaidUnit(t, S, FALSE) : \E l \in PaidLines(t, S) :
                 unit = Rounded(Item(t, l).paid, Item(t, l).quantity)
<1> DEFINE L == PaidLines(t, S)
           most == {l \in L : \A k \in L : Cheaper(t, k, l)}
           price(l) == Rounded(Item(t, l).paid, Item(t, l).quantity)
<1>1. PaidUnit(t, S, TRUE) = {price(l) : l \in most}
  <2>1. \A k, l \in L : Cheaper(t, k, l) <=> Item(t, l).paid * Item(t, k).quantity
                                               >= Item(t, k).paid * Item(t, l).quantity
    <3> SUFFICES ASSUME NEW k \in L, NEW l \in L
                 PROVE  Cheaper(t, k, l) <=> Item(t, l).paid * Item(t, k).quantity
                                               >= Item(t, k).paid * Item(t, l).quantity
      OBVIOUS
    <3> DEFINE x == Item(t, k).paid * Item(t, l).quantity
               y == Item(t, l).paid * Item(t, k).quantity
    <3>1. x <= y <=> y >= x
      <4>1. x \in Nat /\ y \in Nat
        BY PaidLinesAre
      <4> HIDE DEF x, y
      <4> QED BY <4>1
    <3> QED BY <3>1 DEF Cheaper
  <2> DEFINE high == {l \in L : \A k \in L : Item(t, l).paid * Item(t, k).quantity
                                               >= Item(t, k).paid * Item(t, l).quantity}
  <2>2. PaidUnit(t, S, TRUE) = {price(l) : l \in high}
    BY DEF PaidUnit, PaidLines
  <2>3. high = most
    <3> HIDE DEF L
    <3> QED BY <2>1
  <2> QED BY <2>2, <2>3
<1>2. \A unit \in PaidUnit(t, S, FALSE) : \E l \in L : unit = price(l)
  BY DEF PaidUnit, PaidLines
<1>3. L # {} => most # {}
  <2> SUFFICES ASSUME L # {} PROVE \E l \in L : \A k \in L : Cheaper(t, k, l)
    OBVIOUS
  <2> DEFINE R == {z \in L \X L : Cheaper(t, z[1], z[2])}
  <2>1. \A k, l \in L : <<k, l>> \in R <=> Cheaper(t, k, l)
    OBVIOUS
  <2> HIDE DEF R
  <2>2. IsFiniteSet(L) /\ \A k, l \in L : <<k, l>> \in R \/ <<l, k>> \in R
    BY <2>1, PaidLinesAre
  <2>3. \A k, l, m \in L : <<k, l>> \in R /\ <<l, m>> \in R => <<k, m>> \in R
    BY <2>1, PaidLinesAre
  <2> HIDE DEF L
  <2>4. PICK l \in L : \A k \in L : <<k, l>> \in R
    BY <2>2, <2>3, TopExists
  <2> QED BY <2>1, <2>4
<1>4. PaidUnit(t, S, TRUE) = {} <=> L = {}
  <2>1. {price(l) : l \in most} = {} <=> most = {}
    OBVIOUS
  <2>2. L = {} => most = {}
    OBVIOUS
  <2> HIDE DEF price, most
  <2> QED BY <1>1, <1>3, <2>1, <2>2
<1>5. \A unit \in PaidUnit(t, S, TRUE) : \E l \in L :
         unit = price(l) /\ \A k \in L : Cheaper(t, k, l)
  BY <1>1
<1> QED BY <1>2, <1>4, <1>5

-----------------------------------------------------------------------------
(* Leaders of the products.                                                *)

\* Three measures of each product, in the order in which they decide.
Measured(M, P) == DOMAIN M = P /\ \A p \in P : \A k \in 1..3 : M[p][k] \in Int

Leading(M, P) == {p \in P : \A q \in P : ~Ahead(M, q, p)}

LEMMA LeadingAre ==
    ASSUME NEW P, IsFiniteSet(P), NEW M, Measured(M, P)
    PROVE  /\ Leading(M, P) = {} <=> P = {}
           /\ \A p \in Leading(M, P), q \in P : M[q][1] <= M[p][1]
<1>1. P # {} => \E p \in P : \A q \in P : ~Ahead(M, q, p)
  BY LeaderExists DEF Measured
<1>2. ASSUME NEW p \in Leading(M, P), NEW q \in P
      PROVE  M[q][1] <= M[p][1]
  <2>1. p \in P /\ ~Ahead(M, q, p)
    BY DEF Leading
  <2>2. M[q][1] \in Int /\ M[p][1] \in Int
    BY <2>1 DEF Measured
  <2> QED BY <2>1, <2>2, AheadIs
<1> QED BY <1>1, <1>2 DEF Leading

LEMMA LeadersAre ==
    ASSUME NEW a, IsFiniteSet(DOMAIN a),
           \A p \in DOMAIN a : a[p].orders \in Nat /\ a[p].units \in Nat /\ a[p].paid \in Nat
    PROVE  /\ Leaders(a, ByUnits) = {} <=> DOMAIN a = {}
           /\ Leaders(a, ByOrders) = {} <=> DOMAIN a = {}
           /\ Leaders(a, BySpend) = {} <=> DOMAIN a = {}
           /\ Leaders(a, BySpend) \in SUBSET DOMAIN a
           /\ \A p \in Leaders(a, BySpend), q \in DOMAIN a : a[q].paid <= a[p].paid
<1> DEFINE P == DOMAIN a
           U == [p \in P |-> [k \in 1..3 |-> ByUnits(a[p], k)]]
           O == [p \in P |-> [k \in 1..3 |-> ByOrders(a[p], k)]]
           S == [p \in P |-> [k \in 1..3 |-> BySpend(a[p], k)]]
<1>0. 1..3 = {1, 2, 3}
  OBVIOUS
<1>1. /\ \A p \in P : \A k \in 1..3 : U[p][k] = ByUnits(a[p], k)
      /\ \A p \in P : \A k \in 1..3 : O[p][k] = ByOrders(a[p], k)
      /\ \A p \in P : \A k \in 1..3 : S[p][k] = BySpend(a[p], k)
      /\ DOMAIN U = P /\ DOMAIN O = P /\ DOMAIN S = P
  OBVIOUS
<1> HIDE DEF U, O, S
<1>2. Measured(U, P) /\ Measured(O, P) /\ Measured(S, P)
  <2>1. \A p \in P : \A k \in 1..3 : U[p][k] \in Int
    BY <1>0, <1>1 DEF ByUnits
  <2>2. \A p \in P : \A k \in 1..3 : O[p][k] \in Int
    BY <1>0, <1>1 DEF ByOrders
  <2>3. \A p \in P : \A k \in 1..3 : S[p][k] \in Int
    BY <1>0, <1>1 DEF BySpend
  <2> QED BY <1>1, <2>1, <2>2, <2>3 DEF Measured
<1>3. \A k \in 1..3 : 1..(k - 1) \subseteq 1..3
  OBVIOUS
<1>4. Leaders(a, ByUnits) = Leading(U, P)
  <2> DEFINE ahead(p, q) == \E k \in 1..3 :
                 /\ ByUnits(a[p], k) > ByUnits(a[q], k)
                 /\ \A j \in 1..(k - 1) : ByUnits(a[p], j) = ByUnits(a[q], j)
  <2>1. Leaders(a, ByUnits) = {p \in P : \A q \in P : ~ahead(q, p)}
    BY DEF Leaders
  <2>2. \A p, q \in P : ahead(q, p) <=> Ahead(U, q, p)
    BY <1>1, <1>3 DEF Ahead
  <2> HIDE DEF ahead
  <2> QED BY <2>1, <2>2 DEF Leading
<1>5. Leaders(a, ByOrders) = Leading(O, P)
  <2> DEFINE ahead(p, q) == \E k \in 1..3 :
                 /\ ByOrders(a[p], k) > ByOrders(a[q], k)
                 /\ \A j \in 1..(k - 1) : ByOrders(a[p], j) = ByOrders(a[q], j)
  <2>1. Leaders(a, ByOrders) = {p \in P : \A q \in P : ~ahead(q, p)}
    BY DEF Leaders
  <2>2. \A p, q \in P : ahead(q, p) <=> Ahead(O, q, p)
    BY <1>1, <1>3 DEF Ahead
  <2> HIDE DEF ahead
  <2> QED BY <2>1, <2>2 DEF Leading
<1>6. Leaders(a, BySpend) = Leading(S, P)
  <2> DEFINE ahead(p, q) == \E k \in 1..3 :
                 /\ BySpend(a[p], k) > BySpend(a[q], k)
                 /\ \A j \in 1..(k - 1) : BySpend(a[p], j) = BySpend(a[q], j)
  <2>1. Leaders(a, BySpend) = {p \in P : \A q \in P : ~ahead(q, p)}
    BY DEF Leaders
  <2>2. \A p, q \in P : ahead(q, p) <=> Ahead(S, q, p)
    BY <1>1, <1>3 DEF Ahead
  <2> HIDE DEF ahead
  <2> QED BY <2>1, <2>2 DEF Leading
<1>7. \A p \in P : S[p][1] = a[p].paid
  BY <1>1 DEF BySpend
<1> HIDE DEF P
<1>8. /\ Leading(U, P) = {} <=> P = {}
      /\ Leading(O, P) = {} <=> P = {}
      /\ Leading(S, P) = {} <=> P = {}
      /\ \A p \in Leading(S, P), q \in P : S[q][1] <= S[p][1]
  BY <1>2, LeadingAre DEF P
<1>9. Leading(S, P) \in SUBSET P
  BY DEF Leading
<1>10. \A p \in Leading(S, P), q \in P : a[q].paid <= a[p].paid
  BY <1>7, <1>8, <1>9
<1> QED BY <1>4, <1>5, <1>6, <1>8, <1>9, <1>10 DEF P

-----------------------------------------------------------------------------
(* Prices of leaders.                                                      *)

\* A product was paid for when one of its lines was.
LEMMA PaidProducts ==
    ASSUME NEW t, Table(t), NEW S \in SUBSET DOMAIN t, NEW a, a = ProductAggregates(t, S)
    PROVE  /\ \A p \in DOMAIN a : a[p].paid > 0 => PaidLines(t, S) # {}
           /\ PaidLines(t, S) # {} => \E p \in DOMAIN a : a[p].paid > 0
<1>1. /\ DOMAIN a = ProductsOf(t, Eligible(t, S))
      /\ \A p \in DOMAIN a : /\ a[p].paid \in Nat
                             /\ a[p].paid = SumFunctionOnSet(PaidOf(t), SpentLines(t, S, p))
  BY AggregatesAre
<1>2. /\ IsFiniteSet(Eligible(t, S))
      /\ \A l \in Eligible(t, S) : Item(t, l).paid \in Nat /\ PaidOf(t)[l] = Item(t, l).paid
  BY EligibleAre
<1>3. ASSUME NEW p
      PROVE  /\ SpentLines(t, S, p) \in SUBSET Eligible(t, S)
             /\ IsFiniteSet(SpentLines(t, S, p))
             /\ \A l \in SpentLines(t, S, p) :
                   /\ Unaltered(Item(t, l)) /\ Key(Item(t, l)) = p
                   /\ PaidOf(t)[l] \in Nat /\ PaidOf(t)[l] = Item(t, l).paid
             /\ \A l \in Eligible(t, S) :
                   Unaltered(Item(t, l)) /\ Key(Item(t, l)) = p => l \in SpentLines(t, S, p)
  <2>1. /\ SpentLines(t, S, p) \in SUBSET Eligible(t, S)
        /\ \A l \in SpentLines(t, S, p) : Unaltered(Item(t, l)) /\ Key(Item(t, l)) = p
        /\ \A l \in Eligible(t, S) :
              Unaltered(Item(t, l)) /\ Key(Item(t, l)) = p => l \in SpentLines(t, S, p)
    BY DEF SpentLines, ProductLines
  <2>2. IsFiniteSet(SpentLines(t, S, p))
    BY <1>2, <2>1, FS_Subset
  <2> QED BY <1>2, <2>1, <2>2
<1>4. ASSUME NEW p \in DOMAIN a, a[p].paid > 0
      PROVE  PaidLines(t, S) # {}
  <2>1. PICK l \in SpentLines(t, S, p) : PaidOf(t)[l] # 0
    <3>1. ~(\A l \in SpentLines(t, S, p) : PaidOf(t)[l] = 0)
      BY <1>1, <1>3, <1>4, SumOfZeros
    <3> QED BY <3>1
  <2>2. /\ l \in Eligible(t, S) /\ Unaltered(Item(t, l)) /\ Item(t, l).paid > 0
        /\ Key(Item(t, l)) = p
    BY <1>3, <2>1
  <2>3. p # NoKey
    BY <1>1 DEF ProductsOf, Identified
  <2>4. l \in PaidLines(t, S)
    BY <2>2, <2>3, PaidLinesAre
  <2> QED BY <2>4
<1>5. ASSUME NEW l \in PaidLines(t, S)
      PROVE  \E p \in DOMAIN a : a[p].paid > 0
  <2> DEFINE p == Key(Item(t, l))
  <2>1. /\ l \in Eligible(t, S) /\ Item(t, l).paid \in Nat \ {0} /\ p # NoKey
    BY PaidLinesAre
  <2>2. Unaltered(Item(t, l))
    BY DEF PaidLines
  <2>3. p \in DOMAIN a
    BY <1>1, <2>1 DEF ProductsOf, Identified
  <2>4. l \in SpentLines(t, S, p)
    BY <1>3, <2>1, <2>2
  <2>5. PaidOf(t)[l] <= SumFunctionOnSet(PaidOf(t), SpentLines(t, S, p))
    BY <1>3, <2>4, SumHasTerm
  <2>6. PaidOf(t)[l] > 0 /\ PaidOf(t)[l] \in Nat
    BY <1>2, <2>1
  <2>7. a[p].paid > 0
    BY <1>1, <2>3, <2>5, <2>6
  <2> QED BY <2>3, <2>7
<1> QED BY <1>4, <1>5

\* On average a product costs at most what a unit of the line costs no other costs more
\* than.
LEMMA AverageWithin ==
    ASSUME NEW t, Table(t), NEW S \in SUBSET DOMAIN t, NEW a, a = ProductAggregates(t, S),
           NEW p \in DOMAIN a, NEW l \in PaidLines(t, S),
           \A k \in PaidLines(t, S) : Cheaper(t, k, l)
    PROVE  AveragePaid(a[p]) <= Rounded(Item(t, l).paid, Item(t, l).quantity)
<1> DEFINE L == SpentLines(t, S, p)
           c == Item(t, l).paid
           d == Item(t, l).quantity
           f == [k \in L |-> d * PaidOf(t)[k]]
           g == [k \in L |-> c * QuantityOf(t)[k]]
<1>1. /\ a[p].paid \in Nat /\ a[p].spendUnits \in Nat
      /\ a[p].paid = SumFunctionOnSet(PaidOf(t), L)
      /\ a[p].spendUnits = SumFunctionOnSet(QuantityOf(t), L)
      /\ DOMAIN a = ProductsOf(t, Eligible(t, S))
  BY AggregatesAre
<1>2. c \in Nat /\ d \in Nat \ {0}
  BY PaidLinesAre
<1>3. L \in SUBSET Eligible(t, S) /\ IsFiniteSet(L)
  <2>1. L \in SUBSET Eligible(t, S)
    BY DEF SpentLines, ProductLines
  <2> QED BY <2>1, EligibleAre, FS_Subset
<1>4. \A k \in L : /\ Item(t, k).paid \in Nat /\ Item(t, k).quantity \in Nat \ {0}
                   /\ PaidOf(t)[k] = Item(t, k).paid
                   /\ QuantityOf(t)[k] = Item(t, k).quantity
  <2> HIDE DEF L
  <2> QED BY <1>3, EligibleAre
<1>5. ASSUME NEW k \in L
      PROVE  d * PaidOf(t)[k] <= c * QuantityOf(t)[k]
  <2>1. Key(Item(t, k)) = p /\ Unaltered(Item(t, k)) /\ k \in Eligible(t, S)
    BY DEF SpentLines, ProductLines
  <2>2. p # NoKey
    BY <1>1 DEF ProductsOf, Identified
  <2> DEFINE x == Item(t, k).paid
             y == Item(t, k).quantity
  <2>3. x * d <= c * y
    <3>1. CASE x > 0
      <4>1. k \in PaidLines(t, S)
        BY <2>1, <2>2, <3>1, PaidLinesAre
      <4> QED BY <4>1 DEF Cheaper
    <3>2. CASE x = 0
      <4>1. c * y \in Nat /\ 0 * d = 0
        BY <1>2, <1>4
      <4> DEFINE z == c * y
      <4>2. z \in Nat
        BY <4>1
      <4> HIDE DEF z
      <4>3. x * d <= z
        BY <3>2, <4>1, <4>2
      <4> QED BY <4>3 DEF z
    <3> QED BY <1>4, <3>1, <3>2
  <2>4. x * d = d * x /\ x \in Nat /\ y \in Nat
    BY <1>2, <1>4
  <2>5. d * x <= c * y
    BY <2>3, <2>4
  <2> QED BY <1>4, <2>5
<1>6. /\ Summable(PaidOf(t), L) /\ Summable(QuantityOf(t), L)
  <2> HIDE DEF L
  <2> QED BY <1>3, <1>4 DEF Summable
<1>7. /\ \A k \in L : f[k] = d * PaidOf(t)[k]
      /\ \A k \in L : g[k] = c * QuantityOf(t)[k]
  OBVIOUS
<1> HIDE DEF f, g, c, d, L
<1>8. /\ Summable(f, L) /\ SumFunctionOnSet(f, L) = d * SumFunctionOnSet(PaidOf(t), L)
      /\ Summable(g, L) /\ SumFunctionOnSet(g, L) = c * SumFunctionOnSet(QuantityOf(t), L)
  BY <1>2, <1>6, <1>7, SumOfMultiples
<1>9. SumFunctionOnSet(f, L) <= SumFunctionOnSet(g, L)
  BY <1>5, <1>7, <1>8, SumGrows
<1>10. d * a[p].paid <= c * a[p].spendUnits
  BY <1>1, <1>8, <1>9
<1>11. CASE a[p].spendUnits = 0
  <2>1. AveragePaid(a[p]) = 0
    BY <1>11 DEF AveragePaid
  <2>2. Rounded(c, d) \in Nat
    <3> DEFINE u == 2 * c + d
               v == 2 * d
    <3>1. u \in Nat /\ v \in Nat \ {0}
      BY <1>2
    <3> HIDE DEF u, v
    <3>2. u \div v \in Nat
      BY <3>1, DivIs
    <3> QED BY <3>2 DEF Rounded, u, v
  <2>3. AveragePaid(a[p]) <= Rounded(c, d)
    BY <2>1, <2>2
  <2> QED BY <2>3 DEF c, d
<1>12. CASE a[p].spendUnits # 0
  <2>1. AveragePaid(a[p]) = Rounded(a[p].paid, a[p].spendUnits)
    BY <1>12 DEF AveragePaid
  <2>2. a[p].paid * d <= c * a[p].spendUnits
    BY <1>1, <1>2, <1>10
  <2>3. Rounded(a[p].paid, a[p].spendUnits) <= Rounded(c, d)
    BY <1>1, <1>2, <1>12, <2>2, RoundedGrows
  <2>4. AveragePaid(a[p]) <= Rounded(c, d)
    BY <2>1, <2>3
  <2> QED BY <2>4 DEF c, d
<1> QED BY <1>11, <1>12

-----------------------------------------------------------------------------
(* Days of spending.                                                       *)

Spending(t, S) == Standing(t, OrdersOf(Purchases(t, S)))
SpentOn(t, S, d) == Amount(t, {r \in Spending(t, S) : t[r].day = d})
SpendDays(t, S) == {d \in DaysOf(t, Spending(t, S)) : SpentOn(t, S, d) > 0}
SameDay(t, d) == {r \in DOMAIN t : t[r].day = d}

LEMMA SpendingIs ==
    ASSUME NEW t, Table(t), NEW S \in SUBSET DOMAIN t
    PROVE  /\ Spending(t, S) \in SUBSET S /\ Spending(t, S) \in SUBSET DOMAIN t
           /\ IsFiniteSet(Spending(t, S))
           /\ \A d : /\ SpentOn(t, S, d) \in Nat
                     /\ SpentOn(t, S, d) <= Amount(t, Spending(t, S))
           /\ Amount(t, Spending(t, S)) \in Nat
           /\ IsFiniteSet(SpendDays(t, S)) /\ SpendDays(t, S) \in SUBSET Day
           /\ SpendDays(t, S) \in SUBSET DaysOf(t, Spending(t, S))
           /\ SpendDays(t, S) = {} <=> Amount(t, Spending(t, S)) = 0
<1> DEFINE B == Spending(t, S)
           D == DaysOf(t, B)
           on(d) == {r \in B : t[r].day = d}
<1>1. B \in SUBSET S
  <2>1. \A l \in Purchases(t, S) : l[1] \in S
    BY LinesNarrow
  <2> QED BY <2>1 DEF Spending, Standing, OrdersOf
<1>2. B \in SUBSET DOMAIN t
  BY <1>1
<1> HIDE DEF B
<1>3. /\ Amount(t, B) = SumFunctionOnSet(Amounts(t), B) /\ Amount(t, B) \in Nat
      /\ IsFiniteSet(B)
      /\ \A r \in DOMAIN t : Amounts(t)[r] \in Nat /\ Amounts(t)[r] = t[r].amount
  BY <1>2, AmountIs
<1>4. \A d : on(d) \in SUBSET B /\ on(d) \in SUBSET DOMAIN t /\ SpentOn(t, S, d) = Amount(t, on(d))
  BY <1>2 DEF SpentOn, B
<1>5. ASSUME NEW d
      PROVE  /\ SpentOn(t, S, d) \in Nat /\ SpentOn(t, S, d) <= Amount(t, B)
             /\ IsFiniteSet(on(d)) /\ SpentOn(t, S, d) = SumFunctionOnSet(Amounts(t), on(d))
  <2> DEFINE O == on(d)
  <2>1. O \in SUBSET B /\ O \in SUBSET DOMAIN t /\ SpentOn(t, S, d) = Amount(t, O)
    BY <1>4
  <2> HIDE DEF O
  <2>2. /\ Amount(t, O) = SumFunctionOnSet(Amounts(t), O) /\ Amount(t, O) \in Nat
        /\ IsFiniteSet(O)
    BY <2>1, AmountIs
  <2>3. SumFunctionOnSet(Amounts(t), O) <= SumFunctionOnSet(Amounts(t), B)
    BY <1>2, <1>3, <2>1, SumOfPart
  <2> QED BY <1>3, <2>1, <2>2, <2>3 DEF O
<1>6. IsFiniteSet(D) /\ D \subseteq Day
  BY <1>2, DaysAre
<1>7. SpendDays(t, S) \in SUBSET D
  BY DEF SpendDays, B
<1>8. IsFiniteSet(SpendDays(t, S)) /\ SpendDays(t, S) \in SUBSET Day
  BY <1>6, <1>7, FS_Subset
<1>9. ASSUME SpendDays(t, S) = {}
      PROVE  Amount(t, B) = 0
  <2>1. ASSUME NEW r \in B
        PROVE  Amounts(t)[r] = 0
    <3> DEFINE d == t[r].day
               O == on(d)
    <3>1. r \in O /\ O \subseteq B /\ d \in D
      BY DEF DaysOf
    <3>2. ~(SpentOn(t, S, d) > 0)
      BY <1>9, <3>1 DEF SpendDays, B
    <3>3. IsFiniteSet(O) /\ SpentOn(t, S, d) = SumFunctionOnSet(Amounts(t), O)
      BY <1>5
    <3> HIDE DEF O
    <3>4. Amounts(t)[r] <= SumFunctionOnSet(Amounts(t), O)
      BY <1>2, <1>3, <3>1, <3>3, SumHasTerm
    <3>5. Amounts(t)[r] \in Nat /\ SpentOn(t, S, d) \in Nat
      BY <1>2, <1>3, <1>5
    <3> QED BY <3>2, <3>3, <3>4, <3>5
  <2> QED BY <1>3, <2>1, SumOfZeros
<1>10. ASSUME SpendDays(t, S) # {}
       PROVE  Amount(t, B) # 0
  <2>1. PICK d \in SpendDays(t, S) : TRUE
    BY <1>10
  <2>2. SpentOn(t, S, d) > 0
    BY DEF SpendDays
  <2>3. SpentOn(t, S, d) \in Nat /\ SpentOn(t, S, d) <= Amount(t, B)
    BY <1>5
  <2> QED BY <1>3, <2>2, <2>3
<1> QED BY <1>1, <1>2, <1>3, <1>5, <1>7, <1>8, <1>9, <1>10 DEF B, D

LEMMA SpendDayIs ==
    ASSUME NEW t, Table(t), NEW S \in SUBSET DOMAIN t, NEW highest \in BOOLEAN,
           NEW g, g = SpendDay(t, S, highest)
    PROVE  /\ SpendDays(t, S) = {} => g.day = 0 /\ g.amount = 0 /\ g.lines = 0
           /\ SpendDays(t, S) # {} =>
                 /\ g.day \in SpendDays(t, S) /\ g.amount = SpentOn(t, S, g.day)
                 /\ g.lines = Cardinality(Eligible(t, SameDay(t, g.day)))
                 /\ \A d \in SpendDays(t, S) :
                       IF highest THEN SpentOn(t, S, g.day) >= SpentOn(t, S, d)
                                  ELSE SpentOn(t, S, g.day) <= SpentOn(t, S, d)
<1> DEFINE D == SpendDays(t, S)
           better(d, e) == IF highest THEN SpentOn(t, S, d) >= SpentOn(t, S, e)
                                      ELSE SpentOn(t, S, d) <= SpentOn(t, S, e)
           extreme == {d \in D : \A e \in D : better(d, e)}
           day == Min(extreme)
           amount == SpentOn(t, S, day)
           count == Cardinality({r \in Spending(t, S) : t[r].day = day})
           lines == Cardinality(Eligible(t, SameDay(t, day)))
<1>1. g = IF D = {} THEN [day |-> 0, amount |-> 0, orders |-> 0, lines |-> 0]
          ELSE [day |-> day, amount |-> amount, orders |-> count, lines |-> lines]
  BY DEF SpendDay, Spending, SpentOn, SpendDays, SameDay, DaysOf
<1>2. /\ IsFiniteSet(D) /\ D \in SUBSET Day /\ \A d : SpentOn(t, S, d) \in Nat
  BY SpendingIs
<1> DEFINE R == {z \in D \X D : better(z[2], z[1])}
<1>3. \A d, e \in D : <<d, e>> \in R <=> better(e, d)
  OBVIOUS
<1>4. \A d, e \in D : better(d, e) \/ better(e, d)
  BY <1>2
<1>5. \A d, e, f \in D : better(e, d) /\ better(f, e) => better(f, d)
  BY <1>2
<1> HIDE DEF R, better
<1>6. D # {} => \E d \in D : \A e \in D : <<e, d>> \in R
  <2>1. \A d, e \in D : <<d, e>> \in R \/ <<e, d>> \in R
    BY <1>3, <1>4
  <2>2. \A d, e, f \in D : <<d, e>> \in R /\ <<e, f>> \in R => <<d, f>> \in R
    BY <1>3, <1>5
  <2> HIDE DEF D
  <2> QED BY <1>2, <2>1, <2>2, TopExists
<1>7. D # {} => day \in extreme
  <2>1. D # {} => extreme # {}
    BY <1>3, <1>6
  <2>2. extreme \in SUBSET Nat
    BY <1>2 DEF Day
  <2>3. IsFiniteSet(extreme)
    <3>1. extreme \subseteq D
      OBVIOUS
    <3> HIDE DEF extreme
    <3> QED BY <1>2, <3>1, FS_Subset
  <2> HIDE DEF extreme
  <2> QED BY <2>1, <2>2, <2>3, ExtremeDays
<1>8. D # {} => day \in D /\ \A d \in D : better(day, d)
  <2>1. \A x \in extreme : x \in D /\ \A d \in D : better(x, d)
    OBVIOUS
  <2> HIDE DEF extreme, D
  <2> QED BY <1>7, <2>1
<1> HIDE DEF day
<1>9. D # {} => g.day = day /\ g.amount = amount /\ g.lines = lines
  BY <1>1
<1>10. D = {} => g.day = 0 /\ g.amount = 0 /\ g.lines = 0
  BY <1>1
<1>11. D # {} => \A d \in D : IF highest THEN SpentOn(t, S, g.day) >= SpentOn(t, S, d)
                                          ELSE SpentOn(t, S, g.day) <= SpentOn(t, S, d)
  BY <1>8, <1>9 DEF better
<1> QED BY <1>8, <1>9, <1>10, <1>11

\* Months of days are between the first and the last month.
LEMMA MonthsFit ==
    ASSUME NEW D \in SUBSET Day, IsFiniteSet(D), D # {}
    PROVE  Cardinality(Months(D)) <= Month(Max(D)) - Month(Min(D)) + 1
<1> DEFINE a == Month(Min(D))
           b == Month(Max(D))
<1>1. D \in SUBSET Nat
  BY DEF Day
<1>2. /\ Min(D) \in D /\ Max(D) \in D /\ \A d \in D : Min(D) <= d /\ d <= Max(D)
  BY <1>1, ExtremeDays
<1>3. \A d \in D : Month(d) \in Nat
  BY DayIs
<1>4. a \in Nat /\ b \in Nat /\ a <= b
  BY <1>2, <1>3, DaysKeepOrder
<1>5. Months(D) \subseteq a..b
  <2> SUFFICES ASSUME NEW d \in D PROVE Month(d) \in a..b
    BY DEF Months
  <2> QED BY <1>2, <1>3, DaysKeepOrder
<1> HIDE DEF a, b
<1>6. IsFiniteSet(a..b) /\ Cardinality(a..b) = b - a + 1
  BY <1>4, FS_Interval
<1>7. Cardinality(Months(D)) \in 0..Cardinality(a..b)
  BY <1>5, <1>6, PartOf
<1>8. Cardinality(Months(D)) <= b - a + 1
  BY <1>4, <1>6, <1>7
<1> QED BY <1>8 DEF a, b

LEMMA WindowIs ==
    ASSUME NEW t, Table(t), NEW S \in SUBSET DOMAIN t, NEW g, g = SpendWindow(t, S),
           NEW D, D = DaysOf(t, Spending(t, S))
    PROVE  /\ g.active <= g.calendar
           /\ g.amount = Amount(t, Spending(t, S))
           /\ \A d \in D : d \in g.first..g.last
<1> DEFINE first == IF D = {} THEN 0 ELSE Min(D)
           last == IF D = {} THEN 0 ELSE Max(D)
           active == Cardinality(Months(D))
           calendar == IF D = {} THEN 0 ELSE Month(Max(D)) - Month(Min(D)) + 1
           amount == Amount(t, Spending(t, S))
<1>1. g = [first |-> first, last |-> last, active |-> active, calendar |-> calendar,
           amount |-> amount]
  BY DEF SpendWindow, Spending, DaysOf
<1>2. /\ g.first = first /\ g.last = last /\ g.active = active /\ g.calendar = calendar
      /\ g.amount = amount
  <2> HIDE DEF first, last, active, calendar, amount
  <2> QED BY <1>1
<1>3. Spending(t, S) \in SUBSET DOMAIN t
  BY SpendingIs
<1>4. /\ IsFiniteSet(D) /\ D \in SUBSET Day /\ D \in SUBSET Nat
      /\ D # {} => /\ Min(D) \in D /\ Max(D) \in D
                   /\ \A d \in D : Min(D) <= d /\ d <= Max(D)
  BY <1>3, DaysAre
<1>5. CASE D = {}
  <2>1. Months(D) = {}
    BY <1>5 DEF Months
  <2>2. g.active = 0 /\ g.calendar = 0
    BY <1>2, <1>5, <2>1, FS_EmptySet
  <2> QED BY <1>2, <1>5, <2>2
<1>6. CASE D # {}
  <2>1. g.active <= g.calendar
    BY <1>2, <1>4, <1>6, MonthsFit
  <2>2. \A d \in D : d \in g.first..g.last
    BY <1>2, <1>4, <1>6
  <2> QED BY <1>2, <2>1, <2>2
<1> QED BY <1>5, <1>6

\* A set of orders that has all orders of a day or none, as every filter's has.
WholeDays(t, S) == \A r \in S, q \in DOMAIN t : t[q].day = t[r].day => q \in S

LEMMA SelectedDays ==
    ASSUME NEW t, NEW filter
    PROVE  /\ Selected(t, filter) \in SUBSET DOMAIN t
           /\ WholeDays(t, Selected(t, filter))
BY DEF Selected, WholeDays

LEMMA DaysOfSpendingFit ==
    ASSUME NEW t, Table(t), NEW S \in SUBSET DOMAIN t, WholeDays(t, S), NEW g,
           g.window = SpendWindow(t, S), g.coverage = ProductCoverage(t, S),
           g.highest_day = SpendDay(t, S, TRUE), g.lowest_day = SpendDay(t, S, FALSE)
    PROVE  /\ g.window.active <= g.window.calendar
           /\ g.lowest_day.amount <= g.highest_day.amount
           /\ g.highest_day.amount <= g.window.amount
           /\ (g.highest_day.day = 0) <=> (g.window.amount = 0)
           /\ \A d \in {g.lowest_day, g.highest_day} :
                 d.day # 0 => d.day \in g.window.first..g.window.last
           /\ g.highest_day.lines <= g.coverage.lines
<1> DEFINE D == SpendDays(t, S)
           w == g.window
           h == g.highest_day
           l == g.lowest_day
<1>1. /\ Spending(t, S) \in SUBSET S
      /\ \A d : SpentOn(t, S, d) \in Nat /\ SpentOn(t, S, d) <= Amount(t, Spending(t, S))
      /\ Amount(t, Spending(t, S)) \in Nat
      /\ D \in SUBSET Day /\ D \in SUBSET DaysOf(t, Spending(t, S))
      /\ D = {} <=> Amount(t, Spending(t, S)) = 0
  BY SpendingIs
<1>2. /\ w.active <= w.calendar /\ w.amount = Amount(t, Spending(t, S))
      /\ \A d \in DaysOf(t, Spending(t, S)) : d \in w.first..w.last
  BY WindowIs
<1>3. /\ D = {} => h.day = 0 /\ h.amount = 0 /\ h.lines = 0
      /\ D # {} => /\ h.day \in D /\ h.amount = SpentOn(t, S, h.day)
                   /\ h.lines = Cardinality(Eligible(t, SameDay(t, h.day)))
                   /\ \A d \in D : SpentOn(t, S, h.day) >= SpentOn(t, S, d)
  BY SpendDayIs
<1>4. /\ D = {} => l.day = 0 /\ l.amount = 0
      /\ D # {} => l.day \in D /\ l.amount = SpentOn(t, S, l.day)
  BY SpendDayIs
<1>5. g.coverage.lines = Cardinality(Eligible(t, S)) /\ IsFiniteSet(Eligible(t, S))
  <2>1. g.coverage.lines = Cardinality(Eligible(t, S))
    BY CoverageWithin
  <2>2. IsFiniteSet(Eligible(t, S))
    BY EligibleAre
  <2> QED BY <2>1, <2>2
<1>6. \A d \in D : d # 0
  BY <1>1, DayIs
<1>7. D # {} => h.lines <= g.coverage.lines
  <2> SUFFICES ASSUME D # {} PROVE h.lines <= g.coverage.lines
    OBVIOUS
  <2>1. PICK r \in Spending(t, S) : t[r].day = h.day
    BY <1>1, <1>3 DEF DaysOf
  <2>2. SameDay(t, h.day) \subseteq S
    BY <1>1, <2>1 DEF WholeDays, SameDay
  <2>3. Eligible(t, SameDay(t, h.day)) \subseteq Eligible(t, S)
    BY <2>2 DEF Eligible, Retained, Purchases, Lines
  <2>4. /\ Cardinality(Eligible(t, SameDay(t, h.day))) \in 0..Cardinality(Eligible(t, S))
        /\ Cardinality(Eligible(t, S)) \in Nat
    BY <1>5, <2>3, PartOf
  <2>5. h.lines = Cardinality(Eligible(t, SameDay(t, h.day)))
    BY <1>3
  <2> DEFINE m == Cardinality(Eligible(t, SameDay(t, h.day)))
             n == Cardinality(Eligible(t, S))
  <2>6. m \in 0..n /\ n \in Nat
    BY Zenon, <2>4
  <2>7. h.lines = m
    BY Zenon, <2>5
  <2>8. g.coverage.lines = n
    BY Zenon, <1>5
  <2> HIDE DEF m, n, h
  <2> QED BY <2>6, <2>7, <2>8
<1>8. Cardinality(Eligible(t, S)) \in Nat
  BY <1>5, SizeOf
<1> HIDE DEF D, w, h, l
<1>9. CASE D = {}
  <2>1. /\ w.amount = 0 /\ h.day = 0 /\ h.amount = 0 /\ h.lines = 0
        /\ l.day = 0 /\ l.amount = 0
    BY <1>1, <1>2, <1>3, <1>4, <1>9
  <2>2. h.lines <= g.coverage.lines
    BY <1>5, <1>8, <2>1
  <2>3. \A d \in {l, h} : d.day # 0 => d.day \in w.first..w.last
    BY <2>1
  <2>4. l.amount <= h.amount /\ h.amount <= w.amount /\ (h.day = 0 <=> w.amount = 0)
    BY <2>1
  <2> QED BY <1>2, <2>2, <2>3, <2>4 DEF w, h, l
<1>10. CASE D # {}
  <2>1. /\ h.day \in D /\ h.amount = SpentOn(t, S, h.day)
        /\ l.day \in D /\ l.amount = SpentOn(t, S, l.day)
        /\ SpentOn(t, S, h.day) >= SpentOn(t, S, l.day)
    BY <1>3, <1>4, <1>10
  <2>2. /\ SpentOn(t, S, h.day) \in Nat /\ SpentOn(t, S, l.day) \in Nat
        /\ SpentOn(t, S, h.day) <= w.amount
    BY <1>1, <1>2
  <2>3. l.amount <= h.amount /\ h.amount <= w.amount
    BY <2>1, <2>2
  <2>4. h.day # 0 /\ w.amount # 0
    BY <1>1, <1>2, <1>6, <1>10, <2>1
  <2>5. h.day \in w.first..w.last /\ l.day \in w.first..w.last
    BY <1>1, <1>2, <2>1
  <2>6. \A d \in {l, h} : d.day # 0 => d.day \in w.first..w.last
    BY <2>5
  <2>7. h.day = 0 <=> w.amount = 0
    BY <2>4
  <2>8. h.lines <= g.coverage.lines
    BY <1>7, <1>10
  <2> QED BY <1>2, <2>3, <2>6, <2>7, <2>8 DEF w, h, l
<1> QED BY <1>9, <1>10

LEMMA ProductsFit ==
    ASSUME NEW t, Table(t), NEW S \in SUBSET DOMAIN t, WholeDays(t, S), NEW g,
           g.window = SpendWindow(t, S), g.coverage = ProductCoverage(t, S),
           g.products = ProductAggregates(t, S),
           g.highest_unit = PaidUnit(t, S, TRUE), g.lowest_unit = PaidUnit(t, S, FALSE),
           g.highest_day = SpendDay(t, S, TRUE), g.lowest_day = SpendDay(t, S, FALSE)
    PROVE  ProductsAddUp(g)
<1> DEFINE a == g.products
           h == [p \in DOMAIN a |-> a[p].units]
           leaders == Leaders(a, BySpend)
           bySpend == {p \in leaders : a[p].paid > 0}
           L == PaidLines(t, S)
           price(l) == Rounded(Item(t, l).paid, Item(t, l).quantity)
<1>1. /\ IsFiniteSet(DOMAIN a)
      /\ \A p \in DOMAIN a : a[p].orders \in Nat /\ a[p].units \in Nat /\ a[p].paid \in Nat
  BY AggregatesAre
<1>2. /\ SumFunction(h) <= g.coverage.units
      /\ Cardinality(DOMAIN a) = g.coverage.products
      /\ DOMAIN a = {} <=> g.coverage.identified = 0
  <2>1. DOMAIN h = DOMAIN a /\ \A p \in DOMAIN a : h[p] = a[p].units
    OBVIOUS
  <2> HIDE DEF h
  <2> QED BY <2>1, UnitsFit
<1>3. /\ Leaders(a, ByUnits) = {} <=> DOMAIN a = {}
      /\ Leaders(a, ByOrders) = {} <=> DOMAIN a = {}
      /\ leaders = {} <=> DOMAIN a = {}
      /\ leaders \in SUBSET DOMAIN a
      /\ \A p \in leaders, q \in DOMAIN a : a[q].paid <= a[p].paid
  BY <1>1, LeadersAre
<1>4. /\ g.highest_unit = {} <=> L = {}
      /\ \A unit \in g.highest_unit : \E l \in L :
            unit = price(l) /\ \A k \in L : Cheaper(t, k, l)
      /\ \A unit \in g.lowest_unit : \E l \in L : unit = price(l)
  BY UnitsOfPaid
<1>5. /\ \A p \in DOMAIN a : a[p].paid > 0 => L # {}
      /\ L # {} => \E p \in DOMAIN a : a[p].paid > 0
  BY PaidProducts
<1> HIDE DEF leaders
<1>6. bySpend = {} <=> g.highest_unit = {}
  <2>1. ASSUME L # {}
        PROVE  bySpend # {}
    <3>1. PICK q \in DOMAIN a : a[q].paid > 0
      BY <1>5, <2>1
    <3>2. PICK p \in leaders : TRUE
      BY <1>3, <3>1
    <3>3. p \in DOMAIN a /\ a[q].paid <= a[p].paid
      BY <1>3, <3>1
    <3>4. a[p].paid > 0
      BY <1>1, <3>1, <3>3
    <3> QED BY <3>4
  <2>2. ASSUME bySpend # {}
        PROVE  L # {}
    BY <1>3, <1>5, <2>2
  <2> QED BY <1>4, <2>1, <2>2
<1>7. ASSUME NEW p \in bySpend, NEW unit \in g.highest_unit
      PROVE  AveragePaid(a[p]) <= unit
  <2>1. PICK l \in L : unit = price(l) /\ \A k \in L : Cheaper(t, k, l)
    BY <1>4
  <2>2. p \in DOMAIN a
    BY <1>3
  <2>3. AveragePaid(a[p]) <= price(l)
    BY <2>1, <2>2, AverageWithin
  <2> QED BY <2>1, <2>3
<1>8. ASSUME NEW low \in g.lowest_unit, NEW high \in g.highest_unit
      PROVE  low <= high
  <2>1. PICK k \in L : low = price(k)
    BY <1>4
  <2>2. PICK l \in L : high = price(l) /\ \A m \in L : Cheaper(t, m, l)
    BY <1>4
  <2>3. Cheaper(t, k, l)
    BY <2>1, <2>2
  <2>4. /\ Item(t, k).paid \in Nat /\ Item(t, k).quantity \in Nat \ {0}
        /\ Item(t, l).paid \in Nat /\ Item(t, l).quantity \in Nat \ {0}
    BY PaidLinesAre
  <2>5. price(k) <= price(l)
    BY <2>3, <2>4, RoundedGrows DEF Cheaper
  <2> QED BY <2>1, <2>2, <2>5
<1>9. /\ g.window.active <= g.window.calendar
      /\ g.lowest_day.amount <= g.highest_day.amount
      /\ g.highest_day.amount <= g.window.amount
      /\ (g.highest_day.day = 0) <=> (g.window.amount = 0)
      /\ \A d \in {g.lowest_day, g.highest_day} :
            d.day # 0 => d.day \in g.window.first..g.window.last
      /\ g.highest_day.lines <= g.coverage.lines
  BY DaysOfSpendingFit
<1>10. /\ (Leaders(a, ByUnits) = {}) <=> (g.coverage.identified = 0)
       /\ (Leaders(a, ByOrders) = {}) <=> (g.coverage.identified = 0)
  BY <1>2, <1>3
<1> HIDE DEF h, bySpend, L
<1>11. SumFunction([p \in DOMAIN g.products |-> g.products[p].units]) <= g.coverage.units
  BY <1>2 DEF h
<1> QED BY <1>2, <1>6, <1>7, <1>8, <1>9, <1>10, <1>11 DEF ProductsAddUp, leaders, bySpend

-----------------------------------------------------------------------------
(* The order of price observations.                                        *)

\* In the first digit in which they differ, a is before b.
DigitsBefore(a, b) ==
    \E i \in Nat \ {0} : /\ Digit(a, i) < Digit(b, i)
                         /\ \A j \in 1..(i - 1) : Digit(a, j) = Digit(b, j)

LEMMA DigitIs ==
    ASSUME NEW a \in Time, NEW i \in Nat \ {0}
    PROVE  /\ Digit(a, i) \in 0..10 /\ a.fraction \in Seq(0..9)
           /\ Digit(a, i) = 10 <=> i \notin 1..Len(a.fraction)
           /\ i \in 1..Len(a.fraction) => Digit(a, i) = a.fraction[i]
<1>1. a.fraction \in Seq(0..9)
  BY DEF Time
<1>2. DOMAIN a.fraction = 1..Len(a.fraction) /\ \A k \in 1..Len(a.fraction) : a.fraction[k] \in 0..9
  BY <1>1
<1>3. CASE i \in 1..Len(a.fraction)
  <2>1. Digit(a, i) = a.fraction[i] /\ a.fraction[i] \in 0..9
    BY <1>2, <1>3 DEF Digit
  <2> QED BY <1>1, <1>3, <2>1
<1>4. CASE i \notin 1..Len(a.fraction)
  <2>1. Digit(a, i) = 10
    BY <1>2, <1>4 DEF Digit
  <2> QED BY <1>1, <1>4, <2>1
<1> QED BY <1>3, <1>4

LEMMA TextBeforeIs ==
    ASSUME NEW a \in Time, NEW b \in Time
    PROVE  TextBefore(a, b) <=> \/ a.second < b.second
                                \/ a.second = b.second /\ DigitsBefore(a, b)
<1>1. ASSUME NEW i \in Nat \ {0}, Digit(a, i) < Digit(b, i)
      PROVE  i \in 1..(Len(a.fraction) + 1)
  <2>1. /\ Digit(a, i) \in 0..10 /\ Digit(b, i) \in 0..10
        /\ Digit(a, i) = 10 <=> i \notin 1..Len(a.fraction)
        /\ Len(a.fraction) \in Nat
    BY DigitIs
  <2>2. i \in 1..Len(a.fraction)
    BY <1>1, <2>1
  <2> QED BY <2>1, <2>2
<1>2. \A i \in 1..(Len(a.fraction) + 1) : i \in Nat \ {0}
  <2>1. Len(a.fraction) \in Nat
    BY DEF Time
  <2> QED BY <2>1
<1> QED BY <1>1, <1>2 DEF TextBefore, DigitsBefore

\* Fractions that are not the same differ in a digit.
LEMMA FractionsDiffer ==
    ASSUME NEW a \in Time, NEW b \in Time, a.fraction # b.fraction
    PROVE  \E i \in Nat \ {0} : Digit(a, i) # Digit(b, i)
<1> SUFFICES ASSUME \A i \in Nat \ {0} : Digit(a, i) = Digit(b, i)
             PROVE  a.fraction = b.fraction
  OBVIOUS
<1> DEFINE f == a.fraction
           g == b.fraction
<1>1. f \in Seq(0..9) /\ g \in Seq(0..9) /\ Len(f) \in Nat /\ Len(g) \in Nat
  BY DEF Time
<1>2. \A i \in Nat \ {0} : /\ Digit(a, i) = 10 <=> i \notin 1..Len(f)
                           /\ Digit(b, i) = 10 <=> i \notin 1..Len(g)
                           /\ i \in 1..Len(f) => Digit(a, i) = f[i]
                           /\ i \in 1..Len(g) => Digit(b, i) = g[i]
  BY DigitIs
<1> HIDE DEF f, g
<1>3. \A i \in Nat \ {0} : i \in 1..Len(f) <=> i \in 1..Len(g)
  BY <1>2
<1>4. Len(f) = Len(g)
  <2>1. Len(f) # 0 => Len(f) \in 1..Len(g)
    BY <1>1, <1>3
  <2>2. Len(g) # 0 => Len(g) \in 1..Len(f)
    BY <1>1, <1>3
  <2> QED BY <1>1, <2>1, <2>2
<1>5. \A i \in 1..Len(f) : f[i] = g[i]
  <2> SUFFICES ASSUME NEW i \in 1..Len(f) PROVE f[i] = g[i]
    OBVIOUS
  <2>1. i \in Nat \ {0} /\ i \in 1..Len(g)
    BY <1>1, <1>4
  <2> QED BY <1>2, <2>1
<1>6. f = g
  BY <1>1, <1>4, <1>5
<1> QED BY <1>6 DEF f, g

LEMMA DigitsOrder ==
    /\ \A a, b \in Time : ~(DigitsBefore(a, b) /\ DigitsBefore(b, a))
    /\ \A a, b \in Time : a.fraction # b.fraction => DigitsBefore(a, b) \/ DigitsBefore(b, a)
    /\ \A a, b, c \in Time : DigitsBefore(a, b) /\ DigitsBefore(b, c) => DigitsBefore(a, c)
<1>1. \A a \in Time : \A i \in Nat \ {0} : Digit(a, i) \in Int
  <2>1. \A a \in Time : \A i \in Nat \ {0} : Digit(a, i) \in 0..10
    BY DigitIs
  <2> QED BY <2>1
<1>2. ASSUME NEW a \in Time, NEW b \in Time, DigitsBefore(a, b), DigitsBefore(b, a)
      PROVE  FALSE
  <2>1. PICK i \in Nat \ {0} : /\ Digit(a, i) < Digit(b, i)
                               /\ \A j \in 1..(i - 1) : Digit(a, j) = Digit(b, j)
    BY <1>2 DEF DigitsBefore
  <2>2. PICK k \in Nat \ {0} : /\ Digit(b, k) < Digit(a, k)
                               /\ \A j \in 1..(k - 1) : Digit(b, j) = Digit(a, j)
    BY <1>2 DEF DigitsBefore
  <2>3. i < k => i \in 1..(k - 1)
    OBVIOUS
  <2>4. k < i => k \in 1..(i - 1)
    OBVIOUS
  <2>5. i < k \/ k < i \/ i = k
    OBVIOUS
  <2>6. /\ Digit(a, i) \in Int /\ Digit(b, i) \in Int /\ Digit(a, k) \in Int
        /\ Digit(b, k) \in Int
    BY <1>1
  <2> QED BY <2>1, <2>2, <2>3, <2>4, <2>5, <2>6
<1>3. ASSUME NEW a \in Time, NEW b \in Time, a.fraction # b.fraction
      PROVE  DigitsBefore(a, b) \/ DigitsBefore(b, a)
  <2> DEFINE T == {i \in Nat \ {0} : Digit(a, i) # Digit(b, i)}
  <2>1. T \in SUBSET Nat /\ T # {}
    BY <1>3, FractionsDiffer
  <2>2. PICK i \in T : \A m \in T : i <= m
    <3> HIDE DEF T
    <3> QED BY <2>1, LeastNatural
  <2>3. i \in Nat \ {0} /\ Digit(a, i) # Digit(b, i)
    OBVIOUS
  <2>4. \A j \in 1..(i - 1) : Digit(a, j) = Digit(b, j)
    <3> SUFFICES ASSUME NEW j \in 1..(i - 1) PROVE Digit(a, j) = Digit(b, j)
      OBVIOUS
    <3>1. j \in Nat \ {0} /\ ~(i <= j)
      BY <2>3
    <3> QED BY <2>2, <3>1
  <2>5. Digit(a, i) < Digit(b, i) \/ Digit(b, i) < Digit(a, i)
    BY <1>1, <2>3
  <2> QED BY <2>3, <2>4, <2>5 DEF DigitsBefore
<1>4. ASSUME NEW a \in Time, NEW b \in Time, NEW c \in Time,
             DigitsBefore(a, b), DigitsBefore(b, c)
      PROVE  DigitsBefore(a, c)
  <2>1. PICK i \in Nat \ {0} : /\ Digit(a, i) < Digit(b, i)
                               /\ \A j \in 1..(i - 1) : Digit(a, j) = Digit(b, j)
    BY <1>4 DEF DigitsBefore
  <2>2. PICK k \in Nat \ {0} : /\ Digit(b, k) < Digit(c, k)
                               /\ \A j \in 1..(k - 1) : Digit(b, j) = Digit(c, j)
    BY <1>4 DEF DigitsBefore
  <2>3. CASE i < k
    <3>1. i \in 1..(k - 1) /\ \A j \in 1..(i - 1) : j \in 1..(k - 1)
      BY <2>3
    <3>2. Digit(a, i) < Digit(c, i) /\ \A j \in 1..(i - 1) : Digit(a, j) = Digit(c, j)
      BY <2>1, <2>2, <3>1
    <3> QED BY <3>2 DEF DigitsBefore
  <2>4. CASE k < i
    <3>1. k \in 1..(i - 1) /\ \A j \in 1..(k - 1) : j \in 1..(i - 1)
      BY <2>4
    <3>2. Digit(a, k) < Digit(c, k) /\ \A j \in 1..(k - 1) : Digit(a, j) = Digit(c, j)
      BY <2>1, <2>2, <3>1
    <3> QED BY <3>2 DEF DigitsBefore
  <2>5. CASE i = k
    <3>1. Digit(a, i) \in Int /\ Digit(b, i) \in Int /\ Digit(c, i) \in Int
      BY <1>1
    <3>2. Digit(a, i) < Digit(c, i) /\ \A j \in 1..(i - 1) : Digit(a, j) = Digit(c, j)
      BY <2>1, <2>2, <2>5, <3>1
    <3> QED BY <3>2 DEF DigitsBefore
  <2> QED BY <2>3, <2>4, <2>5
<1> QED BY <1>2, <1>3, <1>4

\* RFC 3339 texts of times are ordered strictly and totally.
LEMMA TextsOrder ==
    /\ \A a, b \in Time : ~(TextBefore(a, b) /\ TextBefore(b, a))
    /\ \A a, b \in Time : a # b => TextBefore(a, b) \/ TextBefore(b, a)
    /\ \A a, b, c \in Time : TextBefore(a, b) /\ TextBefore(b, c) => TextBefore(a, c)
    /\ \A a, b \in Time : TextBefore(a, b) => a.second <= b.second
<1>1. \A a \in Time : a.second \in Nat
  BY DEF Time
<1>2. \A a, b \in Time : a.second = b.second /\ a.fraction = b.fraction => a = b
  BY DEF Time
<1>3. \A a, b \in Time : TextBefore(a, b) <=> \/ a.second < b.second
                                              \/ a.second = b.second /\ DigitsBefore(a, b)
  BY TextBeforeIs
<1>4. \A a, b \in Time : ~(TextBefore(a, b) /\ TextBefore(b, a))
  BY <1>1, <1>3, DigitsOrder
<1>5. \A a, b \in Time : a # b => TextBefore(a, b) \/ TextBefore(b, a)
  <2> SUFFICES ASSUME NEW a \in Time, NEW b \in Time, a # b
               PROVE  TextBefore(a, b) \/ TextBefore(b, a)
    OBVIOUS
  <2>1. a.second < b.second \/ b.second < a.second \/ a.second = b.second
    BY <1>1
  <2>2. a.second = b.second => DigitsBefore(a, b) \/ DigitsBefore(b, a)
    BY <1>2, DigitsOrder
  <2> QED BY <1>3, <2>1, <2>2
<1>6. \A a, b, c \in Time : TextBefore(a, b) /\ TextBefore(b, c) => TextBefore(a, c)
  <2> SUFFICES ASSUME NEW a \in Time, NEW b \in Time, NEW c \in Time,
                      TextBefore(a, b), TextBefore(b, c)
               PROVE  TextBefore(a, c)
    OBVIOUS
  <2>1. a.second \in Nat /\ b.second \in Nat /\ c.second \in Nat
    BY <1>1
  <2>2. DigitsBefore(a, b) /\ DigitsBefore(b, c) => DigitsBefore(a, c)
    BY DigitsOrder
  <2>3. \/ a.second < c.second
        \/ a.second = c.second /\ DigitsBefore(a, b) /\ DigitsBefore(b, c)
    BY <1>3, <2>1
  <2> QED BY <1>3, <2>2, <2>3
<1>7. \A a, b \in Time : TextBefore(a, b) => a.second <= b.second
  BY <1>1, <1>3
<1> QED BY <1>4, <1>5, <1>6, <1>7

LEMMA OlderIs ==
    ASSUME NEW p, PriceTable(p)
    PROVE  /\ DOMAIN p = 1..Len(p) /\ Len(p) \in Nat /\ IsFiniteSet(DOMAIN p)
           /\ \A i \in DOMAIN p : p[i] \in Observation /\ p[i].time \in Time
           /\ \A i, j \in DOMAIN p : ~(Older(p, i, j) /\ Older(p, j, i))
           /\ \A i, j \in DOMAIN p : i # j => Older(p, i, j) \/ Older(p, j, i)
           /\ \A i, j, k \in DOMAIN p : Older(p, i, j) /\ Older(p, j, k) => Older(p, i, k)
           /\ \A i, j \in DOMAIN p : Older(p, i, j) => p[i].time.second <= p[j].time.second
<1>1. p \in Seq(Observation)
  BY DEF PriceTable
<1>2. DOMAIN p = 1..Len(p) /\ Len(p) \in Nat /\ \A i \in DOMAIN p : p[i] \in Observation
  <2> HIDE DEF Observation
  <2> QED BY <1>1
<1>3. IsFiniteSet(DOMAIN p)
  <2>1. 1 \in Int /\ Len(p) \in Int
    BY <1>2
  <2> QED BY <1>2, <2>1, FS_Interval
<1>4. \A i \in DOMAIN p : p[i].time \in Time /\ i \in Int
  BY <1>2 DEF Observation
<1>5. \A i, j \in DOMAIN p : ~(Older(p, i, j) /\ Older(p, j, i))
  <2> SUFFICES ASSUME NEW i \in DOMAIN p, NEW j \in DOMAIN p, Older(p, i, j), Older(p, j, i)
               PROVE  FALSE
    OBVIOUS
  <2>1. ~(TextBefore(p[i].time, p[j].time) /\ TextBefore(p[j].time, p[i].time))
    BY <1>4, TextsOrder
  <2>2. p[i].time = p[j].time => ~TextBefore(p[j].time, p[i].time)
                                 /\ ~TextBefore(p[i].time, p[j].time)
    BY <2>1
  <2>3. i \in Int /\ j \in Int
    BY <1>4
  <2> QED BY <2>1, <2>2, <2>3 DEF Older
<1>6. \A i, j \in DOMAIN p : i # j => Older(p, i, j) \/ Older(p, j, i)
  <2> SUFFICES ASSUME NEW i \in DOMAIN p, NEW j \in DOMAIN p, i # j
               PROVE  Older(p, i, j) \/ Older(p, j, i)
    OBVIOUS
  <2>1. \/ p[i].time = p[j].time
        \/ TextBefore(p[i].time, p[j].time) \/ TextBefore(p[j].time, p[i].time)
    BY <1>4, TextsOrder
  <2>2. i < j \/ j < i
    BY <1>4
  <2> QED BY <2>1, <2>2 DEF Older
<1>7. \A i, j, k \in DOMAIN p : Older(p, i, j) /\ Older(p, j, k) => Older(p, i, k)
  <2> SUFFICES ASSUME NEW i \in DOMAIN p, NEW j \in DOMAIN p, NEW k \in DOMAIN p,
                      Older(p, i, j), Older(p, j, k)
               PROVE  Older(p, i, k)
    OBVIOUS
  <2>1. TextBefore(p[i].time, p[j].time) /\ TextBefore(p[j].time, p[k].time)
           => TextBefore(p[i].time, p[k].time)
    BY <1>4, TextsOrder
  <2>2. i < j /\ j < k => i < k
    BY <1>4
  <2> QED BY <2>1, <2>2 DEF Older
<1>8. \A i, j \in DOMAIN p : Older(p, i, j) => p[i].time.second <= p[j].time.second
  <2> SUFFICES ASSUME NEW i \in DOMAIN p, NEW j \in DOMAIN p, Older(p, i, j)
               PROVE  p[i].time.second <= p[j].time.second
    OBVIOUS
  <2>1. TextBefore(p[i].time, p[j].time) => p[i].time.second <= p[j].time.second
    BY <1>4, TextsOrder
  <2>2. p[i].time.second \in Nat
    BY <1>4 DEF Time
  <2>3. p[i].time = p[j].time => p[i].time.second <= p[j].time.second
    BY <2>2
  <2> QED BY <2>1, <2>3 DEF Older
<1> QED BY <1>2, <1>3, <1>4, <1>5, <1>6, <1>7, <1>8

LEMMA ExtremesAre ==
    ASSUME NEW p, PriceTable(p), NEW S \in SUBSET DOMAIN p, S # {}
    PROVE  /\ LastOf(p, S) \in S /\ \A j \in S \ {LastOf(p, S)} : Older(p, j, LastOf(p, S))
           /\ FirstOf(p, S) \in S
           /\ \A i \in S : (\A j \in S \ {i} : Older(p, j, i)) => i = LastOf(p, S)
<1> DEFINE R == {z \in S \X S : z[1] = z[2] \/ Older(p, z[1], z[2])}
           Q == {z \in S \X S : z[1] = z[2] \/ Older(p, z[2], z[1])}
<1>1. /\ \A i, j \in S : <<i, j>> \in R <=> i = j \/ Older(p, i, j)
      /\ \A i, j \in S : <<i, j>> \in Q <=> i = j \/ Older(p, j, i)
  OBVIOUS
<1>2. IsFiniteSet(S)
  BY OlderIs, FS_Subset
<1>3. /\ \A i, j \in S : i # j => Older(p, i, j) \/ Older(p, j, i)
      /\ \A i, j, k \in S : Older(p, i, j) /\ Older(p, j, k) => Older(p, i, k)
      /\ \A i, j \in S : ~(Older(p, i, j) /\ Older(p, j, i))
  BY OlderIs
<1> HIDE DEF R, Q
<1>4. PICK x \in S : \A y \in S : <<y, x>> \in R
  <2>1. \A i, j \in S : <<i, j>> \in R \/ <<j, i>> \in R
    BY <1>1, <1>3
  <2>2. \A i, j, k \in S : <<i, j>> \in R /\ <<j, k>> \in R => <<i, k>> \in R
    BY <1>1, <1>3
  <2> QED BY <1>2, <2>1, <2>2, TopExists
<1>5. PICK z \in S : \A y \in S : <<y, z>> \in Q
  <2>1. \A i, j \in S : <<i, j>> \in Q \/ <<j, i>> \in Q
    BY <1>1, <1>3
  <2>2. \A i, j, k \in S : <<i, j>> \in Q /\ <<j, k>> \in Q => <<i, k>> \in Q
    BY <1>1, <1>3
  <2> QED BY <1>2, <2>1, <2>2, TopExists
<1>6. \A j \in S \ {x} : Older(p, j, x)
  BY <1>1, <1>4
<1>7. \A j \in S \ {z} : Older(p, z, j)
  BY <1>1, <1>5
<1>8. LastOf(p, S) \in S /\ \A j \in S \ {LastOf(p, S)} : Older(p, j, LastOf(p, S))
  BY <1>6 DEF LastOf
<1>9. FirstOf(p, S) \in S
  BY <1>7 DEF FirstOf
<1>10. ASSUME NEW i \in S, \A j \in S \ {i} : Older(p, j, i)
       PROVE  i = LastOf(p, S)
  BY <1>3, <1>8, <1>10
<1> QED BY <1>8, <1>9, <1>10

-----------------------------------------------------------------------------
(* Prices.                                                                 *)

\* The rows the last of which is the latest price.
Comparable(p, key, product) ==
    {i \in DOMAIN p : /\ Identity(p[i].ref) = key /\ p[i].ref.product = product
                      /\ p[i].provenance \in {"observed", "derived"} /\ p[i].evidence # {}}

LEMMA LatestIs ==
    ASSUME NEW p, PriceTable(p), NEW key, NEW product,
           NEW C, C = Comparable(p, key, product)
    PROVE  /\ C \in SUBSET DOMAIN p
           /\ C = {} => LatestPrice(p, key, product) = {}
           /\ C # {} => LatestPrice(p, key, product) = {p[LastOf(p, C)]}
           /\ \A price \in LatestPrice(p, key, product) :
                 price \in Observation /\ HasEvidence(price) /\ Identity(price.ref) = key
<1>1. C \in SUBSET DOMAIN p
  BY DEF Comparable
<1>2. LatestPrice(p, key, product) = IF C = {} THEN {} ELSE {p[LastOf(p, C)]}
  BY DEF LatestPrice, Comparable
<1>3. ASSUME NEW price \in LatestPrice(p, key, product)
      PROVE  price \in Observation /\ HasEvidence(price) /\ Identity(price.ref) = key
  <2>1. C # {} /\ price = p[LastOf(p, C)]
    BY <1>2, <1>3
  <2>2. LastOf(p, C) \in C
    BY <1>1, <2>1, ExtremesAre
  <2>3. /\ LastOf(p, C) \in DOMAIN p /\ p[LastOf(p, C)].evidence # {}
        /\ Identity(p[LastOf(p, C)].ref) = key
    BY <2>2 DEF Comparable
  <2>4. Recordable(p[LastOf(p, C)])
    BY <2>3 DEF PriceTable
  <2>5. p[LastOf(p, C)] \in Observation
    BY <2>3, OlderIs
  <2> QED BY <2>1, <2>3, <2>4, <2>5 DEF Recordable
<1> QED BY <1>1, <1>2, <1>3

LEMMA SameVendor ==
    ASSUME NEW a \in Reference, NEW b \in Reference, Identity(a) = Identity(b)
    PROVE  a.vendor = b.vendor
<1>1. CASE a.vendor # 0 /\ b.vendor # 0
  <2>1. Identity(a)[2] = a.vendor /\ Identity(b)[2] = b.vendor
    BY <1>1 DEF Identity
  <2> QED BY <2>1
<1>2. CASE a.vendor = 0 /\ b.vendor # 0
  <2>1. Identity(a)[1] \in {"item", "product"} /\ Identity(b)[1] = "vendor"
    BY <1>2 DEF Identity
  <2> QED BY <2>1
<1>3. CASE a.vendor # 0 /\ b.vendor = 0
  <2>1. Identity(b)[1] \in {"item", "product"} /\ Identity(a)[1] = "vendor"
    BY <1>3 DEF Identity
  <2> QED BY <2>1
<1> QED BY <1>1, <1>2, <1>3

\* The returned rows of a series.
Series(p, request, key) == {i \in Returned(p, request) : Identity(p[i].ref) = key}

LEMMA SeriesIs ==
    ASSUME NEW p, PriceTable(p), NEW q \in Requests, NEW key
    PROVE  /\ Matching(p, q) \in SUBSET DOMAIN p /\ IsFiniteSet(Matching(p, q))
           /\ Series(p, q, key) \in SUBSET Returned(p, q)
           /\ Returned(p, q) \in SUBSET Matching(p, q)
           /\ Series(p, q, key) \in SUBSET DOMAIN p
           /\ q.limit \in Nat \ {0}
<1>1. q.limit \in Nat \ {0}
  BY ReportsAssumption
<1>2. Matching(p, q) \in SUBSET DOMAIN p
  BY DEF Matching
<1>3. IsFiniteSet(DOMAIN p)
  BY OlderIs
<1>4. IsFiniteSet(Matching(p, q))
  BY <1>2, <1>3, FS_Subset
<1>5. Returned(p, q) \in SUBSET Matching(p, q)
  BY DEF Returned
<1>6. Series(p, q, key) \in SUBSET Returned(p, q)
  BY DEF Series
<1> QED BY <1>1, <1>2, <1>4, <1>5, <1>6

\* Of a series with evidence throughout, the last row is the one whose price reorder
\* candidates are compared with.
LEMMA LastOfSeries ==
    ASSUME NEW p, PriceTable(p), NEW q \in Requests, NEW key, NEW T, T = Series(p, q, key),
           T # {}, \A i \in T : HasEvidence(p[i])
    PROVE  LatestPrice(p, key, q.product) = {p[LastOf(p, T)]}
<1> DEFINE C == Comparable(p, key, q.product)
           n == LastOf(p, T)
           m == LastOf(p, C)
           all == Matching(p, q)
<1>1. /\ all \in SUBSET DOMAIN p /\ IsFiniteSet(all) /\ T \in SUBSET Returned(p, q)
      /\ Returned(p, q) \in SUBSET all /\ T \in SUBSET DOMAIN p /\ q.limit \in Nat \ {0}
  BY SeriesIs
<1>2. C \in SUBSET DOMAIN p /\ (C # {} => LatestPrice(p, key, q.product) = {p[m]})
  BY LatestIs
<1>3. ASSUME NEW i \in T
      PROVE  i \in C
  <2>1. i \in DOMAIN p /\ p[i].ref.product = q.product /\ Identity(p[i].ref) = key
    BY <1>1 DEF Series, Matching
  <2>2. HasEvidence(p[i]) /\ p[i] \in Observation
    BY <2>1, OlderIs
  <2>3. Cardinality(p[i].evidence) = 1
    BY <2>2 DEF HasEvidence
  <2>4. p[i].evidence # {}
    BY <2>3, FS_EmptySet
  <2>5. PICK e \in p[i].evidence : e.provenance = p[i].provenance /\ e.provenance # "inferred"
    BY <2>2, <2>4 DEF HasEvidence
  <2>6. p[i].evidence \in SUBSET Evidence
    BY <2>2 DEF Observation
  <2>7. e.provenance \in {"observed", "derived", "inferred"}
    BY <2>6 DEF Evidence
  <2>8. p[i].provenance \in {"observed", "derived"}
    BY <2>5, <2>7
  <2> QED BY <2>1, <2>4, <2>8 DEF Comparable
<1>4. C # {}
  BY <1>3
<1>5. /\ n \in T /\ \A j \in T \ {n} : Older(p, j, n)
      /\ \A i \in T : (\A j \in T \ {i} : Older(p, j, i)) => i = n
  BY <1>1, ExtremesAre
<1>6. m \in C /\ \A j \in C \ {m} : Older(p, j, m)
  BY <1>2, <1>4, ExtremesAre
<1>7. m \in all
  <2>1. /\ m \in DOMAIN p /\ Identity(p[m].ref) = key /\ p[m].ref.product = q.product
    BY <1>6 DEF Comparable
  <2>2. n \in all /\ Identity(p[n].ref) = key /\ n \in DOMAIN p
    BY <1>1, <1>5 DEF Series
  <2>3. p[m].ref \in Reference /\ p[n].ref \in Reference
    BY <2>1, <2>2, OlderIs DEF Observation
  <2>4. p[m].ref.vendor = p[n].ref.vendor
    BY <2>1, <2>2, <2>3, SameVendor
  <2>5. q.vendor \in {0, p[n].ref.vendor}
    BY <2>2 DEF Matching
  <2> QED BY <2>1, <2>4, <2>5 DEF Matching
<1>8. m \in Returned(p, q)
  <2> DEFINE later(i) == {j \in all : Older(p, i, j)}
             M == later(m)
             N == later(n)
  <2>1. n \in Returned(p, q)
    BY <1>1, <1>5
  <2>2. Cardinality(N) < q.limit
    BY <2>1 DEF Returned
  <2>3. m = n \/ Older(p, n, m)
    BY <1>3, <1>5, <1>6
  <2>4. M \subseteq N
    <3> SUFFICES ASSUME NEW j \in all, Older(p, m, j) PROVE Older(p, n, j)
      OBVIOUS
    <3>1. m \in DOMAIN p /\ n \in DOMAIN p /\ j \in DOMAIN p
      BY <1>1, <1>5, <1>7
    <3> QED BY <2>3, <3>1, OlderIs
  <2>5. IsFiniteSet(N)
    BY <1>1, FS_Subset
  <2> HIDE DEF M, N
  <2>6. /\ Cardinality(M) \in 0..Cardinality(N) /\ Cardinality(N) \in Nat
    BY <2>4, <2>5, PartOf
  <2>7. Cardinality(M) < q.limit
    BY <1>1, <2>2, <2>6
  <2> QED BY <1>7, <2>7 DEF Returned, M
<1>9. m \in T
  <2>1. Identity(p[m].ref) = key
    BY <1>6 DEF Comparable
  <2> QED BY <1>8, <2>1 DEF Series
<1>10. m = n
  BY <1>3, <1>5, <1>6, <1>9
<1> QED BY <1>2, <1>4, <1>10

LEMMA HistoryFits ==
    ASSUME NEW p, PriceTable(p), NEW q \in Requests
    PROVE  HistoryAddsUp(p, q)
<1> DEFINE h == History(p, q)
<1>1. /\ DOMAIN h.series = {Identity(p[i].ref) : i \in Returned(p, q)}
      /\ \A key \in DOMAIN h.series : /\ h.series[key].rows = Series(p, q, key)
                                      /\ h.series[key].trend = Trend(p, Series(p, q, key))
  BY DEF History, Series
<1> HIDE DEF h
<1>2. ASSUME NEW key \in DOMAIN h.series
      PROVE  LET rows == h.series[key].rows
             IN  /\ \A i, j \in rows : SameRow(p[i], p[j]) => i = j
                 /\ \A i \in rows : p[i].time.second <= p[LastOf(p, rows)].time.second
                 /\ \A trend \in h.series[key].trend :
                        /\ {trend.first, trend.latest} \subseteq trend.minimum..trend.maximum
                        /\ {x.amount : x \in LatestPrice(p, key, q.product)} = {trend.latest}
  <2> DEFINE T == Series(p, q, key)
             n == LastOf(p, T)
  <2>1. h.series[key].rows = T /\ h.series[key].trend = Trend(p, T)
    BY <1>1
  <2>2. T \in SUBSET DOMAIN p
    BY SeriesIs
  <2>3. T # {}
    <3>1. PICK i \in Returned(p, q) : key = Identity(p[i].ref)
      BY <1>1
    <3> QED BY <3>1 DEF Series
  <2>4. /\ n \in T /\ \A j \in T \ {n} : Older(p, j, n)
        /\ FirstOf(p, T) \in T
    BY <2>2, <2>3, ExtremesAre
  <2>5. \A i, j \in T : SameRow(p[i], p[j]) => i = j
    BY <2>2 DEF PriceTable
  <2>6. \A i \in T : p[i].time.second <= p[n].time.second
    <3> SUFFICES ASSUME NEW i \in T PROVE p[i].time.second <= p[n].time.second
      OBVIOUS
    <3>1. i \in DOMAIN p /\ n \in DOMAIN p
      BY <2>2, <2>4
    <3>2. CASE i = n
      <4>1. p[n].time.second \in Nat
        BY <3>1, OlderIs DEF Time
      <4> QED BY <3>2, <4>1
    <3>3. CASE i # n
      BY <2>4, <3>1, <3>3, OlderIs
    <3> QED BY <3>2, <3>3
  <2>7. ASSUME NEW trend \in Trend(p, T)
        PROVE  /\ {trend.first, trend.latest} \subseteq trend.minimum..trend.maximum
               /\ {x.amount : x \in LatestPrice(p, key, q.product)} = {trend.latest}
    <3> DEFINE f == [i \in T |-> p[i].amount]
               A == {p[i].amount : i \in T}
    <3>1. /\ \A i \in T : HasEvidence(p[i])
          /\ trend = [first |-> p[FirstOf(p, T)].amount, latest |-> p[n].amount,
                      minimum |-> Min(A), maximum |-> Max(A)]
      BY <2>7 DEF Trend
    <3>2. /\ trend.first = p[FirstOf(p, T)].amount /\ trend.latest = p[n].amount
          /\ trend.minimum = Min(A) /\ trend.maximum = Max(A)
      <4> HIDE DEF A, n
      <4> QED BY <3>1
    <3>3. A = {f[i] : i \in T}
      OBVIOUS
    <3>4. IsFiniteSet(T)
      BY <2>2, OlderIs, FS_Subset
    <3>5. \A i \in T : p[i].amount \in Int
      BY <2>2, OlderIs DEF Observation
    <3>6. A \in SUBSET Int /\ \A i \in T : p[i].amount \in A
      BY <3>5
    <3> HIDE DEF f, T
    <3>7. IsFiniteSet(A)
      BY <3>3, <3>4, ImageIs
    <3>8. A # {}
      BY <2>3, <3>6
    <3> HIDE DEF A
    <3>9. /\ Min(A) \in A /\ \A y \in A : Min(A) <= y
          /\ Max(A) \in A /\ \A y \in A : Max(A) >= y
      BY <3>6, <3>7, <3>8, MinIs, MaxIs
    <3>10. trend.first \in A /\ trend.latest \in A
      BY <2>4, <3>2, <3>6
    <3>11. \A y \in A : y \in Min(A)..Max(A)
      BY <3>6, <3>9
    <3>12. {trend.first, trend.latest} \subseteq trend.minimum..trend.maximum
      BY <3>2, <3>10, <3>11
    <3>13. LatestPrice(p, key, q.product) = {p[n]}
      BY <2>3, <3>1, LastOfSeries DEF T
    <3>14. {x.amount : x \in LatestPrice(p, key, q.product)} = {trend.latest}
      BY <3>2, <3>13
    <3> QED BY <3>12, <3>14
  <2> HIDE DEF T
  <2> QED BY <2>1, <2>5, <2>6, <2>7
<1> QED BY <1>2 DEF HistoryAddsUp, h

-----------------------------------------------------------------------------
(* Reorder candidates.                                                     *)

LEMMA SumOfPositives ==
    ASSUME NEW f, NEW S, IsFiniteSet(S), \A x \in S : f[x] \in Nat \ {0}
    PROVE  Cardinality(S) <= SumFunctionOnSet(f, S)
<1> DEFINE one == [x \in S |-> 1]
<1>1. \A x \in S : one[x] = 1 /\ one[x] \in Int /\ one[x] <= f[x] /\ f[x] \in Int
  OBVIOUS
<1> HIDE DEF one
<1>2. Summable(one, S) /\ Summable(f, S)
  BY <1>1 DEF Summable
<1>3. SumFunctionOnSet(one, S) = Cardinality(S)
  BY <1>1, SumOfOnes
<1>4. SumFunctionOnSet(one, S) <= SumFunctionOnSet(f, S)
  BY <1>1, <1>2, SumGrows
<1> QED BY <1>3, <1>4

LEMMA ComparedAre ==
    ASSUME NEW prices, PriceTable(prices), NEW key, NEW product,
           NEW price \in LatestPrice(prices, key, product)
    PROVE  /\ Identity(price.ref) = key /\ HasEvidence(price)
           /\ Freshness(price, Now) = "unknown" => price.time.second > Now
<1>1. price \in Observation /\ HasEvidence(price) /\ Identity(price.ref) = key
  BY LatestIs
<1>2. price.time.second \in Nat /\ Now \in Nat
  BY <1>1, ReportsAssumption DEF Observation, Time
<1>3. Freshness(price, Now) = "unknown" =>
         price.time.second > Now + 5 * 60 \/ price.time.second = Now + 5 * 60
  BY DEF Freshness
<1> QED BY <1>1, <1>2, <1>3

\* The lines of a candidate.
CandidateLines(t, S, k) == {l \in Eligible(t, S) : CandidateKey(Item(t, l)) = k}

LEMMA CandidatesAre ==
    ASSUME NEW t, Table(t), NEW S \in SUBSET DOMAIN t, NEW prices, PriceTable(prices),
           NEW all, all = ReorderCandidates(t, S, prices),
           NEW k \in DOMAIN all, NEW c, c = all[k]
    PROVE  /\ c.orders <= c.units
           /\ \A paid \in c.paid : /\ paid.day <= c.last
                                   /\ ~(paid.amount <= 0) => paid.day # 0
           /\ \A compared \in c.compared : \E x : compared = LatestPrice(prices, k, x)
<1> DEFINE E == Eligible(t, S)
           L == CandidateLines(t, S, k)
           day(l) == t[l[1]].day
           lastOf(K) == {l \in K : \A m \in K :
                            \/ day(m) < day(l)
                            \/ day(m) = day(l) /\ (m[1] = l[1] => m[2] <= l[2])}
           evident == {l \in L : Unaltered(Item(t, l)) /\ Item(t, l).paid > 0}
           f == [l \in L |-> RetainedUnits(Item(t, l))]
           days == {day(l) : l \in L}
           compared == {LatestPrice(prices, k, Item(t, l).product) : l \in lastOf(L)}
           amount(l) == Rounded(Item(t, l).paid, Item(t, l).quantity)
           paid == IF evident = {} THEN {[day |-> 0, amount |-> 0]}
                   ELSE {[day |-> day(l), amount |-> amount(l)] : l \in lastOf(evident)}
           n == Cardinality(OrdersOf(L))
<1>1. c = [orders |-> n, units |-> SumFunction(f), last |-> Max(days),
           compared |-> compared, paid |-> paid]
  BY Zenon DEF ReorderCandidates, SumOf, CandidateLines
<1>2. k \in {CandidateKey(Item(t, l)) : l \in E}
  BY DEF ReorderCandidates
<1>3. /\ c.orders = n /\ c.units = SumFunction(f) /\ c.last = Max(days)
      /\ c.compared = compared /\ c.paid = paid
  <2> HIDE DEF n, f, days, compared, paid
  <2> QED BY <1>1
<1>4. /\ L # {} /\ L \in SUBSET E /\ IsFiniteSet(E) /\ E \in SUBSET Purchases(t, S)
  <2>1. L # {} /\ L \in SUBSET E
    BY <1>2 DEF CandidateLines
  <2> QED BY <2>1, EligibleAre
<1>5. IsFiniteSet(L) /\ L \in SUBSET Purchases(t, S)
  <2> HIDE DEF L, E
  <2> QED BY <1>4, FS_Subset
<1>6. \A l \in L : f[l] \in Nat \ {0}
  <2>1. \A l \in E : RetainedUnits(Item(t, l)) \in Nat \ {0}
    BY EligibleAre
  <2> QED BY <1>4, <2>1
<1>7. DOMAIN f = L
  OBVIOUS
<1>8. n <= SumFunction(f)
  <2> HIDE DEF f, L
  <2>1. Cardinality(L) <= SumFunctionOnSet(f, L) /\ SumFunctionOnSet(f, L) \in Nat
    BY <1>5, <1>6, SumOfPositives, SumIsNat
  <2>2. n \in 0..Cardinality(L) /\ Cardinality(L) \in Nat
    BY <1>5, ProductsAre, SizeOf
  <2> HIDE DEF n
  <2> QED BY <1>7, <2>1, <2>2 DEF SumFunction
<1>9. \A l \in L : day(l) \in Nat /\ day(l) # 0
  <2>1. \A l \in L : l[1] \in DOMAIN t
    BY <1>5, LinesNarrow
  <2>2. \A r \in DOMAIN t : t[r].day \in Day
    BY DEF Table, OrderRow
  <2>3. \A l \in L : day(l) \in Day
    BY <2>1, <2>2
  <2> HIDE DEF day, L
  <2> QED BY <2>3, DayIs
<1>10. Max(days) \in Nat /\ \A l \in L : day(l) <= Max(days)
  <2> DEFINE g == [l \in L |-> day(l)]
  <2>1. days = {g[l] : l \in L} /\ \A l \in L : day(l) \in days
    OBVIOUS
  <2>2. days \in SUBSET Int /\ days # {} /\ days \in SUBSET Nat
    BY <1>4, <1>9
  <2> HIDE DEF g, days
  <2>3. IsFiniteSet(days)
    <3> HIDE DEF L
    <3> QED BY <1>5, <2>1, ImageIs
  <2>4. Max(days) \in days /\ \A d \in days : Max(days) >= d
    BY <2>2, <2>3, MaxIs
  <2> HIDE DEF day, L
  <2> QED BY <2>1, <2>2, <2>4
<1>11. ASSUME NEW p \in paid
       PROVE  p.day <= Max(days) /\ (~(p.amount <= 0) => p.day # 0)
  <2>1. CASE evident = {}
    <3>1. p = [day |-> 0, amount |-> 0]
      BY <1>11, <2>1
    <3> HIDE DEF days
    <3> QED BY <1>10, <3>1
  <2>2. CASE evident # {}
    <3>1. PICK l \in lastOf(evident) : p = [day |-> day(l), amount |-> amount(l)]
      BY <1>11, <2>2
    <3>2. l \in L
      OBVIOUS
    <3>3. p.day = day(l)
      <4> HIDE DEF day, amount
      <4> QED BY <3>1
    <3> HIDE DEF day, days, L, evident
    <3> QED BY <1>9, <1>10, <3>2, <3>3
  <2> QED BY <2>1, <2>2
<1>12. ASSUME NEW q \in compared
       PROVE  \E x : q = LatestPrice(prices, k, x)
  BY <1>12
<1> HIDE DEF compared, paid, days, n, f
<1> QED BY <1>3, <1>8, <1>11, <1>12

LEMMA ReorderFits ==
    ASSUME NEW t, Table(t), NEW S \in SUBSET DOMAIN t, NEW prices, PriceTable(prices), NEW g,
           g.reorder = ReorderCandidates(t, S, prices)
    PROVE  ReorderAddsUp(g)
<1> SUFFICES ASSUME NEW k \in DOMAIN g.reorder
             PROVE  LET c == g.reorder[k]
                    IN  /\ c.orders <= c.units
                        /\ \A paid \in c.paid, compared \in c.compared :
                              /\ paid.day <= c.last
                              /\ Comparison(paid.amount, compared) = "available" =>
                                    /\ paid.day # 0
                                    /\ \A price \in compared :
                                          /\ Identity(price.ref) = k /\ HasEvidence(price)
                                          /\ Freshness(price, Now) = "unknown"
                                                => price.time.second > Now
  BY DEF ReorderAddsUp
<1> DEFINE c == g.reorder[k]
<1> DEFINE all == g.reorder
<1>0. all = ReorderCandidates(t, S, prices) /\ k \in DOMAIN all /\ c = all[k]
  OBVIOUS
<1> HIDE DEF c, all
<1>1. /\ c.orders <= c.units
      /\ \A paid \in c.paid : /\ paid.day <= c.last
                              /\ ~(paid.amount <= 0) => paid.day # 0
      /\ \A compared \in c.compared : \E x : compared = LatestPrice(prices, k, x)
  BY <1>0, CandidatesAre
<1>2. ASSUME NEW paid \in c.paid, NEW compared \in c.compared,
             Comparison(paid.amount, compared) = "available"
      PROVE  /\ paid.day # 0
             /\ \A price \in compared :
                   /\ Identity(price.ref) = k /\ HasEvidence(price)
                   /\ Freshness(price, Now) = "unknown" => price.time.second > Now
  <2>1. ~(paid.amount <= 0)
    BY <1>2 DEF Comparison
  <2>2. paid.day # 0
    BY <1>1, <2>1
  <2>3. PICK x : compared = LatestPrice(prices, k, x)
    BY <1>1
  <2> QED BY <2>2, <2>3, ComparedAre
<1> QED BY <1>1, <1>2 DEF c, all

-----------------------------------------------------------------------------
(* Purchase contexts.                                                      *)

MonthsOf(t, L) == Months(DaysOf(t, OrdersOf(L)))

\* A month of some lines is the month of one of them.
LEMMA MonthsOfAre ==
    ASSUME NEW t, Table(t), NEW L \in SUBSET Eligible(t, DOMAIN t), L # {},
           NEW M, M = MonthsOf(t, L)
    PROVE  /\ M \in SUBSET Nat
           /\ Min(M) \in M /\ \A m \in M : Min(M) <= m
           /\ Max(M) \in M /\ \A m \in M : m <= Max(M)
<1> DEFINE R == OrdersOf(L)
           D == DaysOf(t, R)
           f == [d \in D |-> Month(d)]
<1>1. DOMAIN t \in SUBSET DOMAIN t
  OBVIOUS
<1>2. L \in SUBSET Purchases(t, DOMAIN t)
  BY <1>1, EligibleAre
<1>3. R \subseteq DOMAIN t /\ R # {}
  BY <1>1, <1>2, ProductsAre
<1> HIDE DEF R
<1>4. IsFiniteSet(D) /\ D \subseteq Day /\ D # {}
  BY <1>3, DaysAre
<1>5. M = {f[d] : d \in D}
  BY DEF MonthsOf, Months, R
<1>6. \A d \in D : f[d] \in Nat
  <2>1. \A d \in D : Month(d) \in Nat
    BY <1>4, DayIs
  <2> HIDE DEF D
  <2> QED BY <2>1
<1> HIDE DEF f, D
<1>7. IsFiniteSet(M)
  BY <1>4, <1>5, ImageIs
<1>8. M \in SUBSET Nat /\ M \in SUBSET Int /\ M # {}
  BY <1>4, <1>5, <1>6
<1>9. /\ Min(M) \in M /\ \A m \in M : Min(M) <= m
      /\ Max(M) \in M /\ \A m \in M : Max(M) >= m
  BY <1>7, <1>8, MinIs, MaxIs
<1> QED BY <1>8, <1>9

LEMMA MonthsOfParts ==
    ASSUME NEW t, NEW L, NEW K \in SUBSET L
    PROVE  MonthsOf(t, K) \subseteq MonthsOf(t, L)
BY DEF MonthsOf, Months, DaysOf, OrdersOf

LEMMA MonthOfLine ==
    ASSUME NEW t, NEW L, NEW m
    PROVE  m \in MonthsOf(t, L) <=> \E l \in L : m = Month(t[l[1]].day)
BY DEF MonthsOf, Months, DaysOf, OrdersOf

LEMMA MatchIs ==
    ASSUME NEW t, Table(t), NEW ref, NEW L, L = MatchLines(t, ref),
           NEW m, m = Match(t, ref)
    PROVE  /\ IsFiniteSet(L) /\ L \in SUBSET Eligible(t, DOMAIN t) /\ Summable(KeptOf(t), L)
           /\ \A l \in L : KeptOf(t)[l] \in Nat
           /\ m.lines = Cardinality(L) /\ m.units = SumFunctionOnSet(KeptOf(t), L)
           /\ m.orders = Cardinality(OrdersOf(L)) /\ IsFiniteSet(OrdersOf(L))
           /\ m.orders \in Nat
           /\ m.first = Min(MonthsOf(t, L)) /\ m.latest = Max(MonthsOf(t, L))
<1> DEFINE f == [l \in L |-> RetainedUnits(Item(t, l))]
           first == Min(MonthsOf(t, L))
           latest == Max(MonthsOf(t, L))
           n == Cardinality(OrdersOf(L))
           k == Cardinality(L)
<1>1. m = [orders |-> n, lines |-> k, units |-> SumFunction(f), first |-> first,
           latest |-> latest]
  BY Zenon DEF Match, SumOf, MonthsOf, DaysOf
<1>2. /\ m.orders = n /\ m.lines = k /\ m.units = SumFunction(f)
      /\ m.first = first /\ m.latest = latest
  <2> HIDE DEF f, first, latest, n, k
  <2> QED BY <1>1
<1>3. L \in SUBSET Eligible(t, DOMAIN t)
  BY DEF MatchLines
<1>4. /\ DOMAIN t \in SUBSET DOMAIN t /\ IsFiniteSet(Eligible(t, DOMAIN t))
      /\ Eligible(t, DOMAIN t) \in SUBSET Purchases(t, DOMAIN t)
      /\ \A l \in Eligible(t, DOMAIN t) : /\ RetainedUnits(Item(t, l)) \in Nat \ {0}
                                          /\ KeptOf(t)[l] = RetainedUnits(Item(t, l))
  <2>1. DOMAIN t \in SUBSET DOMAIN t
    OBVIOUS
  <2> QED BY <2>1, EligibleAre
<1>5. IsFiniteSet(L) /\ L \in SUBSET Purchases(t, DOMAIN t)
  BY <1>3, <1>4, FS_Subset
<1>6. DOMAIN f = L /\ \A l \in L : f[l] \in Nat /\ f[l] = KeptOf(t)[l]
  BY <1>3, <1>4
<1> HIDE DEF f
<1>7. SumFunction(f) = SumFunctionOnSet(KeptOf(t), L) /\ Summable(KeptOf(t), L)
  BY <1>5, <1>6, SameSum
<1>8. IsFiniteSet(OrdersOf(L))
  BY <1>4, <1>5, ProductsAre
<1>9. n \in Nat
  BY <1>8, FS_CardinalityType
<1> HIDE DEF first, latest, n, k
<1> QED BY <1>2, <1>3, <1>5, <1>6, <1>7, <1>8, <1>9 DEF first, latest, n, k

\* Lines are of so many orders at most as their parts and the rest of them.
LEMMA OrdersOfParts ==
    ASSUME NEW t, Table(t), NEW M \in SUBSET Eligible(t, DOMAIN t), NEW U \in SUBSET M
    PROVE  Cardinality(OrdersOf(M))
             <= Cardinality(OrdersOf(U)) + (Cardinality(M) - Cardinality(U))
<1> DEFINE N == M \ U
<1>1. /\ DOMAIN t \in SUBSET DOMAIN t /\ M \in SUBSET Purchases(t, DOMAIN t)
      /\ U \in SUBSET Purchases(t, DOMAIN t) /\ N \in SUBSET Purchases(t, DOMAIN t)
  <2>1. DOMAIN t \in SUBSET DOMAIN t
    OBVIOUS
  <2> QED BY <2>1, EligibleAre
<1>2. /\ IsFiniteSet(OrdersOf(U)) /\ IsFiniteSet(OrdersOf(N)) /\ IsFiniteSet(M)
      /\ Cardinality(OrdersOf(N)) <= Cardinality(N)
  <2> HIDE DEF N
  <2> QED BY <1>1, ProductsAre
<1>3. OrdersOf(M) = OrdersOf(U) \cup OrdersOf(N)
  BY DEF OrdersOf
<1>4. /\ Cardinality(OrdersOf(M)) = Cardinality(OrdersOf(U)) + Cardinality(OrdersOf(N))
                                      - Cardinality(OrdersOf(U) \cap OrdersOf(N))
      /\ IsFiniteSet(OrdersOf(U) \cap OrdersOf(N))
  <2> HIDE DEF N
  <2> QED BY <1>2, <1>3, FS_Union, FS_Intersection
<1>5. IsFiniteSet(N) /\ IsFiniteSet(U) /\ Cardinality(N) = Cardinality(M) - Cardinality(U)
  <2>1. IsFiniteSet(N) /\ IsFiniteSet(U)
    BY <1>2, FS_Subset
  <2>2. M = U \cup N /\ U \cap N = {}
    OBVIOUS
  <2>3. Cardinality(U \cup N) = Cardinality(U) + Cardinality(N) - Cardinality(U \cap N)
    BY <2>1, FS_Union
  <2>4. Cardinality(U) \in Nat /\ Cardinality(N) \in Nat
    BY <2>1, FS_CardinalityType
  <2> HIDE DEF N
  <2> QED BY <2>1, <2>2, <2>3, <2>4, FS_EmptySet
<1>6. /\ Cardinality(OrdersOf(U)) \in Nat /\ Cardinality(OrdersOf(N)) \in Nat
      /\ Cardinality(OrdersOf(U) \cap OrdersOf(N)) \in Nat
      /\ Cardinality(N) \in Nat /\ Cardinality(M) \in Nat /\ Cardinality(U) \in Nat
  BY <1>2, <1>4, <1>5, FS_CardinalityType
<1> HIDE DEF N
<1> QED BY <1>2, <1>4, <1>5, <1>6

\* The exact references asked for of a product, and their lines.
ExactRefs(t, f) ==
    {e \in Asked : e.vendor # 0 /\ MatchLines(t, e) # {} /\ e.product = f.product}
ExactLines(t, f) == [e \in ExactRefs(t, f) |-> MatchLines(t, e)]

\* The lines of exact references are disjoint and of the product.
LEMMA ExactLinesAre ==
    ASSUME NEW t, NEW f \in Asked, f.vendor = 0
    PROVE  /\ IsFiniteSet(ExactRefs(t, f))
           /\ Disjoint(ExactLines(t, f), ExactRefs(t, f))
           /\ Together(ExactLines(t, f), ExactRefs(t, f)) \subseteq MatchLines(t, f)
           /\ \A e \in ExactRefs(t, f) :
                 ExactLines(t, f)[e] \subseteq MatchLines(t, f)
<1> DEFINE P == ExactRefs(t, f)
           A == ExactLines(t, f)
<1>1. P \subseteq Asked /\ \A e \in P : e.vendor # 0 /\ e.product = f.product
  BY DEF ExactRefs
<1>2. IsFiniteSet(P)
  BY <1>1, InsightsAssumption, FS_Subset
<1>3. \A e \in P : A[e] = MatchLines(t, e)
  BY DEF ExactLines
<1>4. \A e \in Asked : \A l : l \in MatchLines(t, e) <=>
         /\ l \in Eligible(t, DOMAIN t) /\ Item(t, l).product = e.product
         /\ e.vendor \in {0, Item(t, l).vendor}
  BY DEF MatchLines
<1> HIDE DEF P, A
<1>5. \A e \in P : A[e] \subseteq MatchLines(t, f)
  BY <1>1, <1>3, <1>4
<1>6. Disjoint(A, P)
  <2>1. ASSUME NEW d \in P, NEW e \in P, NEW l \in A[d], l \in A[e]
        PROVE  d = e
    <3>1. d.vendor = Item(t, l).vendor /\ e.vendor = Item(t, l).vendor
      BY <1>1, <1>3, <1>4, <2>1
    <3>2. d \in [product: Nat \ {0}, vendor: Nat] /\ e \in [product: Nat \ {0}, vendor: Nat]
      BY <1>1, InsightsAssumption
    <3>3. d.product = e.product /\ d.vendor = e.vendor
      BY <1>1, <3>1
    <3> QED BY <3>2, <3>3
  <2> QED BY <2>1 DEF Disjoint
<1>7. Together(A, P) \subseteq MatchLines(t, f)
  BY <1>5 DEF Together
<1> QED BY <1>2, <1>5, <1>6, <1>7 DEF P, A

LEMMA ContextFits ==
    ASSUME NEW t, Table(t), NEW g,
           g.product_only = ProductMatches(t), g.exact = ExactMatches(t)
    PROVE  ContextAddsUp(g)
<1> SUFFICES ASSUME NEW f \in Asked, f.vendor = 0
             PROVE  LET parts == {e \in DOMAIN g.exact : e.product = f.product}
                        sum(field) == SumFunction([e \in parts |-> g.exact[e][field]])
                        whole == g.product_only[f]
                    IN  /\ parts # {} => f \in DOMAIN g.product_only
                        /\ f \in DOMAIN g.product_only =>
                              /\ sum("lines") <= whole.lines /\ sum("units") <= whole.units
                              /\ whole.orders <= sum("orders") + (whole.lines - sum("lines"))
                              /\ \A e \in parts : /\ g.exact[e].orders <= whole.orders
                                                  /\ whole.first <= g.exact[e].first
                                                  /\ g.exact[e].latest <= whole.latest
                              /\ sum("lines") = whole.lines =>
                                    /\ sum("units") = whole.units
                                    /\ \E e \in parts : g.exact[e].first = whole.first
                                    /\ \E e \in parts : g.exact[e].latest = whole.latest
  BY DEF ContextAddsUp
<1> DEFINE V == {e \in DOMAIN g.exact : e.product = f.product}
           W == g.product_only[f]
           M == MatchLines(t, f)
           A == ExactLines(t, f)
           U == Together(A, V)
           B == [e \in V |-> OrdersOf(A[e])]
           lines == [e \in V |-> g.exact[e]["lines"]]
           units == [e \in V |-> g.exact[e]["units"]]
           counts == [e \in V |-> g.exact[e]["orders"]]
<1>1. V = ExactRefs(t, f) /\ \A e \in V : g.exact[e] = Match(t, e)
  BY DEF ExactMatches, Matches, ExactRefs
<1>2. (f \in DOMAIN g.product_only <=> M # {}) /\ (M # {} => W = Match(t, f))
  BY DEF ProductMatches, Matches
<1>3. /\ IsFiniteSet(V) /\ Disjoint(A, V) /\ U \subseteq M
      /\ \A e \in V : A[e] = MatchLines(t, e) /\ A[e] # {} /\ A[e] \subseteq M
  <2>1. \A e \in ExactRefs(t, f) : A[e] = MatchLines(t, e) /\ A[e] # {}
    BY DEF ExactRefs, ExactLines
  <2> HIDE DEF A, M, V
  <2> QED BY <1>1, <2>1, ExactLinesAre DEF A, M
<1>4. /\ IsFiniteSet(M) /\ M \in SUBSET Eligible(t, DOMAIN t)
      /\ \A l \in M : KeptOf(t)[l] \in Nat
      /\ IsFiniteSet(OrdersOf(M))
  BY MatchIs
<1>5. ASSUME NEW e \in V
      PROVE  /\ IsFiniteSet(A[e]) /\ Summable(KeptOf(t), A[e])
             /\ g.exact[e].lines = Cardinality(A[e])
             /\ g.exact[e].units = SumFunctionOnSet(KeptOf(t), A[e])
             /\ g.exact[e].orders = Cardinality(B[e]) /\ IsFiniteSet(B[e])
             /\ B[e] = OrdersOf(A[e])
             /\ g.exact[e].orders \in Nat
             /\ g.exact[e].first = Min(MonthsOf(t, A[e]))
             /\ g.exact[e].latest = Max(MonthsOf(t, A[e]))
  <2> DEFINE L == MatchLines(t, e)
             m == g.exact[e]
  <2>1. m = Match(t, e) /\ A[e] = L /\ B[e] = OrdersOf(L)
    BY <1>1, <1>3
  <2>2. /\ IsFiniteSet(L) /\ Summable(KeptOf(t), L)
        /\ m.lines = Cardinality(L)
        /\ m.units = SumFunctionOnSet(KeptOf(t), L)
        /\ m.orders = Cardinality(OrdersOf(L)) /\ IsFiniteSet(OrdersOf(L))
        /\ m.orders \in Nat
        /\ m.first = Min(MonthsOf(t, L)) /\ m.latest = Max(MonthsOf(t, L))
    BY <2>1, MatchIs
  <2> HIDE DEF L, m, A, B
  <2>3. /\ IsFiniteSet(A[e]) /\ Summable(KeptOf(t), A[e])
        /\ m.lines = Cardinality(A[e])
        /\ m.units = SumFunctionOnSet(KeptOf(t), A[e])
        /\ m.orders = Cardinality(B[e]) /\ IsFiniteSet(B[e]) /\ B[e] = OrdersOf(A[e])
        /\ m.orders \in Nat
        /\ m.first = Min(MonthsOf(t, A[e])) /\ m.latest = Max(MonthsOf(t, A[e]))
    BY <2>1, <2>2
  <2> QED BY <2>3 DEF m
<1>6. /\ DOMAIN lines = V /\ \A e \in V : lines[e] = g.exact[e].lines
      /\ DOMAIN units = V /\ \A e \in V : units[e] = g.exact[e].units
      /\ DOMAIN counts = V /\ \A e \in V : counts[e] = g.exact[e].orders
  OBVIOUS
<1>7. V # {} => M # {}
  BY <1>3
<1>8. ASSUME M # {}
      PROVE  /\ W.lines = Cardinality(M) /\ W.units = SumFunctionOnSet(KeptOf(t), M)
             /\ W.orders = Cardinality(OrdersOf(M))
             /\ W.first = Min(MonthsOf(t, M)) /\ W.latest = Max(MonthsOf(t, M))
  <2>1. W = Match(t, f)
    BY <1>2, <1>8
  <2> HIDE DEF W
  <2> QED BY <2>1, MatchIs
<1> HIDE DEF V, W, M, A, U, B, lines, units, counts
<1>9. SumFunction(lines) = Cardinality(U)
  <2>1. \A e \in V : IsFiniteSet(A[e]) /\ lines[e] = Cardinality(A[e])
    BY <1>5, <1>6
  <2>2. SumFunctionOnSet(lines, V) = Cardinality(Together(A, V))
    BY <1>3, <2>1, SizesAddUp
  <2> QED BY <1>6, <2>2 DEF SumFunction, U
<1>10. SumFunction(units) = SumFunctionOnSet(KeptOf(t), U)
  <2>1. \A e \in V : /\ Summable(KeptOf(t), A[e])
                     /\ units[e] = SumFunctionOnSet(KeptOf(t), A[e])
    BY <1>5, <1>6
  <2>2. IsFiniteSet(V) /\ Disjoint(A, V)
    BY <1>3
  <2>3. SumFunctionOnSet(units, V) = SumFunctionOnSet(KeptOf(t), Together(A, V))
    BY <2>1, <2>2, SumOfParts
  <2> QED BY <1>6, <2>3 DEF SumFunction, U
<1>11. /\ SumFunction(counts) \in Nat
       /\ Cardinality(OrdersOf(U)) <= SumFunction(counts)
  <2>1. \A e \in V : /\ counts[e] \in Nat /\ IsFiniteSet(B[e])
                     /\ Cardinality(B[e]) <= counts[e]
    <3>1. \A e \in V : counts[e] \in Nat /\ IsFiniteSet(B[e]) /\ counts[e] = Cardinality(B[e])
      BY <1>5, <1>6
    <3> QED BY <3>1
  <2>2. /\ Cardinality(Together(B, V)) <= SumFunctionOnSet(counts, V)
        /\ SumFunctionOnSet(counts, V) \in Nat
    BY <1>3, <2>1, UnionBySum
  <2>3. Together(B, V) = OrdersOf(U)
    <3>1. \A e \in V : B[e] = {l[1] : l \in A[e]}
      BY <1>5 DEF OrdersOf
    <3>2. \A r : r \in Together(B, V) <=> \E e \in V : r \in B[e]
      BY DEF Together
    <3>3. \A l : l \in U <=> \E e \in V : l \in A[e]
      BY DEF Together, U
    <3>4. \A r : r \in OrdersOf(U) <=> \E l \in U : r = l[1]
      BY DEF OrdersOf
    <3>5. \A r : (\E e \in V : r \in B[e]) <=> \E l \in U : r = l[1]
      BY <3>1, <3>3
    <3> QED BY <3>2, <3>4, <3>5
  <2> QED BY <1>6, <2>2, <2>3 DEF SumFunction
<1>12. /\ Cardinality(U) \in Nat /\ Cardinality(M) \in Nat
       /\ Cardinality(U) <= Cardinality(M) /\ (Cardinality(U) = Cardinality(M) => U = M)
  BY <1>3, <1>4, FS_Subset, FS_CardinalityType
<1>13. SumFunctionOnSet(KeptOf(t), U) <= SumFunctionOnSet(KeptOf(t), M)
  BY <1>3, <1>4, SumOfPart
<1>14. ASSUME M # {}
       PROVE  W.orders <= SumFunction(counts) + (W.lines - SumFunction(lines))
  <2>1. Cardinality(OrdersOf(M))
          <= Cardinality(OrdersOf(U)) + (Cardinality(M) - Cardinality(U))
    BY <1>3, <1>4, OrdersOfParts
  <2>2. OrdersOf(U) \subseteq OrdersOf(M)
    BY <1>3 DEF OrdersOf
  <2>3. Cardinality(OrdersOf(M)) \in Nat /\ Cardinality(OrdersOf(U)) \in Nat
    BY <1>4, <2>2, FS_Subset, FS_CardinalityType
  <2> QED BY <1>8, <1>9, <1>11, <1>12, <1>14, <2>1, <2>3
<1>15. ASSUME NEW e \in V
       PROVE  /\ g.exact[e].orders <= W.orders /\ W.first <= g.exact[e].first
              /\ g.exact[e].latest <= W.latest
              /\ g.exact[e].first \in Nat /\ g.exact[e].latest \in Nat
  <2>1. A[e] \in SUBSET M /\ A[e] # {} /\ M # {} /\ A[e] \in SUBSET Eligible(t, DOMAIN t)
    BY <1>3, <1>4
  <2>2. Cardinality(B[e]) <= Cardinality(OrdersOf(M))
    <3>1. B[e] \in SUBSET OrdersOf(M)
      BY <1>5, <2>1 DEF OrdersOf
    <3> QED BY <1>4, <3>1, FS_Subset
  <2>3. /\ MonthsOf(t, A[e]) \subseteq Nat
        /\ Min(MonthsOf(t, A[e])) \in MonthsOf(t, A[e])
        /\ Max(MonthsOf(t, A[e])) \in MonthsOf(t, A[e])
    BY <2>1, MonthsOfAre
  <2>4. /\ \A m \in MonthsOf(t, M) : Min(MonthsOf(t, M)) <= m
        /\ \A m \in MonthsOf(t, M) : m <= Max(MonthsOf(t, M))
    BY <1>4, <2>1, MonthsOfAre
  <2>5. MonthsOf(t, A[e]) \subseteq MonthsOf(t, M)
    BY <2>1, MonthsOfParts
  <2> QED BY <1>5, <1>8, <2>1, <2>2, <2>3, <2>4, <2>5
<1>16. ASSUME M # {}, U = M
       PROVE  /\ \E e \in V : g.exact[e].first = W.first
              /\ \E e \in V : g.exact[e].latest = W.latest
  <2>1. /\ MonthsOf(t, M) \subseteq Nat
        /\ Min(MonthsOf(t, M)) \in MonthsOf(t, M) /\ Max(MonthsOf(t, M)) \in MonthsOf(t, M)
    BY <1>4, <1>16, MonthsOfAre
  <2>2. ASSUME NEW m \in MonthsOf(t, M)
        PROVE  \E e \in V : m \in MonthsOf(t, A[e])
    <3>1. PICK l \in M : m = Month(t[l[1]].day)
      BY MonthOfLine
    <3>2. PICK e \in V : l \in A[e]
      BY <1>16 DEF U, Together
    <3>3. m \in MonthsOf(t, A[e])
      BY <3>1, <3>2, MonthOfLine
    <3> QED BY <3>3
  <2>3. ASSUME NEW e \in V
        PROVE  \A m \in MonthsOf(t, A[e]) : g.exact[e].first <= m /\ m <= g.exact[e].latest
    <3>1. A[e] # {} /\ A[e] \in SUBSET Eligible(t, DOMAIN t)
      BY <1>3, <1>4
    <3> QED BY <1>5, <3>1, MonthsOfAre
  <2>4. \E e \in V : g.exact[e].first = W.first
    <3>1. PICK e \in V : W.first \in MonthsOf(t, A[e])
      BY <1>8, <1>16, <2>1, <2>2
    <3>2. g.exact[e].first <= W.first /\ W.first \in Nat
      BY <1>8, <1>16, <2>1, <2>3, <3>1
    <3>3. g.exact[e].first = W.first
      BY <1>15, <3>2
    <3> QED BY <3>3
  <2>5. \E e \in V : g.exact[e].latest = W.latest
    <3>1. PICK e \in V : W.latest \in MonthsOf(t, A[e])
      BY <1>8, <1>16, <2>1, <2>2
    <3>2. W.latest <= g.exact[e].latest /\ W.latest \in Nat
      BY <1>8, <1>16, <2>1, <2>3, <3>1
    <3>3. g.exact[e].latest = W.latest
      BY <1>15, <3>2
    <3> QED BY <3>3
  <2> QED BY <2>4, <2>5
<1>17. V # {} => f \in DOMAIN g.product_only
  BY <1>2, <1>7
<1>18. ASSUME f \in DOMAIN g.product_only
       PROVE  /\ SumFunction(lines) <= W.lines /\ SumFunction(units) <= W.units
              /\ W.orders <= SumFunction(counts) + (W.lines - SumFunction(lines))
              /\ \A e \in V : /\ g.exact[e].orders <= W.orders
                              /\ W.first <= g.exact[e].first
                              /\ g.exact[e].latest <= W.latest
              /\ SumFunction(lines) = W.lines =>
                    /\ SumFunction(units) = W.units
                    /\ \E e \in V : g.exact[e].first = W.first
                    /\ \E e \in V : g.exact[e].latest = W.latest
  <2>1. M # {}
    BY <1>2, <1>18
  <2>2. SumFunction(lines) <= W.lines /\ SumFunction(units) <= W.units
    BY <1>8, <1>9, <1>10, <1>12, <1>13, <2>1
  <2>3. SumFunction(lines) = W.lines => U = M
    BY <1>8, <1>9, <1>12, <2>1
  <2>4. U = M => SumFunction(units) = W.units
    BY <1>8, <1>10, <2>1
  <2> QED BY <1>14, <1>15, <1>16, <2>1, <2>2, <2>3, <2>4
<1> QED BY <1>17, <1>18 DEF V, W, lines, units, counts

-----------------------------------------------------------------------------
(* Lists, exports and previews.                                            *)

LEMMA ExportIsValid ==
    ASSUME NEW r, Lists(reader[r].got)
    PROVE  ValidPage(Exported(r))
<1> DEFINE rows == reader[r].got.rows
           items == reader[r].got.items
           page == [o \in DOMAIN items |-> [rows[o] EXCEPT !.items = items[o]]]
<1>1. Exported(r) = page
  BY DEF Exported
<1>2. ASSUME NEW o \in DOMAIN items
      PROVE  ValidOrder([rows[o] EXCEPT !.items = items[o]])
  <2> DEFINE x == rows[o]
             k == items[o]
             y == [x EXCEPT !.items = k]
  <2>1. /\ x \in OrderRow /\ ValidOrder(x)
        /\ \A i \in DOMAIN items[o] : ValidItem(items[o][i])
    BY DEF Lists
  <2> HIDE DEF x, k
  <2>2. /\ y.won = x.won /\ y.amount = x.amount /\ y.discount = x.discount
        /\ y.shipping = x.shipping /\ y.items = k
    <3>1. x \in OrderRow
      BY <2>1
    <3> QED BY <3>1 DEF OrderRow
  <2> HIDE DEF y
  <2>3. \A i \in DOMAIN k : ValidItem(k[i])
    BY <2>1 DEF k
  <2>4. ValidOrder(y)
    BY <2>1, <2>2, <2>3 DEF ValidOrder
  <2> QED BY <2>4 DEF y, x, k
<1>3. DOMAIN page = DOMAIN items /\ \A o \in DOMAIN items : page[o] = [rows[o] EXCEPT !.items = items[o]]
  OBVIOUS
<1> HIDE DEF page, rows, items
<1>4. \A o \in DOMAIN page : ValidOrder(page[o])
  BY <1>2, <1>3
<1> QED BY <1>1, <1>4 DEF ValidPage

-----------------------------------------------------------------------------
(* The numbers of a report.                                                *)

LEMMA AnalysisFits ==
    ASSUME NEW t, Table(t), NEW S \in SUBSET DOMAIN t, NEW g,
           g.coverage = ProductCoverage(t, S), g.repeat = RepeatPurchases(t, S),
           g.categories = CategoryLines(t, S)
    PROVE  /\ g.coverage.lines <= g.repeat.lines
           /\ g.coverage.lines <= g.categories.lines
           /\ g.coverage.units <= g.categories.units
<1> DEFINE E == Eligible(t, S)
           R == Retained(t, S)
           K == {l \in Lines(t, Standing(t, S)) : /\ Item(t, l).status = "none"
                                                  /\ RetainedUnits(Item(t, l)) > 0}
           f == [l \in K |-> RetainedUnits(Item(t, l))]
           e == [l \in E |-> RetainedUnits(Item(t, l))]
           k == Cardinality(K)
<1>1. Standing(t, S) \in SUBSET DOMAIN t
  BY DEF Standing
<1>2. IsFiniteSet(Lines(t, Standing(t, S)))
  BY <1>1, LinesAre
<1>3. /\ E \subseteq R /\ R \subseteq Purchases(t, S) /\ Purchases(t, S) \subseteq Lines(t, S)
      /\ IsFiniteSet(R)
  BY LinesNarrow
<1>4. IsFiniteSet(K)
  <2>1. K \subseteq Lines(t, Standing(t, S))
    OBVIOUS
  <2> HIDE DEF K
  <2> QED BY <1>2, <2>1, FS_Subset
<1>5. E \subseteq K
  <2> SUFFICES ASSUME NEW l \in E PROVE l \in K
    OBVIOUS
  <2>1. l \in Lines(t, S) /\ l \in R
    BY <1>3
  <2>2. ~t[l[1]].canceled /\ Item(t, l).status = "none" /\ RetainedUnits(Item(t, l)) > 0
    BY <2>1 DEF Retained, Eligible
  <2>3. l \in Lines(t, Standing(t, S))
    BY <2>1, <2>2 DEF Lines, Standing
  <2> QED BY <2>2, <2>3
<1>6. g.categories = [lines |-> k, units |-> SumFunction(f)]
  BY Zenon DEF CategoryLines, SumOf
<1>7. DOMAIN f = K /\ \A l \in K : f[l] = RetainedUnits(Item(t, l))
  OBVIOUS
<1>8. \A l \in E : e[l] = RetainedUnits(Item(t, l))
  OBVIOUS
<1>9. \A l \in K : RetainedUnits(Item(t, l)) \in Nat
  <2>1. \A l \in Lines(t, Standing(t, S)) : Item(t, l) \in ItemRow /\ ValidItem(Item(t, l))
    BY <1>1, LinesAre
  <2>2. \A l \in K : l \in Lines(t, Standing(t, S))
    OBVIOUS
  <2> HIDE DEF K
  <2> QED BY <2>1, <2>2, ItemIs
<1>10. /\ g.coverage.lines = Cardinality(E) /\ g.coverage.units = SumFunctionOnSet(e, E)
       /\ g.repeat.lines = Cardinality(R)
  BY CoverageWithin, RepeatWithin
<1> HIDE DEF E, R, K, f, e
<1>11. SumFunctionOnSet(e, E) \in 0..SumFunctionOnSet(f, K) /\ SumFunctionOnSet(f, K) \in Nat
  <2>1. \A l \in K : f[l] \in Nat
    BY <1>7, <1>9
  <2>2. \A l \in E : e[l] \in Nat /\ e[l] <= f[l]
    BY <1>5, <1>7, <1>8, <1>9
  <2> QED BY <1>4, <1>5, <2>1, <2>2, SumWithin
<1>12. /\ Cardinality(E) \in 0..k /\ k \in Nat
       /\ Cardinality(E) \in 0..Cardinality(R) /\ Cardinality(R) \in Nat
  BY <1>3, <1>4, <1>5, PartOf
<1> HIDE DEF k
<1>13. g.categories.lines = k /\ g.categories.units = SumFunctionOnSet(f, K)
  BY <1>6, <1>7 DEF SumFunction
<1> QED BY <1>10, <1>11, <1>12, <1>13

\* All queries of a plan have an answer.
Has(N, plan) == \A i \in DOMAIN plan : plan[i] \in N

LEMMA HasNames ==
    ASSUME NEW N
    PROVE  /\ Has(N, Plan.spend) => "totals" \in N /\ "commerce" \in N
           /\ Has(N, StatsPlan) =>
                 {"order_states", "item_totals", "hours", "weekdays", "months", "brands",
                  "deliveries"} \subseteq N
           /\ Has(N, InsightPlan) =>
                 {"dates", "day_series", "branded", "timed", "returns", "speed", "repeat",
                  "baskets", "medians", "compositions"} \subseteq N
           /\ Has(N, ProductPlan) =>
                 {"window", "coverage", "products", "highest_unit", "lowest_unit",
                  "highest_day", "lowest_day"} \subseteq N
           /\ Has(N, Plan.reorder) => "reorder" \in N
           /\ Has(N, Plan.membership) => "order_dates" \in N /\ "membership" \in N
           /\ Has(N, Plan.context) => "product_only" \in N /\ "exact" \in N
<1>1. Has(N, Plan.spend) => "totals" \in N /\ "commerce" \in N
  <2>1. Plan["spend"] = <<"totals", "commerce">>
    BY DEF Plan
  <2> QED BY <2>1 DEF Has
<1>2. Has(N, Plan.reorder) => "reorder" \in N
  <2>1. Plan["reorder"] = <<"reorder">>
    BY DEF Plan
  <2> QED BY <2>1 DEF Has
<1>3. Has(N, Plan.membership) => "order_dates" \in N /\ "membership" \in N
  <2>1. Plan["membership"] = <<"order_dates", "membership">>
    BY DEF Plan
  <2> QED BY <2>1 DEF Has
<1>4. Has(N, Plan.context) => "product_only" \in N /\ "exact" \in N
  <2>1. Plan["context"] = <<"product_only", "exact">>
    BY DEF Plan
  <2> QED BY <2>1 DEF Has
<1>5. Has(N, StatsPlan) =>
         {"order_states", "item_totals", "hours", "weekdays", "months", "brands",
          "deliveries"} \subseteq N
  <2>1. Has(N, StatsPlan) => \A i \in 1..7 : StatsPlan[i] \in N
    BY PartsAre DEF Has
  <2>2. /\ StatsPlan[1] = "order_states" /\ StatsPlan[2] = "item_totals"
        /\ StatsPlan[3] = "hours" /\ StatsPlan[4] = "weekdays" /\ StatsPlan[5] = "months"
        /\ StatsPlan[6] = "brands" /\ StatsPlan[7] = "deliveries"
    BY DEF StatsPlan
  <2> QED BY <2>1, <2>2
<1>6. Has(N, InsightPlan) =>
         {"dates", "day_series", "branded", "timed", "returns", "speed", "repeat",
          "baskets", "medians", "compositions"} \subseteq N
  <2>1. Has(N, InsightPlan) => \A i \in 1..10 : InsightPlan[i] \in N
    BY PartsAre DEF Has
  <2>2. /\ InsightPlan[1] = "dates" /\ InsightPlan[2] = "day_series"
        /\ InsightPlan[3] = "branded" /\ InsightPlan[4] = "timed"
        /\ InsightPlan[5] = "returns" /\ InsightPlan[6] = "speed"
        /\ InsightPlan[7] = "repeat" /\ InsightPlan[8] = "baskets"
        /\ InsightPlan[9] = "medians" /\ InsightPlan[10] = "compositions"
    BY DEF InsightPlan
  <2> QED BY <2>1, <2>2
<1>7. Has(N, ProductPlan) =>
         {"window", "coverage", "products", "highest_unit", "lowest_unit",
          "highest_day", "lowest_day"} \subseteq N
  <2>1. Has(N, ProductPlan) => \A i \in 1..7 : ProductPlan[i] \in N
    BY PartsAre DEF Has
  <2>2. /\ ProductPlan[1] = "window" /\ ProductPlan[2] = "coverage"
        /\ ProductPlan[3] = "products" /\ ProductPlan[4] = "highest_unit"
        /\ ProductPlan[5] = "lowest_unit" /\ ProductPlan[6] = "highest_day"
        /\ ProductPlan[7] = "lowest_day"
    BY DEF ProductPlan
  <2> QED BY <2>1, <2>2
<1> QED BY <1>1, <1>2, <1>3, <1>4, <1>5, <1>6, <1>7

LEMMA HasParts ==
    ASSUME NEW N
    PROVE  /\ Has(N, Plan.stats) => Has(N, StatsPlan)
           /\ Has(N, Plan.products) => Has(N, ProductPlan)
           /\ Has(N, Plan.insights) => Has(N, StatsPlan) /\ Has(N, InsightPlan)
           /\ Has(N, Plan.analysis) => /\ Has(N, StatsPlan) /\ Has(N, InsightPlan)
                                       /\ Has(N, ProductPlan) /\ "categories" \in N
<1>1. Plan.stats = StatsPlan /\ Plan.products = ProductPlan
  BY DEF Plan
<1> DEFINE short == Plan.insights
           long == Plan.analysis
<1>2. /\ DOMAIN short = 1..18 /\ DOMAIN long = 1..25
      /\ \A i \in 1..7 : short[i] = StatsPlan[i] /\ long[i] = StatsPlan[i]
      /\ \A i \in 8..17 : short[i] = InsightPlan[i - 7] /\ long[i] = InsightPlan[i - 7]
      /\ short[18] = "categories" /\ long[18] = "categories"
      /\ \A i \in 19..25 : long[i] = ProductPlan[i - 18]
  BY LongPlans
<1>3. DOMAIN StatsPlan = 1..7 /\ DOMAIN InsightPlan = 1..10 /\ DOMAIN ProductPlan = 1..7
  BY PartsAre
<1> HIDE DEF short, long
<1>4. ASSUME Has(N, short)
      PROVE  Has(N, StatsPlan) /\ Has(N, InsightPlan)
  <2>1. \A i \in 1..18 : short[i] \in N
    BY <1>2, <1>4 DEF Has
  <2>2. \A i \in 1..7 : StatsPlan[i] \in N
    BY <1>2, <2>1
  <2>3. ASSUME NEW i \in 1..10
        PROVE  InsightPlan[i] \in N
    <3>1. i + 7 \in 8..17 /\ i + 7 \in 1..18 /\ (i + 7) - 7 = i
      OBVIOUS
    <3> QED BY <1>2, <2>1, <3>1
  <2> QED BY <1>3, <2>2, <2>3 DEF Has
<1>5. ASSUME Has(N, long)
      PROVE  /\ Has(N, StatsPlan) /\ Has(N, InsightPlan)
             /\ Has(N, ProductPlan) /\ "categories" \in N
  <2>1. \A i \in 1..25 : long[i] \in N
    BY <1>2, <1>5 DEF Has
  <2>2. \A i \in 1..7 : StatsPlan[i] \in N
    BY <1>2, <2>1
  <2>3. ASSUME NEW i \in 1..10
        PROVE  InsightPlan[i] \in N
    <3>1. i + 7 \in 8..17 /\ i + 7 \in 1..25 /\ (i + 7) - 7 = i
      OBVIOUS
    <3> QED BY <1>2, <2>1, <3>1
  <2>4. ASSUME NEW i \in 1..7
        PROVE  ProductPlan[i] \in N
    <3>1. i + 18 \in 19..25 /\ i + 18 \in 1..25 /\ (i + 18) - 18 = i
      OBVIOUS
    <3> QED BY <1>2, <2>1, <3>1
  <2>5. "categories" \in N
    <3>1. 18 \in 1..25
      OBVIOUS
    <3> QED BY <1>2, <2>1, <3>1
  <2> QED BY <1>3, <2>2, <2>3, <2>4, <2>5 DEF Has
<1> QED BY <1>1, <1>4, <1>5 DEF short, long

\* The numbers of a report that has the answers of a plan fit together, when they are
\* those of one admitted table, of whole days of it.
LEMMA AnswersFit ==
    ASSUME NEW t, Table(t), NEW S \in SUBSET DOMAIN t, WholeDays(t, S),
           NEW prices, PriceTable(prices), NEW g, Answered(g, t, S, prices),
           NEW N, N = DOMAIN g
    PROVE  /\ Has(N, Plan.spend) => SpendAddsUp(g)
           /\ Has(N, Plan.stats) => StatsAddUp(g)
           /\ Has(N, Plan.insights) => InsightsAddUp(g)
           /\ Has(N, Plan.products) => ProductsAddUp(g)
           /\ Has(N, Plan.reorder) => ReorderAddsUp(g)
           /\ Has(N, Plan.membership) => MembershipAddsUp(g)
           /\ Has(N, Plan.context) => ContextAddsUp(g)
           /\ Has(N, Plan.analysis) =>
                 /\ g.coverage.lines <= g.repeat.lines
                 /\ g.coverage.lines <= g.categories.lines
                 /\ g.coverage.units <= g.categories.units
<1>0. \A n \in N : g[n] = Query(n, t, S, prices)
  BY DEF Answered
<1>1. Has(N, Plan.spend) => SpendAddsUp(g)
  <2> SUFFICES ASSUME Has(N, Plan.spend) PROVE SpendAddsUp(g)
    OBVIOUS
  <2>1. "totals" \in N /\ "commerce" \in N
    BY HasNames
  <2>2. g.totals = Totals(t, S) /\ g.commerce = Commerce(t, S)
    <3>1. g["totals"] = Query("totals", t, S, prices)
      BY <1>0, <2>1
    <3>2. g.totals = Totals(t, S)
      BY <3>1, QueryIs
    <3>3. g["commerce"] = Query("commerce", t, S, prices)
      BY <1>0, <2>1
    <3>4. g.commerce = Commerce(t, S)
      BY <3>3, QueryIs
    <3> QED BY <3>2, <3>4
  <2> QED BY <2>2, SpendFits
<1>2. ASSUME Has(N, StatsPlan)
      PROVE  /\ g.hours = HourStats(t, S) /\ g.weekdays = WeekdayStats(t, S)
             /\ g.deliveries = DeliveryStats(t, S) /\ g.months = MonthStats(t, S)
             /\ g.brands = TopBrands(t, S) /\ g.order_states = OrderStates(t, S)
             /\ g.item_totals = ItemTotals(t, S)
  <2>1. {"order_states", "item_totals", "hours", "weekdays", "months", "brands",
         "deliveries"} \subseteq N
    BY <1>2, HasNames
  <2>2. g.hours = HourStats(t, S) /\ g.weekdays = WeekdayStats(t, S)
    <3>1. g["hours"] = Query("hours", t, S, prices)
      BY <1>0, <2>1
    <3>2. g.hours = HourStats(t, S)
      BY <3>1, QueryIs
    <3>3. g["weekdays"] = Query("weekdays", t, S, prices)
      BY <1>0, <2>1
    <3>4. g.weekdays = WeekdayStats(t, S)
      BY <3>3, QueryIs
    <3> QED BY <3>2, <3>4
  <2>3. g.deliveries = DeliveryStats(t, S) /\ g.months = MonthStats(t, S)
    <3>1. g["deliveries"] = Query("deliveries", t, S, prices)
      BY <1>0, <2>1
    <3>2. g.deliveries = DeliveryStats(t, S)
      BY <3>1, QueryIs
    <3>3. g["months"] = Query("months", t, S, prices)
      BY <1>0, <2>1
    <3>4. g.months = MonthStats(t, S)
      BY <3>3, QueryIs
    <3> QED BY <3>2, <3>4
  <2>4. g.brands = TopBrands(t, S) /\ g.order_states = OrderStates(t, S)
    <3>1. g["brands"] = Query("brands", t, S, prices)
      BY <1>0, <2>1
    <3>2. g.brands = TopBrands(t, S)
      BY <3>1, QueryIs
    <3>3. g["order_states"] = Query("order_states", t, S, prices)
      BY <1>0, <2>1
    <3>4. g.order_states = OrderStates(t, S)
      BY <3>3, QueryIs
    <3> QED BY <3>2, <3>4
  <2>5. g.item_totals = ItemTotals(t, S)
    <3>1. g["item_totals"] = Query("item_totals", t, S, prices)
      BY <1>0, <2>1
    <3> QED BY <3>1, QueryIs
  <2> QED BY <2>2, <2>3, <2>4, <2>5
<1>3. ASSUME Has(N, InsightPlan)
      PROVE  /\ g.dates = InsightDates(t, S) /\ g.day_series = OrderDaySeries(t, S)
             /\ g.branded = Cardinality(Branded(t, S)) /\ g.timed = TimedOrders(t, S)
             /\ g.returns = TimedReturns(t, S) /\ g.speed = DeliverySpeed(t, S)
             /\ g.repeat = RepeatPurchases(t, S) /\ g.baskets = Baskets(t, S)
             /\ g.medians = BasketMedians(t, S) /\ g.compositions = Compositions(t, S)
  <2>1. {"dates", "day_series", "branded", "timed", "returns", "speed", "repeat",
         "baskets", "medians", "compositions"} \subseteq N
    BY <1>3, HasNames
  <2>2. g.dates = InsightDates(t, S) /\ g.day_series = OrderDaySeries(t, S)
    <3>1. g["dates"] = Query("dates", t, S, prices)
      BY <1>0, <2>1
    <3>2. g.dates = InsightDates(t, S)
      BY <3>1, QueryIs
    <3>3. g["day_series"] = Query("day_series", t, S, prices)
      BY <1>0, <2>1
    <3>4. g.day_series = OrderDaySeries(t, S)
      BY <3>3, QueryIs
    <3> QED BY <3>2, <3>4
  <2>3. g.branded = Cardinality(Branded(t, S)) /\ g.timed = TimedOrders(t, S)
    <3>1. g["branded"] = Query("branded", t, S, prices)
      BY <1>0, <2>1
    <3>2. g.branded = Cardinality(Branded(t, S))
      BY <3>1, QueryIs
    <3>3. g["timed"] = Query("timed", t, S, prices)
      BY <1>0, <2>1
    <3>4. g.timed = TimedOrders(t, S)
      BY <3>3, QueryIs
    <3> QED BY <3>2, <3>4
  <2>4. g.returns = TimedReturns(t, S) /\ g.speed = DeliverySpeed(t, S)
    <3>1. g["returns"] = Query("returns", t, S, prices)
      BY <1>0, <2>1
    <3>2. g.returns = TimedReturns(t, S)
      BY <3>1, QueryIs
    <3>3. g["speed"] = Query("speed", t, S, prices)
      BY <1>0, <2>1
    <3>4. g.speed = DeliverySpeed(t, S)
      BY <3>3, QueryIs
    <3> QED BY <3>2, <3>4
  <2>5. g.repeat = RepeatPurchases(t, S) /\ g.baskets = Baskets(t, S)
    <3>1. g["repeat"] = Query("repeat", t, S, prices)
      BY <1>0, <2>1
    <3>2. g.repeat = RepeatPurchases(t, S)
      BY <3>1, QueryIs
    <3>3. g["baskets"] = Query("baskets", t, S, prices)
      BY <1>0, <2>1
    <3>4. g.baskets = Baskets(t, S)
      BY <3>3, QueryIs
    <3> QED BY <3>2, <3>4
  <2>6. g.medians = BasketMedians(t, S) /\ g.compositions = Compositions(t, S)
    <3>1. g["medians"] = Query("medians", t, S, prices)
      BY <1>0, <2>1
    <3>2. g.medians = BasketMedians(t, S)
      BY <3>1, QueryIs
    <3>3. g["compositions"] = Query("compositions", t, S, prices)
      BY <1>0, <2>1
    <3>4. g.compositions = Compositions(t, S)
      BY <3>3, QueryIs
    <3> QED BY <3>2, <3>4
  <2> QED BY <2>2, <2>3, <2>4, <2>5, <2>6
<1>4. ASSUME Has(N, ProductPlan)
      PROVE  /\ g.window = SpendWindow(t, S) /\ g.coverage = ProductCoverage(t, S)
             /\ g.products = ProductAggregates(t, S)
             /\ g.highest_unit = PaidUnit(t, S, TRUE) /\ g.lowest_unit = PaidUnit(t, S, FALSE)
             /\ g.highest_day = SpendDay(t, S, TRUE) /\ g.lowest_day = SpendDay(t, S, FALSE)
  <2>1. {"window", "coverage", "products", "highest_unit", "lowest_unit",
         "highest_day", "lowest_day"} \subseteq N
    BY <1>4, HasNames
  <2>2. g.window = SpendWindow(t, S) /\ g.coverage = ProductCoverage(t, S)
    <3>1. g["window"] = Query("window", t, S, prices)
      BY <1>0, <2>1
    <3>2. g.window = SpendWindow(t, S)
      BY <3>1, QueryIs
    <3>3. g["coverage"] = Query("coverage", t, S, prices)
      BY <1>0, <2>1
    <3>4. g.coverage = ProductCoverage(t, S)
      BY <3>3, QueryIs
    <3> QED BY <3>2, <3>4
  <2>3. g.products = ProductAggregates(t, S)
    <3>1. g["products"] = Query("products", t, S, prices)
      BY <1>0, <2>1
    <3> QED BY <3>1, QueryIs
  <2>4. g.highest_unit = PaidUnit(t, S, TRUE) /\ g.lowest_unit = PaidUnit(t, S, FALSE)
    <3>1. g["highest_unit"] = Query("highest_unit", t, S, prices)
      BY <1>0, <2>1
    <3>2. g.highest_unit = PaidUnit(t, S, TRUE)
      BY <3>1, QueryIs
    <3>3. g["lowest_unit"] = Query("lowest_unit", t, S, prices)
      BY <1>0, <2>1
    <3>4. g.lowest_unit = PaidUnit(t, S, FALSE)
      BY <3>3, QueryIs
    <3> QED BY <3>2, <3>4
  <2>5. g.highest_day = SpendDay(t, S, TRUE) /\ g.lowest_day = SpendDay(t, S, FALSE)
    <3>1. g["highest_day"] = Query("highest_day", t, S, prices)
      BY <1>0, <2>1
    <3>2. g.highest_day = SpendDay(t, S, TRUE)
      BY <3>1, QueryIs
    <3>3. g["lowest_day"] = Query("lowest_day", t, S, prices)
      BY <1>0, <2>1
    <3>4. g.lowest_day = SpendDay(t, S, FALSE)
      BY <3>3, QueryIs
    <3> QED BY <3>2, <3>4
  <2> QED BY <2>2, <2>3, <2>4, <2>5
<1>5. Has(N, Plan.stats) => StatsAddUp(g)
  BY <1>2, HasParts, StatsFit
<1>6. Has(N, Plan.insights) => InsightsAddUp(g)
  BY <1>2, <1>3, HasParts, InsightsFit
<1>7. Has(N, Plan.products) => ProductsAddUp(g)
  BY <1>4, HasParts, ProductsFit
<1>8. Has(N, Plan.reorder) => ReorderAddsUp(g)
  <2> SUFFICES ASSUME Has(N, Plan.reorder) PROVE ReorderAddsUp(g)
    OBVIOUS
  <2>1. "reorder" \in N
    BY HasNames
  <2>2. g.reorder = ReorderCandidates(t, S, prices)
    <3>1. g["reorder"] = Query("reorder", t, S, prices)
      BY <1>0, <2>1
    <3> QED BY <3>1, QueryIs
  <2> QED BY <2>2, ReorderFits
<1>9. Has(N, Plan.membership) => MembershipAddsUp(g)
  <2> SUFFICES ASSUME Has(N, Plan.membership) PROVE MembershipAddsUp(g)
    OBVIOUS
  <2>1. "order_dates" \in N /\ "membership" \in N
    BY HasNames
  <2>2. g.order_dates = OrderDates(t) /\ g.membership = MembershipCosts(t)
    <3>1. g["order_dates"] = Query("order_dates", t, S, prices)
      BY <1>0, <2>1
    <3>2. g.order_dates = OrderDates(t)
      BY <3>1, QueryIs
    <3>3. g["membership"] = Query("membership", t, S, prices)
      BY <1>0, <2>1
    <3>4. g.membership = MembershipCosts(t)
      BY <3>3, QueryIs
    <3> QED BY <3>2, <3>4
  <2> QED BY <2>2, MembershipFits
<1>10. Has(N, Plan.context) => ContextAddsUp(g)
  <2> SUFFICES ASSUME Has(N, Plan.context) PROVE ContextAddsUp(g)
    OBVIOUS
  <2>1. "product_only" \in N /\ "exact" \in N
    BY HasNames
  <2>2. g.product_only = ProductMatches(t) /\ g.exact = ExactMatches(t)
    <3>1. g["product_only"] = Query("product_only", t, S, prices)
      BY <1>0, <2>1
    <3>2. g.product_only = ProductMatches(t)
      BY <3>1, QueryIs
    <3>3. g["exact"] = Query("exact", t, S, prices)
      BY <1>0, <2>1
    <3>4. g.exact = ExactMatches(t)
      BY <3>3, QueryIs
    <3> QED BY <3>2, <3>4
  <2> QED BY <2>2, ContextFits
<1>11. Has(N, Plan.analysis) =>
          /\ g.coverage.lines <= g.repeat.lines
          /\ g.coverage.lines <= g.categories.lines
          /\ g.coverage.units <= g.categories.units
  <2> SUFFICES ASSUME Has(N, Plan.analysis)
               PROVE  /\ g.coverage.lines <= g.repeat.lines
                      /\ g.coverage.lines <= g.categories.lines
                      /\ g.coverage.units <= g.categories.units
    OBVIOUS
  <2>1. Has(N, InsightPlan) /\ Has(N, ProductPlan) /\ "categories" \in N
    BY HasParts
  <2>2. g.categories = CategoryLines(t, S)
    <3>1. g["categories"] = Query("categories", t, S, prices)
      BY <1>0, <2>1
    <3> QED BY <3>1, QueryIs
  <2>3. g.coverage = ProductCoverage(t, S) /\ g.repeat = RepeatPurchases(t, S)
    BY <1>3, <1>4, <2>1
  <2> QED BY <2>2, <2>3, AnalysisFits
<1> QED BY <1>1, <1>5, <1>6, <1>7, <1>8, <1>9, <1>10, <1>11

LEMMA ReportFits ==
    ASSUME IInv, NEW r \in Reader, reader[r].op \in DOMAIN Plan,
           NEW g, g = reader[r].got, NEW N, N = DOMAIN g
    PROVE  /\ Has(N, Plan.spend) => SpendAddsUp(g)
           /\ Has(N, Plan.stats) => StatsAddUp(g)
           /\ Has(N, Plan.insights) => InsightsAddUp(g)
           /\ Has(N, Plan.products) => ProductsAddUp(g)
           /\ Has(N, Plan.reorder) => ReorderAddsUp(g)
           /\ \A q \in Requests : HistoryAddsUp(reader[r].prices, q)
           /\ Has(N, Plan.membership) => MembershipAddsUp(g)
           /\ Has(N, Plan.context) => ContextAddsUp(g)
           /\ Has(N, Plan.analysis) =>
                 /\ g.coverage.lines <= g.repeat.lines
                 /\ g.coverage.lines <= g.categories.lines
                 /\ g.coverage.units <= g.categories.units
<1> DEFINE l == reader[r]
           t == l.snapshot
           S == Selected(t, l.filter)
<1>1. l.op \in Reports /\ Fits(l)
  BY PlansAre DEF IInv, Session
<1>2. Table(t) /\ PriceTable(l.prices) /\ Answered(g, t, S, l.prices)
  BY <1>1 DEF Fits
<1>3. S \in SUBSET DOMAIN t /\ WholeDays(t, S)
  BY SelectedDays
<1> HIDE DEF l, t, S
<1>4. \A q \in Requests : HistoryAddsUp(l.prices, q)
  BY <1>2, HistoryFits
<1>5. \A q \in Requests : HistoryAddsUp(reader[r].prices, q)
  BY <1>4 DEF l
<1> QED BY <1>2, <1>3, <1>5, AnswersFit

(* Whatever is committed between its queries, the numbers of a report fit together: all *)
(* of them are of the orders its transaction read first.  All that a list or an export  *)
(* holds can be imported, though it has no transaction, and what a preview shows can be *)
(* synced.                                                                              *)
THEOREM ReportsFitTogether == Spec => []ReportsAddUp
<1>1. IInv => ReportsAddUp
  <2> SUFFICES ASSUME IInv, NEW r \in Reader
               PROVE  /\ Finished(r) =>
                            LET g == reader[r].got
                                has(plan) == \A i \in DOMAIN plan : plan[i] \in DOMAIN g
                            IN  /\ has(Plan.spend) => SpendAddsUp(g)
                                /\ has(Plan.stats) => StatsAddUp(g)
                                /\ has(Plan.insights) => InsightsAddUp(g)
                                /\ has(Plan.products) => ProductsAddUp(g)
                                /\ has(Plan.reorder) => ReorderAddsUp(g)
                                /\ has(Plan.history) =>
                                      \A q \in Requests : HistoryAddsUp(reader[r].prices, q)
                                /\ has(Plan.membership) => MembershipAddsUp(g)
                                /\ has(Plan.context) => ContextAddsUp(g)
                                /\ has(Plan.analysis) =>
                                      /\ g.coverage.lines <= g.repeat.lines
                                      /\ g.coverage.lines <= g.categories.lines
                                      /\ g.coverage.units <= g.categories.units
                      /\ reader[r].op = "export" => ValidPage(Exported(r))
                      /\ reader[r].op = "preview" => ValidPage(reader[r].got)
    BY DEF ReportsAddUp
  <2> DEFINE g == reader[r].got
             N == DOMAIN g
             L == g.coverage.lines
  <2>1. /\ reader[r].op = "export" => ValidPage(Exported(r))
        /\ reader[r].op = "preview" => ValidPage(reader[r].got)
    BY ExportIsValid DEF IInv, Session
  <2>2. Finished(r) =>
           /\ Has(N, Plan.spend) => SpendAddsUp(g)
           /\ Has(N, Plan.stats) => StatsAddUp(g)
           /\ Has(N, Plan.insights) => InsightsAddUp(g)
           /\ Has(N, Plan.products) => ProductsAddUp(g)
           /\ Has(N, Plan.reorder) => ReorderAddsUp(g)
           /\ \A q \in Requests : HistoryAddsUp(reader[r].prices, q)
           /\ Has(N, Plan.membership) => MembershipAddsUp(g)
           /\ Has(N, Plan.context) => ContextAddsUp(g)
           /\ Has(N, Plan.analysis) => /\ L <= g.repeat.lines /\ L <= g.categories.lines
                                       /\ g.coverage.units <= g.categories.units
    <3> SUFFICES ASSUME reader[r].op \in DOMAIN Plan
                 PROVE  /\ Has(N, Plan.spend) => SpendAddsUp(g)
                        /\ Has(N, Plan.stats) => StatsAddUp(g)
                        /\ Has(N, Plan.insights) => InsightsAddUp(g)
                        /\ Has(N, Plan.products) => ProductsAddUp(g)
                        /\ Has(N, Plan.reorder) => ReorderAddsUp(g)
                        /\ \A q \in Requests : HistoryAddsUp(reader[r].prices, q)
                        /\ Has(N, Plan.membership) => MembershipAddsUp(g)
                        /\ Has(N, Plan.context) => ContextAddsUp(g)
                        /\ Has(N, Plan.analysis) =>
                              /\ L <= g.repeat.lines /\ L <= g.categories.lines
                              /\ g.coverage.units <= g.categories.units
      BY DEF Finished
    <3> QED BY ReportFits
  <2> QED BY <2>1, <2>2 DEF Has
<1> QED BY <1>1, Invariance, PTL

=============================================================================

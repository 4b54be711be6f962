---------------------------- MODULE OrderQueries ----------------------------
(***************************************************************************)
(* Queries over the retained orders: internal/store/orders.go,             *)
(* product_insights.go and CategoryBreakdown.  A query is an operator on   *)
(* the orders it sees, of the counts and amounts it returns; names and the *)
(* averages computed from those counts are left out, and hours are reduced *)
(* to the parts of a day that are counted.                                 *)
(*                                                                         *)
(* AnyItem is a plausible mistake in the operator next to it.              *)
(***************************************************************************)
EXTENDS Integers, Sequences, FiniteSets, FiniteSetsExt

-----------------------------------------------------------------------------

\* A value that may be missing.
Optional(S) == {v \in SUBSET S : \A a, b \in v : a = b}

\* A day is the number of its month times 100 plus its date; months have thirty
\* days.
Month(day) == day \div 100
Day == {day \in Nat : Month(day) >= 1 /\ day % 100 \in 1..30}

\* A product, a vendor item, a name or a brand is a number, 0 if there is none: a line
\* may have either identifier, both or neither, and a vendor item may occur under
\* several products.  delivered has the hours from the purchase to the delivery, if
\* both are known.
ItemRow == [product: Nat, vendor: Nat, name: Nat, brand: Nat, delivered: Optional(Int),
            kind: {"product_purchase", "membership_fee"},
            status: {"none", "cancelled", "returned"},
            quantity: Int, cancelled: Int, returned: Int, paid: Int]

\* time is the part of the day of purchased_at_time, if there is one.
OrderRow == [day: Day, time: {"none", "night", "day", "late_evening"},
             canceled: BOOLEAN, won: BOOLEAN, amount: Int, discount: Int, shipping: Int,
             items: Seq(ItemRow)]

AnyItem(item) == item.quantity >= 1
ValidItem(item) ==
    /\ item.name # 0 /\ item.quantity >= 1 /\ item.paid >= 0
    /\ item.cancelled \in 0..item.quantity /\ item.returned \in 0..item.quantity

\* validateOrder
ValidOrder(o) ==
    /\ o.won /\ o.amount >= 0 /\ o.discount >= 0 /\ o.shipping >= 0
    /\ \A i \in DOMAIN o.items : ValidItem(o.items[i])

ValidPage(page) == \A r \in DOMAIN page : ValidOrder(page[r])

\* The WHERE clause on dates that every query has.
Selected(table, f) ==
    {r \in DOMAIN table : /\ f.from = 0 \/ table[r].day >= f.from
                          /\ f.to = 0 \/ table[r].day <= f.to}

Months(S) == {Month(day) : day \in S}

\* Weekday 0 is Sunday.
DayNumber(day) == Month(day) * 30 + (day % 100)
Weekday(day) == DayNumber(day) % 7
Year(day) == (Month(day) - 1) \div 12

Amount(table, S) == SumFunction([r \in S |-> table[r].amount])

-----------------------------------------------------------------------------
(* Items of the orders S of a table, as pairs of an order and a position.  *)

Lines(table, S) == UNION {{r} \X DOMAIN table[r].items : r \in S}
Item(table, l) == table[l[1]].items[l[2]]

Purchases(table, S) ==
    {l \in Lines(table, S) : Item(table, l).kind = "product_purchase"}

\* On an order that stands, of a line that was neither cancelled nor returned.
Retained(table, S) ==
    {l \in Purchases(table, S) : /\ ~table[l[1]].canceled
                                 /\ Item(table, l).status = "none"}

RetainedUnits(item) ==
    LET units == item.quantity - item.cancelled - item.returned
    IN  IF units > 0 THEN units ELSE 0

Eligible(table, S) ==
    {l \in Retained(table, S) : RetainedUnits(Item(table, l)) > 0}

\* product_key: a line is identified by its vendor item or else by its product.
NoKey == <<"none", 0>>
Key(item) ==
    IF item.vendor # 0 THEN <<"vendor", item.vendor>>
    ELSE IF item.product # 0 THEN <<"product", item.product>> ELSE NoKey

Identified(table, L) == {l \in L : Key(Item(table, l)) # NoKey}
ProductsOf(table, L) == {Key(Item(table, l)) : l \in Identified(table, L)}
OrdersOf(L) == {l[1] : l \in L}
Unaltered(item) == item.cancelled = 0 /\ item.returned = 0

SumOf(table, L, op(_)) == SumFunction([l \in L |-> op(Item(table, l))])

\* Orders without items count as purchases of products.
ProductOrders(table, S) ==
    {r \in S : table[r].items = <<>> \/ r \in OrdersOf(Purchases(table, S))}

\* ... and so do those with a line that was neither cancelled nor returned.
KeptOrders(table, S) ==
    {r \in S : \/ table[r].items = <<>>
               \/ \E l \in Purchases(table, {r}) : Item(table, l).status = "none"}

Standing(table, S) == {r \in S : ~table[r].canceled}
At(table, S, time) == {r \in S : table[r].time \in time}

AllTimes == {"night", "day", "late_evening"}
Timed(table, S) == At(table, S, AllTimes)

-----------------------------------------------------------------------------
(* The queries.  S: the orders the filter selects.                         *)

Totals(t, S) ==
    [orders |-> Cardinality(S), amount |-> Amount(t, S),
     canceled |-> Cardinality(S \ Standing(t, S)),
     canceledAmount |-> Amount(t, S \ Standing(t, S)),
     standingAmount |-> Amount(t, Standing(t, S))]

OfKind(t, S, kind) ==
    LET bought == OrdersOf(Purchases(t, S))
        paying == OrdersOf(Lines(t, S)) \ bought
    IN  CASE kind = "product_purchase" -> bought
          [] kind = "membership_fee"   -> paying
          [] kind = "unclassified"     -> S \ (bought \cup paying)

Commerce(t, S) ==
    [kind \in {"product_purchase", "membership_fee", "unclassified"} |->
        Totals(t, OfKind(t, S, kind))]

OrderStates(t, S) ==
    [orders |-> Cardinality(ProductOrders(t, S)),
     canceled |-> Cardinality(ProductOrders(t, S) \ Standing(t, S))]

ItemTotals(t, S) ==
    LET all == Purchases(t, S)
        canceled == {l \in all : \/ Item(t, l).status = "cancelled"
                                 \/ Item(t, l).cancelled > 0 /\ Item(t, l).returned = 0}
        returned == {l \in all : \/ Item(t, l).status = "returned"
                                 \/ Item(t, l).returned > 0}
    IN  [lines |-> Cardinality(all),
         units |-> SumOf(t, all, LAMBDA i : i.quantity),
         canceledUnits |-> SumOf(t, canceled,
             LAMBDA i : IF i.cancelled > 0 THEN i.cancelled ELSE i.quantity),
         returnedLines |-> Cardinality(returned),
         returnedUnits |-> SumOf(t, returned,
             LAMBDA i : IF i.returned > 0 THEN i.returned ELSE i.quantity)]

\* purchaseMonthStats
MonthStats(t, S) ==
    LET kept == KeptOrders(t, S)
        of(month) == {r \in kept : Month(t[r].day) = month}
    IN  [month \in Months({t[r].day : r \in kept}) |-> Totals(t, of(month))]

\* purchaseHourBuckets
HourStats(t, S) ==
    LET kept == Standing(t, KeptOrders(t, S))
    IN  [time \in AllTimes |-> Cardinality(At(t, kept, {time}))]

InsightDates(t, S) ==
    LET kept == Standing(t, KeptOrders(t, S))
        days == {t[r].day : r \in kept}
    IN  [first |-> IF days = {} THEN 0 ELSE Min(days),
         last |-> IF days = {} THEN 0 ELSE Max(days),
         days |-> Cardinality(days), orders |-> Cardinality(kept)]

OrderDaySeries(t, S) ==
    LET kept == Standing(t, KeptOrders(t, S))
    IN  [day \in {t[r].day : r \in kept} |->
            Cardinality({r \in kept : t[r].day = day})]

TimedOrders(t, S) ==
    LET all == Timed(t, ProductOrders(t, S))
        night == At(t, all, {"night"})
        count(R) == Cardinality(R)
    IN  [timed |-> count(Standing(t, all)), night |-> count(Standing(t, night)),
         late |-> count(Standing(t, At(t, all, {"late_evening"}))),
         weekend |-> count({r \in Standing(t, all) : Weekday(t[r].day) \in {0, 6}}),
         nightAll |-> count(night), nightCanceled |-> count(night \ Standing(t, night)),
         otherAll |-> count(all \ night),
         otherCanceled |-> count(all \ night) - count(Standing(t, all \ night))]

TimedReturns(t, S) ==
    LET lines(time) == Purchases(t, At(t, S, time))
        units(L) == SumOf(t, L, LAMBDA i : i.quantity)
        back(L) == SumOf(t, L, LAMBDA i : IF i.returned > 0 THEN i.returned
                                          ELSE IF i.status = "returned" THEN i.quantity
                                          ELSE 0)
    IN  [nightUnits |-> units(lines({"night"})),
         nightReturned |-> back(lines({"night"})),
         otherUnits |-> units(lines(AllTimes \ {"night"})),
         otherReturned |-> back(lines(AllTimes \ {"night"}))]

Occasions(t, L, p) == OrdersOf({l \in L : Key(Item(t, l)) = p})

RepeatPurchases(t, S) ==
    LET retained == Retained(t, S)
        products == ProductsOf(t, retained)
        count(p) == Cardinality(Occasions(t, retained, p))
        repeated == {p \in products : count(p) >= 2}
    IN  [products |-> Cardinality(products), repeated |-> Cardinality(repeated),
         occasions |-> SumFunction([p \in products |-> count(p)]),
         repeatOccasions |-> SumFunction([p \in repeated |-> count(p)]),
         choices |-> SumFunction([p \in repeated |-> count(p) - 1]),
         most |-> IF products = {} THEN 0 ELSE Max({count(p) : p \in products}),
         lines |-> Cardinality(retained),
         identified |-> Cardinality(Identified(t, retained))]

Baskets(t, S) ==
    LET retained == Retained(t, S)
        of(r) == {l \in retained : l[1] = r}
        value(L) == SumOf(t, L, LAMBDA i : i.paid)
        single == {r \in OrdersOf(retained) : Cardinality(of(r)) = 1}
    IN  [orders |-> Cardinality(OrdersOf(retained)),
         lines |-> Cardinality(retained), single |-> Cardinality(single),
         value |-> value(retained),
         singleValue |-> value(UNION {of(r) : r \in single})]

\* The baskets whose lines are all identified.
Compositions(t, S) ==
    LET retained == Retained(t, S)
        of(r) == {l \in retained : l[1] = r}
        valid == {r \in OrdersOf(retained) : of(r) = Identified(t, of(r))}
    IN  [orders |-> Cardinality(valid),
         single |-> Cardinality({r \in valid : Cardinality(ProductsOf(t, of(r))) = 1})]

\* CategoryBreakdown does not look at the kind of a line.
CategoryLines(t, S) ==
    LET lines == {l \in Lines(t, Standing(t, S)) :
                     /\ Item(t, l).status = "none"
                     /\ RetainedUnits(Item(t, l)) > 0}
    IN  [lines |-> Cardinality(lines), units |-> SumOf(t, lines, RetainedUnits)]

SpendWindow(t, S) ==
    LET bought == Standing(t, OrdersOf(Purchases(t, S)))
        days == {t[r].day : r \in bought}
    IN  [first |-> IF days = {} THEN 0 ELSE Min(days),
         last |-> IF days = {} THEN 0 ELSE Max(days),
         active |-> Cardinality(Months(days)),
         calendar |-> IF days = {} THEN 0
                      ELSE Month(Max(days)) - Month(Min(days)) + 1,
         amount |-> Amount(t, bought)]

ProductCoverage(t, S) ==
    LET eligible == Eligible(t, S)
    IN  [lines |-> Cardinality(eligible), units |-> SumOf(t, eligible, RetainedUnits),
         identified |-> Cardinality(Identified(t, eligible)),
         products |-> Cardinality(ProductsOf(t, eligible)),
         spendable |-> Cardinality({l \in Identified(t, eligible) :
                                        Unaltered(Item(t, l))})]

ProductAggregates(t, S) ==
    LET eligible == Eligible(t, S)
        of(p) == {l \in eligible : Key(Item(t, l)) = p}
        paid(p) == {l \in of(p) : Unaltered(Item(t, l))}
    IN  [p \in ProductsOf(t, eligible) |->
            [orders |-> Cardinality(OrdersOf(of(p))),
             units |-> SumOf(t, of(p), RetainedUnits),
             paid |-> SumOf(t, paid(p), LAMBDA i : i.paid),
             spendUnits |-> SumOf(t, paid(p), LAMBDA i : i.quantity)]]

\* spendDayInsight, the day and its spendDayProducts; the latter only look at the
\* date.  No day has the date 0.
SpendDay(t, S, highest) ==
    LET bought == Standing(t, OrdersOf(Purchases(t, S)))
        on(day) == {r \in bought : t[r].day = day}
        spent(day) == Amount(t, on(day))
        days == {day \in {t[r].day : r \in bought} : spent(day) > 0}
        extreme == {day \in days : \A other \in days :
                       IF highest THEN spent(day) >= spent(other)
                       ELSE spent(day) <= spent(other)}
        day == Min(extreme)
        lines == Eligible(t, {r \in DOMAIN t : t[r].day = day})
    IN  IF days = {} THEN [day |-> 0, amount |-> 0, orders |-> 0, lines |-> 0]
        ELSE [day |-> day, amount |-> spent(day), orders |-> Cardinality(on(day)),
              lines |-> Cardinality(lines)]

=============================================================================

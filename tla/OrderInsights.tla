--------------------------- MODULE OrderInsights ---------------------------
(***************************************************************************)
(* Queries of insights, reorder candidates, membership costs and purchase  *)
(* contexts (internal/store/orders.go, product_insights.go, account.go and *)
(* recommendation_context.go), and what is computed from the results of    *)
(* several: peaks, streaks, delivery trends, purchase days and the         *)
(* shopping profile (internal/insights).  Averages and shares are compared *)
(* as fractions, before they are rounded; the entropy of purchase days and *)
(* what depends on it are left out.                                        *)
(***************************************************************************)
EXTENDS OrderQueries, PriceHistory

CONSTANTS
    Asked,          \* [product, vendor]: references of a context, vendor 0 for any
    BrandLimit,     \* brands a report lists
    Least           \* samples an axis or a badge of the profile needs

ASSUME InsightsAssumption ==
    /\ IsFiniteSet(Asked) /\ Asked \subseteq [product: Nat \ {0}, vendor: Nat]
    /\ BrandLimit \in Nat \ {0}
    /\ Least \in [{"sample", "baskets", "clockDays", "days", "streak", "combo", "clock",
                   "deliveries", "regular"} -> Nat \ {0}]

-----------------------------------------------------------------------------
(* Order statistics.                                                       *)

\* The kth smallest value of a set of pairs of anything and a value.
Ranked(E, k) ==
    CHOOSE v \in {e[2] : e \in E} :
        /\ Cardinality({e \in E : e[2] < v}) < k
        /\ Cardinality({e \in E : e[2] <= v}) >= k

\* Twice the median: the mean of the two in the middle, which may be one.
TwiceMedian(E) ==
    LET n == Cardinality(E)
    IN  IF n = 0 THEN 0 ELSE Ranked(E, (n + 1) \div 2) + Ranked(E, (n + 2) \div 2)

Rounded(part, whole) == (2 * part + whole) \div (2 * whole)

Peak(f) == IF DOMAIN f = {} THEN 0 ELSE Max({f[k] : k \in DOMAIN f})

-----------------------------------------------------------------------------
(* Queries.                                                                *)

\* purchaseWeekdayBuckets
WeekdayStats(t, S) ==
    LET kept == Timed(t, Standing(t, KeptOrders(t, S)))
    IN  [w \in {Weekday(t[r].day) : r \in kept} |->
            Cardinality({r \in kept : Weekday(t[r].day) = w})]

Branded(t, S) == {l \in Retained(t, S) : Item(t, l).brand # 0}

\* topBrandBuckets: the brands with most lines, of equals the first by name.
TopBrands(t, S) ==
    LET of(b) == {l \in Branded(t, S) : Item(t, l).brand = b}
        brands == {Item(t, l).brand : l \in Branded(t, S)}
        count == [b \in brands |-> Cardinality(of(b))]
        before(b) == {c \in brands : \/ count[c] > count[b]
                                     \/ count[c] = count[b] /\ c < b}
    IN  [b \in {b \in brands : Cardinality(before(b)) < BrandLimit} |-> count[b]]

\* The distinct deliveries of each order, but those before the purchase.
Deliveries(t, S) ==
    {e \in UNION {{r} \X UNION {Item(t, l).delivered : l \in Purchases(t, {r})} :
                     r \in Timed(t, Standing(t, S))} : e[2] >= 0}

\* durationSummary, the average as a total
DurationSummary(E) ==
    LET n == Cardinality(E)
    IN  [count |-> n, total |-> SumFunction([e \in E |-> e[2]]),
         median |-> TwiceMedian(E),
         p90 |-> IF n = 0 THEN 0 ELSE Ranked(E, (9 * n + 9) \div 10)]

\* deliveryDurationStats
DeliveryStats(t, S) ==
    LET all == Deliveries(t, S)
        years == {Year(t[e[1]].day) : e \in all}
    IN  [all |-> DurationSummary(all),
         byYear |-> [y \in years |->
                        DurationSummary({e \in all : Year(t[e[1]].day) = y})]]

DeliverySpeed(t, S) ==
    LET all == Deliveries(t, S)
        within(h) == Cardinality({e \in all : e[2] <= h})
    IN  [shipments |-> Cardinality(all), day |-> within(24), twoDays |-> within(48)]

\* The medians of the values of baskets with one line and with several.
BasketMedians(t, S) ==
    LET retained == Retained(t, S)
        of(r) == {l \in retained : l[1] = r}
        values(R) == {<<r, SumOf(t, of(r), LAMBDA i : i.paid)>> : r \in R}
        single == {r \in OrdersOf(retained) : Cardinality(of(r)) = 1}
        median(R) == Rounded(TwiceMedian(values(R)), 2)
    IN  [single |-> median(single), multi |-> median(OrdersOf(retained) \ single)]

\* paidUnitHighlight
PaidUnit(t, S, highest) ==
    LET lines == {l \in Identified(t, Retained(t, S)) :
                     Unaltered(Item(t, l)) /\ Item(t, l).paid > 0}
        price(l) == Item(t, l).paid
        units(l) == Item(t, l).quantity
        extreme == {l \in lines : \A k \in lines :
                       IF highest THEN price(l) * units(k) >= price(k) * units(l)
                       ELSE price(l) * units(k) <= price(k) * units(l)}
    IN  {Rounded(price(l), units(l)) : l \in extreme}

\* product_key of a reorder candidate: a line without identifiers goes by its name.
CandidateKey(item) == IF Key(item) # NoKey THEN Key(item) ELSE <<"name", item.name>>

\* ReorderCandidates: of the retained lines of a key, their orders and units; what was
\* paid for a unit of the last line that was paid for and of which nothing was cancelled
\* or returned, 0 if there is none; and the latest price of the product of the last line
\* of all.  The last line is the one stored last on the last day: any order's.
ReorderCandidates(t, S, prices) ==
    LET eligible == Eligible(t, S)
        of(k) == {l \in eligible : CandidateKey(Item(t, l)) = k}
        day(l) == t[l[1]].day
        last(L) == {l \in L : \A m \in L :
                       \/ day(m) < day(l)
                       \/ day(m) = day(l) /\ (m[1] = l[1] => m[2] <= l[2])}
        paid(k) == {l \in of(k) : Unaltered(Item(t, l)) /\ Item(t, l).paid > 0}
    IN  [k \in {CandidateKey(Item(t, l)) : l \in eligible} |->
            [orders |-> Cardinality(OrdersOf(of(k))),
             units |-> SumOf(t, of(k), RetainedUnits),
             last |-> Max({day(l) : l \in of(k)}),
             compared |-> {LatestPrice(prices, k, Item(t, l).product) : l \in last(of(k))},
             paid |-> IF paid(k) = {} THEN {[day |-> 0, amount |-> 0]}
                      ELSE {[day |-> day(l),
                             amount |-> Rounded(Item(t, l).paid, Item(t, l).quantity)] :
                                l \in last(paid(k))}]]

\* Coverage and costs of a membership; an order counts if all it has are fees.
OrderDates(t) ==
    LET days == {t[r].day : r \in DOMAIN t}
    IN  [first |-> IF days = {} THEN 0 ELSE Min(days),
         last |-> IF days = {} THEN 0 ELSE Max(days)]

MembershipCosts(t) ==
    LET fees == OfKind(t, DOMAIN t, "membership_fee")
        days == {t[r].day : r \in fees}
    IN  [totals |-> Totals(t, fees),
         first |-> IF days = {} THEN 0 ELSE Min(days),
         last |-> IF days = {} THEN 0 ELSE Max(days)]

\* The status beside them; latestSyncStatus never reports a complete history.
MembershipStatus(dates) ==
    IF dates.first = 0 THEN "no_order_history" ELSE "partial_history"

\* RecommendationPurchaseContext: what was retained of a reference that was asked for,
\* a product or a vendor item of it; a reference nothing was retained of is left out.  A
\* line without a vendor item is of its product alone, one without a product of none.
\* There are no dates to filter by.
MatchLines(t, ref) ==
    {l \in Eligible(t, DOMAIN t) : /\ Item(t, l).product = ref.product
                                   /\ ref.vendor \in {0, Item(t, l).vendor}}

Match(t, ref) ==
    LET lines == MatchLines(t, ref)
        months == Months({t[r].day : r \in OrdersOf(lines)})
    IN  [orders |-> Cardinality(OrdersOf(lines)), lines |-> Cardinality(lines),
         units |-> SumOf(t, lines, RetainedUnits),
         first |-> Min(months), latest |-> Max(months)]

Matches(t, refs) == [ref \in {ref \in refs : MatchLines(t, ref) # {}} |-> Match(t, ref)]

ProductMatches(t) == Matches(t, {ref \in Asked : ref.vendor = 0})
ExactMatches(t) == Matches(t, {ref \in Asked : ref.vendor # 0})

-----------------------------------------------------------------------------
(* What is computed from the results g of the queries of one report.       *)

\* retainedPurchaseMonths: orders and their amount by month
RetainedMonths(g) ==
    LET kept(m) == g.months[m].orders - g.months[m].canceled
    IN  [m \in {m \in DOMAIN g.months : kept(m) > 0} |->
            [orders |-> kept(m), amount |-> g.months[m].standingAmount]]

\* peakMonths, the earliest of equals
PeakMonth(months, measure(_)) ==
    LET peaks == {m \in DOMAIN months : \A k \in DOMAIN months :
                     measure(months[m]) >= measure(months[k])}
    IN  IF peaks = {} THEN 0 ELSE Min(peaks)

\* longestMonthStreak
LongestStreak(months) ==
    LET streaks == {n \in 1..Cardinality(months) : \E m \in months :
                       m..(m + n - 1) \subseteq months}
    IN  IF streaks = {} THEN 0 ELSE Max(streaks)

\* The days of a series: most orders on one, days with several, and the gaps.
DayGaps(series) ==
    LET days == DOMAIN series
        next(d) == Min({e \in days : e > d})
        gaps == {DayNumber(next(d)) - DayNumber(d) : d \in days \ {Max(days)}}
    IN  [most |-> Peak(series),
         several |-> Cardinality({d \in days : series[d] > 1}),
         total |-> IF days = {} THEN 0 ELSE DayNumber(Max(days)) - DayNumber(Min(days)),
         longest |-> IF Cardinality(days) < 2 THEN 0 ELSE Max(gaps)]

\* compareDeliveryTrend, of the first and the last year with deliveries
DeliveryTrend(byYear) ==
    LET base == byYear[Min(DOMAIN byYear)]
        latest == byYear[Max(DOMAIN byYear)]
        slower == latest.total * base.count - base.total * latest.count
    IN  IF Cardinality(DOMAIN byYear) < 2 THEN "none"
        ELSE IF slower > 0 THEN "slower" ELSE IF slower < 0 THEN "faster"
        ELSE "unchanged"

\* AnalyzePurchaseTiming: the days of the window and those with a purchase.
PurchaseTiming(g, filter) ==
    LET start == IF filter.from # 0 THEN filter.from ELSE g.dates.first
        end == IF filter.to # 0 THEN filter.to ELSE g.dates.last
    IN  IF start = 0 \/ end = 0 \/ end < start THEN [purchases |-> 0, observed |-> 0]
        ELSE [purchases |-> Cardinality({d \in DOMAIN g.day_series : d \in start..end}),
              observed |-> DayNumber(end) - DayNumber(start) + 1]

\* compareProductUnits, -Orders and -Spend: the leader of three measures, each
\* deciding where the ones before it are equal; of equals, any.
Leaders(products, measure(_, _)) ==
    LET ahead(p, q) == \E k \in 1..3 :
            /\ measure(products[p], k) > measure(products[q], k)
            /\ \A j \in 1..(k - 1) : measure(products[p], j) = measure(products[q], j)
    IN  {p \in DOMAIN products : \A q \in DOMAIN products : ~ahead(q, p)}

BySpend(a, k) == CASE k = 1 -> a.paid [] k = 2 -> a.units [] k = 3 -> a.orders
ByUnits(a, k) == CASE k = 1 -> a.units [] k = 2 -> a.orders [] k = 3 -> a.paid
ByOrders(a, k) == CASE k = 1 -> a.orders [] k = 2 -> a.units [] k = 3 -> a.paid

AveragePaid(a) == IF a.spendUnits = 0 THEN 0 ELSE Rounded(a.paid, a.spendUnits)

\* buildReorderPriceComparison, of what was paid for a unit and the price now: an amount
\* that rounds to nothing is no evidence.
Comparison(amount, compared) ==
    IF amount <= 0 THEN "unavailable_missing_paid_unit_evidence"
    ELSE IF compared = {} THEN "unavailable_no_local_price_observation"
    ELSE "available"

\* BuildShoppingProfile: an axis is ready when its samples suffice, and then on its
\* high side when at least half of them are; the side of the rhythm is left out.
Axis(ready, part, whole) ==
    [ready |-> ready, part |-> part, whole |-> whole, high |-> 2 * part >= whole]

Profile(g, filter) ==
    LET timing == PurchaseTiming(g, filter)
    IN  [clock |-> Axis(/\ g.timed.timed >= Least.sample
                        /\ timing.observed >= Least.clockDays,
                        g.timed.night + g.timed.late, g.timed.timed),
         choice |-> Axis(/\ g.repeat.occasions >= Least.sample
                         /\ g.baskets.orders >= Least.baskets
                         /\ timing.observed >= Least.days
                         /\ 10 * g.repeat.identified >= 7 * g.repeat.lines,
                         g.repeat.choices, g.repeat.occasions),
         basket |-> Axis(g.compositions.orders >= Least.baskets,
                         g.compositions.single, g.compositions.orders),
         rhythm |-> [ready |-> /\ timing.purchases >= Least.sample
                               /\ timing.observed >= Least.days]]

\* buildBadges
Badges(g) ==
    LET when(id, condition) == IF condition THEN {id} ELSE {}
    IN  when("monthly_streak",
             LongestStreak(DOMAIN RetainedMonths(g)) >= Least.streak)
        \cup when("order_combo", DayGaps(g.day_series).most >= Least.combo)
        \cup when("shopping_clock", /\ g.timed.timed >= Least.clock
                                    /\ Peak(g.hours) > 0)
        \cup when("delivery_speedrun", /\ g.speed.shipments >= Least.deliveries
                                       /\ 2 * g.speed.day >= g.speed.shipments)
        \cup when("repeat_regular", g.repeat.most >= Least.regular)
        \cup when("catalog_explorer", /\ g.repeat.products >= Least.sample
                                      /\ 20 * g.repeat.repeated < 3 * g.repeat.products)

=============================================================================

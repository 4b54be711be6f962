---------------------------- MODULE OrderReports ----------------------------
(***************************************************************************)
(* Reports over the retained orders: internal/store/order_snapshot.go,     *)
(* orders/service.go and account.go.                                       *)
(*                                                                         *)
(* A report is a sequence of queries in one read transaction.  Synced      *)
(* pages, imports and purges of other connections commit between them; the *)
(* database keeps a write-ahead log, so the transaction goes on reading    *)
(* what it read first.  A list or an export has no transaction: it reads   *)
(* the orders, and then the items of each, as they are at that time; a     *)
(* preview reads the source alone.                                         *)
(*                                                                         *)
(* LiveOrders is not used by the specification: it is a plausible mistake  *)
(* in the operator next to it.                                             *)
(***************************************************************************)
EXTENDS OrderInsights, OrderDocuments

CONSTANTS
    Source,     \* documents the source may answer a page request with
    Page,       \* exports that may be imported: functions of references to orders
    Filter,     \* [from, to]: days, 0 when open
    ListLimit,  \* orders a list has at most
    Prices,     \* tables of price observations
    Requests,   \* [product, vendor, limit]: price histories asked for
    Now,        \* the time of day, in seconds
    Reader      \* concurrent reports

ASSUME ReportsAssumption ==
    /\ Source \subseteq Document
    /\ \A page \in Page :
           /\ IsFiniteSet(DOMAIN page) /\ DOMAIN page \subseteq Ref
           /\ \A r \in DOMAIN page : page[r] \in OrderRow
    /\ Filter \subseteq [from: Day \cup {0}, to: Day \cup {0}]
    /\ \A table \in Prices : PriceTable(table)
    /\ Requests \subseteq [product: Nat, vendor: Nat, limit: Nat \ {0}]
    /\ ListLimit \in Nat \ {0} /\ Now \in Nat

VARIABLES
    orders,     \* the tables orders and order_items
    reader      \* the transaction of each report

vars == <<orders, reader>>

-----------------------------------------------------------------------------

Query(name, t, S, prices) ==
    CASE name = "totals"       -> Totals(t, S)
      [] name = "commerce"     -> Commerce(t, S)
      [] name = "order_states" -> OrderStates(t, S)
      [] name = "item_totals"  -> ItemTotals(t, S)
      [] name = "hours"        -> HourStats(t, S)
      [] name = "months"       -> MonthStats(t, S)
      [] name = "dates"        -> InsightDates(t, S)
      [] name = "day_series"   -> OrderDaySeries(t, S)
      [] name = "weekdays"     -> WeekdayStats(t, S)
      [] name = "brands"       -> TopBrands(t, S)
      [] name = "deliveries"   -> DeliveryStats(t, S)
      [] name = "branded"      -> Cardinality(Branded(t, S))
      [] name = "speed"        -> DeliverySpeed(t, S)
      [] name = "medians"      -> BasketMedians(t, S)
      [] name = "timed"        -> TimedOrders(t, S)
      [] name = "returns"      -> TimedReturns(t, S)
      [] name = "repeat"       -> RepeatPurchases(t, S)
      [] name = "baskets"      -> Baskets(t, S)
      [] name = "compositions" -> Compositions(t, S)
      [] name = "categories"   -> CategoryLines(t, S)
      [] name = "window"       -> SpendWindow(t, S)
      [] name = "coverage"     -> ProductCoverage(t, S)
      [] name = "products"     -> ProductAggregates(t, S)
      [] name = "highest_unit" -> PaidUnit(t, S, TRUE)
      [] name = "lowest_unit"  -> PaidUnit(t, S, FALSE)
      [] name = "highest_day"  -> SpendDay(t, S, TRUE)
      [] name = "lowest_day"   -> SpendDay(t, S, FALSE)
      [] name = "reorder"      -> ReorderCandidates(t, S, prices)
      [] name = "history"      -> [q \in Requests |-> History(prices, q)]
      [] name = "order_dates"  -> OrderDates(t)
      [] name = "membership"   -> MembershipCosts(t)
      [] name = "product_only" -> ProductMatches(t)
      [] name = "exact"        -> ExactMatches(t)

StatsPlan == <<"order_states", "item_totals", "hours", "weekdays", "months", "brands",
               "deliveries">>
InsightPlan == <<"dates", "day_series", "branded", "timed", "returns", "speed", "repeat",
                 "baskets", "medians", "compositions">>
ProductPlan == <<"window", "coverage", "products", "highest_unit", "lowest_unit",
                 "highest_day", "lowest_day">>

\* What each operation reads, in this order.
Plan ==
    [spend      |-> <<"totals", "commerce">>,
     stats      |-> StatsPlan,
     products   |-> ProductPlan,
     insights   |-> StatsPlan \o InsightPlan \o <<"categories">>,
     analysis   |-> StatsPlan \o InsightPlan \o <<"categories">> \o ProductPlan,
     reorder    |-> <<"reorder">>,
     history    |-> <<"history">>,
     membership |-> <<"order_dates", "membership">>,
     context    |-> <<"product_only", "exact">>]

-----------------------------------------------------------------------------

NoRows == [r \in {} |-> 0]
Idle == [op |-> "none", filter |-> [from |-> 0, to |-> 0], snapshot |-> NoRows,
         got |-> NoRows, prices |-> <<>>]

Init ==
    /\ orders = NoRows
    /\ reader = [r \in Reader |-> Idle]

Become(r, l) == reader' = [reader EXCEPT ![r] = l]

\* One transaction for all orders of a page or an export; one invalid order and
\* nothing of it is stored.
Upsert(page) ==
    /\ ValidPage(page)
    /\ orders' = [r \in DOMAIN orders \cup DOMAIN page |->
                     IF r \in DOMAIN page THEN page[r] ELSE orders[r]]
    /\ UNCHANGED reader

Sync == \E doc \in Source : \E page \in SourcePages(doc) : Upsert(TableOf(page))
Import == \E page \in Page : Upsert(page)

Purge ==
    /\ orders' = NoRows
    /\ UNCHANGED reader

\* The first read, of the sync status, establishes the snapshot.  Histories and
\* reorder candidates also read price observations, which other commands record.
Begin(r) ==
    /\ reader[r].op = "none"
    /\ \E op \in DOMAIN Plan, filter \in Filter :
       \E prices \in IF op \in {"reorder", "history"} THEN Prices ELSE {<<>>} :
           Become(r, [op |-> op, filter |-> filter, snapshot |-> orders,
                      got |-> NoRows, prices |-> prices])
    /\ UNCHANGED orders

\* ListOrders: the newest orders of the filter, of equally new ones any, ...
ListOrders(r) ==
    /\ reader[r].op = "none"
    /\ \E filter \in Filter : \E listed \in SUBSET Selected(orders, filter) :
           LET others == Selected(orders, filter) \ listed
           IN  /\ Cardinality(listed) <= ListLimit
               /\ others # {} => Cardinality(listed) = ListLimit
               /\ \A o \in listed, other \in others : orders[o].day >= orders[other].day
               /\ Become(r, [op |-> "export", filter |-> filter, snapshot |-> NoRows, prices |-> <<>>,
                             got |-> [rows |-> [o \in listed |-> orders[o]],
                                      items |-> NoRows]])
    /\ UNCHANGED orders

\* ... and the items of each (listItems), which may be those of a later page or gone.
ListItems(r) ==
    /\ reader[r].op = "export"
    /\ \E o \in DOMAIN reader[r].got.rows \ DOMAIN reader[r].got.items :
           LET items == IF o \in DOMAIN orders THEN orders[o].items ELSE <<>>
           IN  Become(r, [reader[r] EXCEPT !.got.items =
                   [k \in DOMAIN @ \cup {o} |-> IF k = o THEN items ELSE @[k]]])
    /\ UNCHANGED orders

\* Preview: the page the source shows now, of which nothing is stored.
Preview(r) ==
    /\ reader[r].op = "none"
    /\ \E doc \in Source : \E page \in PreviewedPage(doc) :
           Become(r, [Idle EXCEPT !.op = "preview", !.got = TableOf(page)])
    /\ UNCHANGED orders

Exported(r) ==
    [o \in DOMAIN reader[r].got.items |->
        [reader[r].got.rows[o] EXCEPT !.items = reader[r].got.items[o]]]

Finished(r) ==
    /\ reader[r].op \in DOMAIN Plan
    /\ Cardinality(DOMAIN reader[r].got) = Len(Plan[reader[r].op])

LiveOrders(r) == orders
Visible(r) == reader[r].snapshot

Read(r) ==
    /\ reader[r].op \in DOMAIN Plan /\ ~Finished(r)
    /\ LET name == Plan[reader[r].op][Cardinality(DOMAIN reader[r].got) + 1]
           result == Query(name, Visible(r), Selected(Visible(r), reader[r].filter),
                           reader[r].prices)
       IN  Become(r, [reader[r] EXCEPT !.got =
               [n \in DOMAIN @ \cup {name} |-> IF n = name THEN result ELSE @[n]]])
    /\ UNCHANGED orders

\* The report is returned, or a query fails and nothing is.
End(r) ==
    /\ reader[r].op # "none"
    /\ Become(r, Idle)
    /\ UNCHANGED orders

Next ==
    \/ Sync \/ Import \/ Purge
    \/ \E r \in Reader : \/ Begin(r) \/ Read(r) \/ ListOrders(r) \/ ListItems(r)
                          \/ Preview(r) \/ End(r)

Spec == Init /\ [][Next]_vars

-----------------------------------------------------------------------------
(* Properties.                                                             *)

TypeOK ==
    /\ DOMAIN orders \subseteq Ref
    /\ \A r \in DOMAIN orders : ValidOrder(orders[r])
    /\ \A r \in Reader :
           /\ reader[r].op \in DOMAIN Plan \cup {"none", "export", "preview"}
           /\ reader[r].filter \in Filter \cup {[from |-> 0, to |-> 0]}
           /\ DOMAIN reader[r].snapshot \subseteq Ref
           /\ reader[r].op \in DOMAIN Plan =>
                 DOMAIN reader[r].got \subseteq {Plan[reader[r].op][i] :
                                                    i \in DOMAIN Plan[reader[r].op]}

SpendAddsUp(g) ==
    LET sum(field) == SumFunction([k \in DOMAIN g.commerce |-> g.commerce[k][field]])
    IN  \A field \in DOMAIN g.totals : sum(field) = g.totals[field]

\* Statistics of one report: hours and weekdays count the same orders, the brands
\* listed lead, and the deliveries of all years are all deliveries.
StatsAddUp(g) ==
    LET d == g.deliveries
        sum(field) == SumFunction([y \in DOMAIN d.byYear |-> d.byYear[y][field]])
    IN  /\ SumFunction(g.hours) = SumFunction(g.weekdays)
        /\ sum("count") = d.all.count /\ sum("total") = d.all.total
        /\ \A y \in DOMAIN d.byYear : d.byYear[y].count > 0
        /\ d.all.median <= 2 * d.all.p90
        /\ DeliveryTrend(d.byYear) = "slower" =>
              \E y \in DOMAIN d.byYear : d.byYear[y].total > 0

\* Insights of one report: the days and the retained months count the orders the
\* dates count, and no month has fewer than its fullest day; hours and weekends
\* count no order the rates do not; deliveries have the speed their median has; both
\* views of retained lines and of single baskets agree.
InsightsAddUp(g) ==
    LET months == RetainedMonths(g)
        gaps == DayGaps(g.day_series)
        busiest == PeakMonth(months, LAMBDA m : m.orders)
        on(days) == SumFunctionOnSet(g.weekdays, DOMAIN g.weekdays \cap days)
    IN  /\ SumFunction(g.day_series) = g.dates.orders
        /\ Cardinality(DOMAIN g.day_series) = g.dates.days
        /\ SumFunction([m \in DOMAIN months |-> months[m].orders]) = g.dates.orders
        /\ DOMAIN months = Months(DOMAIN g.day_series)
        /\ busiest # 0 => months[busiest].orders >= gaps.most
        /\ (gaps.several = 0) <=> (g.dates.orders = g.dates.days)
        /\ LongestStreak(DOMAIN months) \in 0..Cardinality(DOMAIN months)
        /\ gaps.longest <= gaps.total
        /\ gaps.total + 1 >= g.dates.days
        /\ SumFunction(g.hours) <= g.timed.timed
        /\ on({0, 6}) <= g.timed.weekend
        /\ g.timed.night + g.timed.late <= g.timed.timed
        /\ g.timed.nightCanceled + g.timed.otherCanceled <= g.order_states.canceled
        /\ g.returns.nightUnits + g.returns.otherUnits <= g.item_totals.units
        /\ g.speed.shipments = g.deliveries.all.count
        /\ g.deliveries.all.p90 <= 48 => 10 * g.speed.twoDays >= 9 * g.speed.shipments
        /\ g.deliveries.all.median <= 48 => 2 * g.speed.day >= g.speed.shipments
              \/ g.deliveries.all.count % 2 = 0
        /\ SumFunction(g.brands) <= g.branded /\ g.branded <= g.repeat.lines
        /\ (g.brands = NoRows) <=> (g.branded = 0)
        /\ g.repeat.lines = g.baskets.lines
        /\ g.repeat.occasions = g.repeat.products + g.repeat.choices
        /\ g.medians.single <= g.baskets.singleValue
        /\ g.medians.multi <= g.baskets.value - g.baskets.singleValue
        /\ g.compositions.orders <= g.baskets.orders

\* Product insights: the ranking has the products the coverage counts, its leaders
\* were paid for at most the highest price of a unit, and the extreme days lie in the
\* window and spend no more than it.
ProductsAddUp(g) ==
    LET leads(measure(_, _)) == Leaders(g.products, measure)
        bySpend == {p \in leads(BySpend) : g.products[p].paid > 0}
    IN  /\ Cardinality(DOMAIN g.products) = g.coverage.products
        /\ SumFunction([p \in DOMAIN g.products |-> g.products[p].units])
               <= g.coverage.units
        /\ (leads(ByUnits) = {}) <=> (g.coverage.identified = 0)
        /\ (leads(ByOrders) = {}) <=> (g.coverage.identified = 0)
        /\ (bySpend = {}) <=> (g.highest_unit = {})
        /\ \A p \in bySpend, unit \in g.highest_unit : AveragePaid(g.products[p]) <= unit
        /\ \A low \in g.lowest_unit, high \in g.highest_unit : low <= high
        /\ g.window.active <= g.window.calendar
        /\ g.lowest_day.amount <= g.highest_day.amount
        /\ g.highest_day.amount <= g.window.amount
        /\ (g.highest_day.day = 0) <=> (g.window.amount = 0)
        /\ \A d \in {g.lowest_day, g.highest_day} :
               d.day # 0 => d.day \in g.window.first..g.window.last
        /\ g.highest_day.lines <= g.coverage.lines

\* A candidate was last paid for when or before it was last bought, and then is only
\* compared with a price of the very identity, observed with evidence.
ReorderAddsUp(g) ==
    \A k \in DOMAIN g.reorder :
        LET c == g.reorder[k]
        IN  /\ c.orders <= c.units
            /\ \A paid \in c.paid, compared \in c.compared :
                  /\ paid.day <= c.last
                  /\ Comparison(paid.amount, compared) = "available" =>
                        /\ paid.day # 0
                        /\ \A price \in compared :
                              /\ Identity(price.ref) = k /\ HasEvidence(price)
                              /\ Freshness(price, Now) = "unknown" => price.time.second > Now

\* Membership costs lie in the orders they are said to be observed in.
MembershipAddsUp(g) ==
    LET fees == g.membership
    IN  /\ fees.totals.standingAmount <= fees.totals.amount
        /\ fees.totals.orders > 0 =>
              /\ MembershipStatus(g.order_dates) = "partial_history"
              /\ fees.first >= g.order_dates.first /\ fees.last <= g.order_dates.last

\* "product-only matches combine variants; exact matches require both product_id and
\* vendor_item_id": the exact matches of a product are disjoint parts of its own match,
\* which only has more where lines are of no vendor item that was asked for; without
\* such lines nothing distinguishes the whole from its parts.
ContextAddsUp(g) ==
    \A f \in {ref \in Asked : ref.vendor = 0} :
        LET parts == {e \in DOMAIN g.exact : e.product = f.product}
            sum(field) == SumFunction([e \in parts |-> g.exact[e][field]])
            whole == g.product_only[f]
        IN  /\ parts # {} => f \in DOMAIN g.product_only
            /\ f \in DOMAIN g.product_only =>
                  /\ sum("lines") <= whole.lines /\ sum("units") <= whole.units
                  /\ whole.orders <= sum("orders") + (whole.lines - sum("lines"))
                  /\ \A e \in parts : /\ g.exact[e].orders <= whole.orders
                                      /\ whole.first <= g.exact[e].first
                                      /\ g.exact[e].latest <= whole.latest
                  /\ sum("lines") = whole.lines =>
                        /\ sum("units") = whole.units
                        /\ \E e \in parts : g.exact[e].first = whole.first
                        /\ \E e \in parts : g.exact[e].latest = whole.latest

\* "All aggregate helpers share this reader" (order_snapshot.go): whatever other
\* connections commit between its queries, the numbers of a report fit together.  A
\* list or an export shares none, and yet all it holds can be imported; what a preview
\* shows can be synced.
ReportsAddUp ==
    \A r \in Reader :
        /\ Finished(r) =>
              LET g == reader[r].got
                  has(plan) == \A i \in DOMAIN plan : plan[i] \in DOMAIN g
              IN  /\ has(Plan.spend) => SpendAddsUp(g)
                  /\ has(Plan.stats) => StatsAddUp(g)
                  /\ has(Plan.insights) => InsightsAddUp(g)
                  /\ has(Plan.products) => ProductsAddUp(g)
                  /\ has(Plan.reorder) => ReorderAddsUp(g)
                  /\ has(Plan.history) =>
                        \A q \in Requests : HistoryAddsUp(reader[r].prices, q)
                  /\ has(Plan.membership) => MembershipAddsUp(g)
                  /\ has(Plan.context) => ContextAddsUp(g)
                  /\ has(Plan.analysis) =>
                        /\ g.coverage.lines <= g.repeat.lines
                        /\ g.coverage.lines <= g.categories.lines
                        /\ g.coverage.units <= g.categories.units
        /\ reader[r].op = "export" => ValidPage(Exported(r))
        /\ reader[r].op = "preview" => ValidPage(reader[r].got)

\* "rate_scale": "0_to_1": no rate of a report exceeds 1, so no numerator its
\* denominator, and none is negative.
RatesWithinScale ==
    \A r \in Reader : reader[r].op \in DOMAIN Plan =>
        LET g == reader[r].got
            share(part, whole) == part \in 0..whole
        IN  /\ "item_totals" \in DOMAIN g =>
                  /\ share(g.order_states.canceled, g.order_states.orders)
                  /\ share(g.item_totals.canceledUnits, g.item_totals.units)
                  /\ share(g.item_totals.returnedUnits, g.item_totals.units)
                  /\ share(g.item_totals.returnedLines, g.item_totals.lines)
            /\ "returns" \in DOMAIN g =>
                  /\ share(g.returns.nightReturned, g.returns.nightUnits)
                  /\ share(g.returns.otherReturned, g.returns.otherUnits)
                  /\ share(g.timed.nightCanceled, g.timed.nightAll)
                  /\ share(g.timed.otherCanceled, g.timed.otherAll)
            /\ "categories" \in DOMAIN g =>
                  /\ share(g.repeat.repeated, g.repeat.products)
                  /\ share(g.repeat.choices, g.repeat.occasions)
                  /\ share(g.repeat.repeatOccasions, g.repeat.occasions)
                  /\ share(g.baskets.singleValue, g.baskets.value)
                  /\ share(g.compositions.single, g.compositions.orders)
                  /\ share(g.timed.weekend, g.timed.timed)
                  /\ share(g.speed.day, g.speed.twoDays)
                  /\ share(g.speed.twoDays, g.speed.shipments)
                  /\ share(Peak(g.brands), g.branded)
                  /\ LET profile == Profile(g, reader[r].filter)
                     IN  /\ \A axis \in {"clock", "choice", "basket"} :
                               /\ share(profile[axis].part, profile[axis].whole)
                               /\ profile[axis].ready => profile[axis].whole > 0
                         /\ "delivery_speedrun" \in Badges(g) => g.speed.day > 0
                         /\ LET timing == PurchaseTiming(g, reader[r].filter)
                            IN  share(timing.purchases, timing.observed)
            /\ "coverage" \in DOMAIN g =>
                  /\ share(g.coverage.identified, g.coverage.lines)
                  /\ share(g.coverage.spendable, g.coverage.lines)

=============================================================================

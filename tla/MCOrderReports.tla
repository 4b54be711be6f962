--------------------------- MODULE MCOrderReports ---------------------------
(* Instances of OrderReports small enough for TLC.                         *)
EXTENDS OrderReports, TLC

\* What a line is identified by: two variants of product 7, the product alone, a vendor
\* item alone, that vendor item under another product, and nothing.
Identifier(product, vendor) == [product |-> product, vendor |-> vendor]
p1 == Identifier(7, 1)
p2 == Identifier(7, 2)
Whole7 == Identifier(7, 0)
Vendor1 == Identifier(0, 1)
Moved1 == Identifier(8, 1)
Unknown == Identifier(0, 0)

MCAsked == {p1, p2, Moved1, Whole7, Identifier(8, 0)}

Line(p, kind, status, quantity, cancelled, returned, brand, delivered) ==
    [product |-> p.product, vendor |-> p.vendor, name |-> 1,
     kind |-> kind, status |-> status, quantity |-> quantity,
     cancelled |-> cancelled, returned |-> returned, paid |-> 10 * quantity,
     brand |-> brand, delivered |-> delivered]

Bought(p, brand, delivered) ==
    Line(p, "product_purchase", "none", 1, 0, 0, brand, delivered)

Content(day, time, canceled, items) ==
    [day |-> day, time |-> time, canceled |-> canceled, won |-> TRUE, amount |-> day,
     discount |-> 0, shipping |-> 0, items |-> items]

BothBought ==
    Content(104, "night", FALSE, <<Bought(p1, 1, {20}), Bought(p2, 2, {60}), Bought(Whole7, 0, {})>>)
Refused ==
    Content(201, "night", FALSE,
            <<Line(p1, "product_purchase", "none", 1, 2, 0, 0, {})>>)

\* Three for the price of nearly nothing.
Bargain(p) == [Line(p, "product_purchase", "none", 3, 0, 0, 0, {}) EXCEPT !.paid = 1]

\* One order of each sort the queries tell apart, two of them on one day, one in the
\* next year, and one that must be refused.  The 4th of month 1 is a Saturday.
Contents ==
    {Content(104, "none", TRUE, <<Bought(p1, 1, {})>>),
     BothBought, Refused,
     Content(201, "late_evening", FALSE,
             <<Line(p2, "product_purchase", "none", 2, 1, 1, 1, {-1}),
               Bought(Unknown, 0, {}), Bargain(Vendor1)>>),
     Content(201, "night", FALSE,
             <<Line(p1, "product_purchase", "returned", 2, 0, 0, 0, {50})>>),
     Content(1301, "day", FALSE, <<Line(p2, "membership_fee", "none", 1, 0, 0, 0, {})>>),
     Content(1301, "none", FALSE, <<>>),
     Content(1301, "day", FALSE, <<Line(Moved1, "product_purchase", "none", 3, 0, 1, 2, {10})>>)}

\* The documents these orders come from.  The first lines are cancelled shipments
\* that were delivered all the same, and an item nobody ordered follows the last.
RawItem(item) ==
    [around |-> <<[status |-> {{"cancel", "delivered"}}, delivered |-> {99}],
                  [status |-> IF item.status = "none" THEN {} ELSE {{"return"}},
                   delivered |-> {}],
                  [status |-> {}, delivered |-> item.delivered]>>,
     name |-> item.name, service |-> item.kind = "membership_fee",
     product |-> item.product, vendor |-> item.vendor,
     brand |-> item.brand, quantity |-> {item.quantity},
     cancelled |-> {item.cancelled}, returned |-> {item.returned} \ {0},
     unit |-> {10}, unitPaid |-> {},
     paid |-> IF item.paid = 10 * item.quantity THEN {} ELSE {item.paid}]

Nobodys == [RawItem(Bought(p1, 0, {})) EXCEPT !.quantity = {0}]

RawFrom(ref, o) ==
    [ref |-> {ref},
     moment |-> {[day |-> o.day, time |-> IF o.time = "none" THEN "day" ELSE o.time,
                  form |-> IF o.time = "none" THEN "date" ELSE "instant"]},
     total |-> {o.amount}, discount |-> {}, shipping |-> {}, won |-> o.won,
     canceled |-> o.canceled,
     lines |-> Append([i \in DOMAIN o.items |-> RawItem(o.items[i])], Nobodys)]

DocumentOf(raws) ==
    [shape |-> TRUE, partial |-> "no", orders |-> raws, hasNext |-> "yes",
     next |-> {[year |-> 2024, page |-> 1]}]

\* Any order in a document of its own, two of one reference, and partial ones.
MCSource ==
    {DocumentOf(<<RawFrom(r, o)>>) : r \in Ref, o \in Contents}
    \cup {DocumentOf(<<RawFrom(r, Refused), RawFrom(r, BothBought)>>) : r \in Ref}
    \cup {[DocumentOf(<<RawFrom(r, BothBought)>>) EXCEPT !.partial = "yes"] : r \in Ref}

\* Exports of both references.
MCPage == [Ref -> {BothBought, Refused}]

\* Documents with numbers that are missing, negative or too large, dates of every
\* form and cursors out of range.
OddLines ==
    {[RawItem(Bought(p1, 0, {})) EXCEPT !.quantity = quantity, !.returned = returned,
                                        !.unit = {5}, !.unitPaid = unitPaid, !.paid = paid] :
        quantity \in {{}, {2}}, returned \in {{}, {-1}, {2}, {3}},
        unitPaid \in {{}, {Safe}, {7}}, paid \in {{}, {-1}, {4}}}

AnyRef == CHOOSE r \in Ref : TRUE

OddDocuments ==
    {[DocumentOf(<<[RawFrom(AnyRef, BothBought) EXCEPT !.discount = discount, !.won = won,
                                                  !.moment = {[m EXCEPT !.form = form] : m \in @},
                                                  !.lines = <<line>>]>>)
         EXCEPT !.hasNext = hasNext, !.next = next] :
        discount \in {{}, {-1}, {3}}, won \in BOOLEAN,
        form \in {"instant", "date", "spaced_date"}, line \in OddLines,
        hasNext \in {"yes", "no", "malformed"},
        next \in {{}, {[year |-> 2024, page |-> 3]}, {[year |-> 2101, page |-> 3]}}}

\* The theorems of OrderReports_proofs on these documents.
ASSUME \A doc \in OddDocuments : \A page \in FetchedPage(doc) :
    /\ ValidPage(page.orders)
    /\ (\A i \in DOMAIN doc.orders : \A m \in doc.orders[i].moment : m.form # "spaced_date")
          => page \in ParsedPage(doc)

\* No query looks at which reference an order has.
RefsAlike == Permutations(Ref)

MCFilter == {[from |-> 0, to |-> 0], [from |-> 105, to |-> 201]}

\* Tables of observations: a search and an inspection in one second, whose texts are
\* ordered otherwise than their times; a legacy row; a row of the future; the price of
\* another item of a vendor.
Ref7(item, vendor) == [product |-> 7, item |-> item, vendor |-> vendor]

Card(ref, amount, second, fraction) ==
    LET time == [second |-> second, fraction |-> fraction]
    IN  [ref |-> ref, amount |-> amount, source |-> "card", time |-> time,
         provenance |-> "observed",
         evidence |-> {[scope |-> IF OfOption(ref) THEN "selected_option" ELSE "product",
                        ref |-> ref, provenance |-> "observed", time |-> time]}]

Starting(card) == [card EXCEPT !.evidence = {[e EXCEPT !.scope = "product"] : e \in @}]

Legacy ==
    <<[Card(Ref7(0, 1), 11, 50, <<>>) EXCEPT !.evidence = {}, !.source = "search",
                                             !.provenance = "unknown_legacy"]>>

Early == Card(Ref7(0, 1), 12, 100, <<1>>)
Late == Card(Ref7(0, 1), 14, 100, <<1, 2>>)
Newer == Card(Ref7(0, 1), 13, 101, <<>>)
OtherItem == Card(Ref7(3, 1), 9, 102, <<>>)
Whole == Card(Ref7(0, 0), 8, 103, <<>>)
Future == Card(Ref7(0, 2), 20, 900, <<5>>)

MCPrices ==
    LET first == RecordCards(<<>>, <<Early, Starting(Newer), Whole>>, "search")
        second == RecordCards(first, <<Late, Future>>, "inspection")
    IN  {RecordCards(second, <<Newer, Late>>, "inspection"),
         RecordCards(second, <<OtherItem>>, "inspection"),
         RecordCards(Legacy, <<Newer, Newer>>, "search")}

MCRequests ==
    [product : {7}, vendor : {0, 1}, limit : {1, 3}]

MCLeast == [sample |-> 2, baskets |-> 2, clockDays |-> 2, days |-> 3, streak |-> 2,
            combo |-> 2, clock |-> 1, deliveries |-> 1, regular |-> 2]

=============================================================================

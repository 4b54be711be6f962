--------------------------- MODULE OrderDocuments ---------------------------
(***************************************************************************)
(* How a document of the order history becomes a page of orders, twice:    *)
(* ParseOrderDocument (internal/coupang/orders/parser.go) for a document   *)
(* source, and the reader that runs inside the browser page                *)
(* (internal/browser/order_page_reader.js), whose answer FetchPage checks   *)
(* against the document contract of internal/core/order_preview.go.        *)
(*                                                                         *)
(* A value the source may leave out is a set of at most one value.  Texts  *)
(* and the digits of identifiers are left out: identifiers and names are   *)
(* numbers, 0 for none.  A status text is the set of the words that decide *)
(* what it means.                                                          *)
(***************************************************************************)
EXTENDS OrderQueries

CONSTANTS
    Ref,    \* source references of orders
    Half,   \* an int64 is in -Half..(Half - 1)
    Safe    \* a safe integer of the browser is in -Safe..Safe

ASSUME NumbersAssumption == Half \in Nat /\ Safe \in Nat /\ Safe < Half

-----------------------------------------------------------------------------
(* Documents.                                                              *)

Word == {"delivered", "transit", "cancel", "return"}

\* An item with the objects around it, from the outermost to its own; each may
\* state a status or a time of delivery.  Its quantity is a safe integer.
RawLine == [around: Seq([status: Optional(SUBSET Word), delivered: Optional(Int)]),
            name: Nat, service: BOOLEAN, product: Nat, vendor: Nat,
            brand: Nat, quantity: Optional(-Safe..Safe),
            cancelled: Optional(Int), returned: Optional(Int),
            unit: Optional(Int), unitPaid: Optional(Int), paid: Optional(Int)]

\* The date of an order is written with a time, as ten characters or, with spaces
\* after its dots, as twelve.
Moment == [day: Day, time: {"night", "day", "late_evening"},
           form: {"instant", "date", "spaced_date"}]

RawOrder == [ref: Optional(Ref), moment: Optional(Moment),
             total: Optional(Int), discount: Optional(Int), shipping: Optional(Int),
             won: BOOLEAN, canceled: BOOLEAN, lines: Seq(RawLine)]

\* shape: its objects and lists are where they are looked for.
Document == [shape: BOOLEAN, partial: {"absent", "no", "yes", "malformed"},
             orders: Seq(RawOrder), hasNext: {"yes", "no", "malformed"},
             next: Optional([year: Int, page: Int])]

Given(value, otherwise) == IF value = {} THEN otherwise ELSE CHOOSE v \in value : TRUE

\* amountValue, in Go and in the page
Int64(value) == {v \in value : v >= -Half /\ v < Half}
SafeInt(value) == {v \in value : v >= -Safe /\ v <= Safe}

Wrapped(n) == ((n + Half) % (2 * Half)) - Half

\* walkForItems: what the innermost object says that says anything.
Inherited(around, said(_)) ==
    LET saying == {i \in DOMAIN around : said(around[i]) # {}}
    IN  IF saying = {} THEN {}
        ELSE said(around[CHOOSE i \in saying : \A j \in saying : j <= i])

\* normalizeDeliveryStatus: a cancelled shipment that mentions its delivery is not
\* a cancellation.
StatusOf(words) ==
    IF words \cap {"delivered", "transit"} # {} THEN "none"
    ELSE IF "cancel" \in words THEN "cancelled"
    ELSE IF "return" \in words THEN "returned" ELSE "none"

\* looksLikeItem: anything else is walked into and left behind.
LooksLikeItem(line) == line.name # 0 /\ Given(line.quantity, 0) > 0
Kept(order) ==
    LET kept == {i \in DOMAIN order.lines : LooksLikeItem(order.lines[i])}
        before(i) == {j \in kept : j < i}
    IN  [n \in 1..Cardinality(kept) |->
            order.lines[CHOOSE i \in kept : Cardinality(before(i)) = n - 1]]

\* ClassifyCommerceKind
Kind(line) == IF line.service THEN "membership_fee" ELSE "product_purchase"

\* What both make of a line, but for its numbers.
ItemOf(line, cancelled, returned, paid) ==
    [product |-> line.product, vendor |-> line.vendor, name |-> line.name,
     brand |-> line.brand, kind |-> Kind(line),
     status |-> StatusOf(Given(Inherited(line.around, LAMBDA o : o.status), {})),
     delivered |-> Inherited(line.around, LAMBDA o : o.delivered),
     quantity |-> Given(line.quantity, 0), cancelled |-> cancelled,
     returned |-> returned, paid |-> paid]

-----------------------------------------------------------------------------
(* ParseOrderDocument.                                                     *)

\* The price paid for the line, or for a unit of it, or else the price of a unit.
ParsedPaid(line) ==
    LET unit == Given(Int64(line.unit), 0)
    IN  Given(Int64(line.paid),
              Wrapped(Given(Int64(line.unitPaid), unit) * Given(line.quantity, 0)))

ParsedItem(line) == ItemOf(line, Given(Int64(line.cancelled), 0),
                           Given(Int64(line.returned), 0), ParsedPaid(line))

\* normalizeItem
ParsesItem(line) ==
    /\ Given(Int64(line.unit), 0) >= 0
    /\ LET item == ParsedItem(line)
       IN  /\ item.paid >= 0
           /\ item.cancelled \in 0..item.quantity
           /\ item.returned \in 0..item.quantity

\* normalizeOrderMoment: a date of twelve characters gets the time of midnight in
\* UTC, nine in the morning.
ParsedTime(moment) == CASE moment.form = "instant"     -> moment.time
                        [] moment.form = "date"        -> "none"
                        [] moment.form = "spaced_date" -> "day"

\* normalizeOrder
ParsesOrder(order) ==
    /\ order.ref # {} /\ order.moment # {}
    /\ Given(Int64(order.total), -1) >= 0
    /\ \A i \in DOMAIN Kept(order) : ParsesItem(Kept(order)[i])

OrderOf(order, time, total, discount, shipping, items) ==
    [day |-> Given(order.moment, [day |-> 0]).day, time |-> time,
     canceled |-> order.canceled, won |-> order.won, amount |-> total,
     discount |-> discount, shipping |-> shipping, items |-> items]

ParsedOrder(order) ==
    OrderOf(order, ParsedTime(Given(order.moment, [form |-> "date"])),
            Given(Int64(order.total), 0), Given(Int64(order.discount), 0),
            Given(Int64(order.shipping), 0),
            [i \in DOMAIN Kept(order) |-> ParsedItem(Kept(order)[i])])

\* "hasNext=false must not turn an explicitly partial OMS response into an
\* exhausted scan", and a missing flag is no end either.
Complete(doc) == doc.shape /\ doc.partial \in {"absent", "no"}

PageOf(doc, read(_)) ==
    [refs |-> [i \in DOMAIN doc.orders |-> CHOOSE r \in doc.orders[i].ref : TRUE],
     orders |-> [i \in DOMAIN doc.orders |-> read(doc.orders[i])],
     next |-> IF doc.hasNext = "yes" THEN doc.next ELSE {}]

ParsedPage(doc) ==
    IF /\ Complete(doc)
       /\ \A i \in DOMAIN doc.orders : ParsesOrder(doc.orders[i])
       /\ \/ doc.hasNext = "no"
          \/ doc.hasNext = "yes" /\ \E c \in doc.next : c.year >= 2000 /\ c.page >= 0
    THEN {PageOf(doc, ParsedOrder)} ELSE {}

-----------------------------------------------------------------------------
(* readSelectedOrderPage.                                                  *)

ReadPaid(line) ==
    LET unit == Given(SafeInt(line.unit), 0)
    IN  Given(SafeInt(line.paid),
              Given(SafeInt(line.unitPaid), unit) * Given(line.quantity, 0))

ReadItem(line) == ItemOf(line, Given(SafeInt(line.cancelled), 0),
                         Given(SafeInt(line.returned), 0), ReadPaid(line))

\* normalizeItem
ReadsItem(line) ==
    LET item == ReadItem(line)
    IN  /\ item.quantity >= 1
        /\ item.cancelled \in 0..item.quantity
        /\ item.returned \in 0..item.quantity
        /\ Given(SafeInt(line.unit), 0) >= 0
        /\ item.paid >= 0 /\ item.paid <= Safe

\* normalizeMoment: every date is one.
ReadTime(moment) == IF moment.form = "instant" THEN moment.time ELSE "none"

\* normalizeOrder
ReadsOrder(order) ==
    /\ order.ref # {} /\ order.moment # {}
    /\ Given(SafeInt(order.total), -1) >= 0
    /\ Given(SafeInt(order.discount), 0) >= 0
    /\ Given(SafeInt(order.shipping), 0) >= 0
    /\ order.won
    /\ Len(Kept(order)) <= 100
    /\ \A i \in DOMAIN Kept(order) : ReadsItem(Kept(order)[i])

ReadOrder(order) ==
    OrderOf(order, ReadTime(Given(order.moment, [form |-> "date"])),
            Given(SafeInt(order.total), 0), Given(SafeInt(order.discount), 0),
            Given(SafeInt(order.shipping), 0),
            [i \in DOMAIN Kept(order) |-> ReadItem(Kept(order)[i])])

\* validCursor
ValidCursor(c) == c.year \in 2000..2100 /\ c.page \in 0..1000

ReadPage(doc) ==
    IF /\ Complete(doc) /\ Len(doc.orders) <= 5
       /\ \A i \in DOMAIN doc.orders : ReadsOrder(doc.orders[i])
       /\ \/ doc.hasNext = "no"
          \/ doc.hasNext = "yes" /\ \E c \in doc.next : ValidCursor(c)
    THEN {PageOf(doc, ReadOrder)} ELSE {}

-----------------------------------------------------------------------------
(* What is asked of a page.                                                *)

\* ValidateOrderDocument; month 1 is January 2000.
ValidDocument(page) ==
    /\ Len(page.orders) <= 5
    /\ \A c \in page.next : ValidCursor(c)
    /\ \A i \in DOMAIN page.orders :
           LET o == page.orders[i]
           IN  /\ Year(o.day) \in 0..100
               /\ o.won /\ o.amount >= 0 /\ o.discount >= 0 /\ o.shipping >= 0
               /\ Len(o.items) <= 100
               /\ \A k \in DOMAIN o.items :
                      LET item == o.items[k]
                      IN  /\ item.name # 0
                          /\ item.quantity >= 1 /\ item.paid >= 0
                          /\ item.cancelled >= 0 /\ item.cancelled <= item.quantity
                          /\ item.returned >= 0 /\ item.returned <= item.quantity

\* FetchPage: "a bounded data envelope", or a protocol error
FetchedPage(doc) == {page \in ReadPage(doc) : ValidDocument(page)}

\* syncPage: the page of either source, if there is one
SourcePages(doc) == ParsedPage(doc) \cup FetchedPage(doc)

\* Preview also refuses a page that names an order twice.
PreviewedPage(doc) ==
    {page \in FetchedPage(doc) :
        \A i, j \in DOMAIN page.refs : page.refs[i] = page.refs[j] => i = j}

\* The table a page leaves behind: of two orders of one reference, the later.
TableOf(page) ==
    LET last(r) == CHOOSE i \in DOMAIN page.refs :
            /\ page.refs[i] = r
            /\ \A j \in DOMAIN page.refs : page.refs[j] = r => j <= i
    IN  [r \in {page.refs[i] : i \in DOMAIN page.refs} |-> page.orders[last(r)]]

=============================================================================

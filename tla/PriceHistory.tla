---------------------------- MODULE PriceHistory ----------------------------
(***************************************************************************)
(* The table product_price_observations and what is read from it:          *)
(* internal/store/prices.go, PriceHistory of internal/products/service.go  *)
(* and the price part of internal/core, without state.                     *)
(*                                                                         *)
(* A table is the sequence of its rows in the order of their ids.  Times   *)
(* are stored as text and ordered as text.  Names, addresses, original     *)
(* amounts and discounts are left out.                                     *)
(***************************************************************************)
EXTENDS Integers, SequencesExt

-----------------------------------------------------------------------------
(* Observations.                                                           *)

\* A reference names a product, and perhaps an item and a vendor item, by numbers;
\* 0 is none.  A time is a second and the digits of its fraction.
Reference == [product: Nat, item: Nat, vendor: Nat]
Time == [second: Nat, fraction: Seq(0..9)]
OfOption(ref) == ref.item # 0 \/ ref.vendor # 0

\* ValidFor
Valid(evidence, ref) ==
    IF evidence.scope = "selected_option" THEN evidence.ref = ref /\ OfOption(ref)
    ELSE evidence.ref = [ref EXCEPT !.item = 0, !.vendor = 0]

Evidence == [scope: {"selected_option", "product", "unknown"}, ref: Reference,
             provenance: {"observed", "derived", "inferred"}, time: Time]
Observation == [ref: Reference, amount: Int, source: {"card", "search", "inspection"},
                time: Time, provenance: {"observed", "derived", "unknown_legacy"},
                evidence: SUBSET Evidence]

\* HasPriceEvidence; an observation has a set of at most one evidence of its amount.
HasEvidence(o) ==
    /\ Cardinality(o.evidence) = 1
    /\ \A e \in o.evidence :
           /\ Valid(e, o.ref)
           /\ e.provenance = o.provenance /\ e.provenance # "inferred"
           /\ e.scope = IF OfOption(o.ref) THEN "selected_option" ELSE "product"
           /\ e.time = o.time

\* priceSeriesIdentity, and the product_key of a row
Identity(ref) ==
    IF ref.vendor # 0 THEN <<"vendor", ref.vendor>>
    ELSE IF ref.item # 0 THEN <<"item", ref.product, ref.item>>
    ELSE <<"product", ref.product>>

\* priceObservationFromCard: the observation of a card that can prove its price.
Observable(card) ==
    /\ Cardinality(card.evidence) = 1
    /\ \A e \in card.evidence :
           HasEvidence([card EXCEPT !.provenance = e.provenance, !.time = e.time])

Observed(card, source) ==
    LET e == CHOOSE e \in card.evidence : TRUE
    IN  [card EXCEPT !.provenance = e.provenance, !.time = e.time, !.source = source]

\* validatePriceObservation, of what is modelled of it
Recordable(o) == o.ref.product # 0 /\ o.amount >= 0 /\ HasEvidence(o)

SameRow(a, b) ==
    Identity(a.ref) = Identity(b.ref) /\ a.time = b.time /\ a.source = b.source

\* A table of the schema, whose rows without evidence are older than it.
PriceTable(table) ==
    /\ table \in Seq(Observation)
    /\ \A i \in DOMAIN table : table[i].evidence # {} => Recordable(table[i])
    /\ \A i, j \in DOMAIN table : SameRow(table[i], table[j]) => i = j

\* RecordPriceObservations: INSERT OR IGNORE of one row after another, in one
\* transaction; an invalid one and none is inserted.
Insert(table, o) ==
    IF \E i \in DOMAIN table : SameRow(table[i], o) THEN table ELSE Append(table, o)

RecordObservations(table, batch) ==
    IF \E i \in DOMAIN batch : ~Recordable(batch[i]) THEN table
    ELSE FoldLeft(Insert, table, batch)

\* recordPriceObservations of the service passes on what the cards can prove.
RecordCards(table, cards, source) ==
    LET proven == SelectSeq(cards, Observable)
    IN  RecordObservations(table, [i \in DOMAIN proven |-> Observed(proven[i], source)])

-----------------------------------------------------------------------------
(* The order of RFC 3339 texts.  A fraction has no trailing zeros, and the  *)
(* Z after it follows every digit.                                         *)

Digit(time, i) == IF i \in DOMAIN time.fraction THEN time.fraction[i] ELSE 10

TextBefore(a, b) ==
    \/ a.second < b.second
    \/ /\ a.second = b.second
       /\ \E i \in 1..(Len(a.fraction) + 1) :
              /\ Digit(a, i) < Digit(b, i)
              /\ \A j \in 1..(i - 1) : Digit(a, j) = Digit(b, j)

\* ORDER BY observed_at, id
Older(table, i, j) ==
    \/ TextBefore(table[i].time, table[j].time)
    \/ table[i].time = table[j].time /\ i < j

FirstOf(table, S) == CHOOSE i \in S : \A j \in S \ {i} : Older(table, i, j)
LastOf(table, S) == CHOOSE i \in S : \A j \in S \ {i} : Older(table, j, i)

-----------------------------------------------------------------------------
(* Reads.                                                                  *)

\* ListPriceObservations: the newest rows of the product, or of a vendor item.
Matching(table, request) ==
    {i \in DOMAIN table :
        /\ table[i].ref.product = request.product
        /\ request.vendor \in {0, table[i].ref.vendor}}

Returned(table, request) ==
    LET all == Matching(table, request)
    IN  {i \in all : Cardinality({j \in all : Older(table, i, j)}) < request.limit}

\* priceTrend: of one exact reference and with evidence throughout, or none
Trend(table, S) ==
    LET amounts == {table[i].amount : i \in S}
    IN  IF /\ \A i \in S : HasEvidence(table[i])
           /\ Cardinality({table[i].ref : i \in S}) = 1
        THEN {[first |-> table[FirstOf(table, S)].amount,
               latest |-> table[LastOf(table, S)].amount,
               minimum |-> Min(amounts), maximum |-> Max(amounts)]}
        ELSE {}

\* PriceHistory
History(table, request) ==
    LET returned == Returned(table, request)
        of(key) == {i \in returned : Identity(table[i].ref) = key}
    IN  [truncated |-> returned # Matching(table, request),
         series |-> [key \in {Identity(table[i].ref) : i \in returned} |->
                        [rows |-> of(key), trend |-> Trend(table, of(key))]]]

\* The price a reorder candidate is compared with: the last one that was recorded
\* with evidence.
LatestPrice(table, key, product) ==
    LET rows == {i \in DOMAIN table : /\ Identity(table[i].ref) = key
                                      /\ table[i].ref.product = product
                                      /\ table[i].provenance \in {"observed", "derived"}
                                      /\ table[i].evidence # {}}
    IN  IF rows = {} THEN {} ELSE {table[LastOf(table, rows)]}

\* How current it is, at a time in seconds.
Freshness(price, now) ==
    LET after(second) == \/ price.time.second > second
                         \/ price.time.second = second /\ price.time.fraction # <<>>
    IN  IF after(now + 5 * 60) THEN "unknown"
        ELSE IF after(now - 24 * 3600) THEN "recent_under_24h" ELSE "stale_24h_or_more"

-----------------------------------------------------------------------------
(* What they must agree on.                                                *)

\* No observation is returned twice, every trend stays between its extremes, its
\* latest amount is the one reorder candidates are compared with, and it is of the
\* last second that was returned, whatever the text order does within a second.
HistoryAddsUp(table, request) ==
    LET history == History(table, request)
    IN  \A key \in DOMAIN history.series :
            LET rows == history.series[key].rows
            IN  /\ \A i, j \in rows : SameRow(table[i], table[j]) => i = j
                /\ \A i \in rows : table[i].time.second <= table[LastOf(table, rows)].time.second
                /\ \A trend \in history.series[key].trend :
                       /\ {trend.first, trend.latest} \subseteq trend.minimum..trend.maximum
                       /\ {p.amount : p \in LatestPrice(table, key, request.product)}
                              = {trend.latest}

=============================================================================

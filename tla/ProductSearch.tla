---------------------------- MODULE ProductSearch ---------------------------
(***************************************************************************)
(* The product search of internal/products/service.go after its document   *)
(* was read: checks of the source's answer, filters, order, variants and   *)
(* affiliate links.                                                        *)
(*                                                                         *)
(* A card is the product it belongs to (page), its address (url, a set of  *)
(* at most one) and, for each field, the value observed (a set of at most  *)
(* one number).  Filters are conditions on fields, as in ProductEvidence.  *)
(*                                                                         *)
(* CountShown is not used by the specification: it is a plausible mistake  *)
(* in the operator next to it.                                             *)
(***************************************************************************)
EXTENDS ProductEvidence, SequencesExt

\* Search of Service, before filtering: sidebar selections must be verified,
\* and a source that says there are no results must not list any.
Trustworthy(answer, selections) ==
    /\ selections # <<>> => answer.verified
    /\ answer.none => answer.items = <<>>

\* What a loop keeps that appends what passes a test: the elements of a sequence
\* at some of its places, in their order.
Nth(places, k) == CHOOSE i \in places : Cardinality({j \in places : j <= i}) = k
At(s, places) == [k \in 1..Cardinality(places) |-> s[Nth(places, k)]]

Satisfies(card, filter) == \E x \in card.fields[filter.field] : Holds(x, filter)

\* filterProducts: what was not observed satisfies no filter.  Only a state of
\* use that the title does not give away counts as new.
Filtered(cards, filters) ==
    At(cards, {i \in DOMAIN cards : \A f \in filters :
        Satisfies(cards[i], f) \/ (f.field = "used" /\ cards[i].fields.used = {})})

\* unavailableFilterFields: what is guessed from the title is never reported.
Guessed == {"memory", "storage", "used"}
UnavailableFields(cards, filters) ==
    {f.field : f \in {g \in filters : /\ g.field \notin Guessed
                                     /\ \E i \in DOMAIN cards : cards[i].fields[g.field] = {}}}

\* sortProducts: a stable order, highest first, unobserved values last; the
\* other orders are the source's own.
LocalOrders == {"rating", "reviews"}
Precedes(field, cards, i, j) ==
    LET a == cards[i].fields[field]
        b == cards[j].fields[field]
    IN  \/ a # {} /\ b = {}
        \/ a # {} /\ b # {} /\ \A x \in a, y \in b : x > y \/ (x = y /\ i < j)
        \/ a = {} /\ b = {} /\ i < j
Sorted(cards, order) ==
    IF order \notin LocalOrders THEN cards
    ELSE LET places == SortSeq([i \in DOMAIN cards |-> i], LAMBDA i, j : Precedes(order, cards, i, j))
         IN  [i \in DOMAIN cards |-> cards[places[i]]]

Variants(cards, page) == {i \in DOMAIN cards : cards[i].page = page}

Leaders(cards) == {i \in DOMAIN cards : \A j \in Variants(cards, cards[i].page) : i <= j}

CountShown(cards, variants) ==
    LET kept == At(cards, IF variants THEN DOMAIN cards ELSE Leaders(cards))
    IN  [k \in DOMAIN kept |-> [card |-> kept[k], variants |-> 1]]

\* collapseListingVariants keeps the first card of a product, and
\* annotateVariantCounts all of them; both count the product's cards.
Collapsed(cards, variants) ==
    LET kept == At(cards, IF variants THEN DOMAIN cards ELSE Leaders(cards))
    IN  [k \in DOMAIN kept |-> [card |-> kept[k],
                                variants |-> Cardinality(Variants(cards, kept[k].page))]]

\* applyAffiliateLinks: linked is the set of addresses the partner linked, or
\* "failed" when the partner could not be reached; it is not asked about none.
Affiliate(shown, mode, linked) ==
    LET url(i) == shown[i].card.url
    IN  CASE mode # "configured" -> mode
          [] mode = "configured" /\ shown = <<>> -> "not_applicable"
          [] mode = "configured" /\ shown # <<>> ->
                IF linked = {"failed"} \/ \A i \in DOMAIN shown : url(i) = {}
                THEN "unavailable"
                ELSE IF \A i \in DOMAIN shown : url(i) \cap linked # {} THEN "applied"
                ELSE "partial"

\* Search of Service, for a request with filters.
Listing(answer, request, linked) ==
    LET matching == Filtered(answer.items, request.filters)
        all == Collapsed(Sorted(matching, request.order), request.variants)
        shown == SubSeq(all, 1, IF Len(all) < request.limit THEN Len(all) ELSE request.limit)
    IN  [items |-> shown,
         unavailable |-> UnavailableFields(answer.items, request.filters),
         rejected |-> answer.rejected,
         affiliate |-> Affiliate(shown, request.affiliate, linked)]

=============================================================================

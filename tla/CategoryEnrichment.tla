------------------------- MODULE CategoryEnrichment -------------------------
(***************************************************************************)
(* Category enrichment over an opened ledger: EnrichCategories of          *)
(* internal/orders/service.go, internal/store/categories.go, the category  *)
(* reader of internal/browser and internal/coupang/categories.             *)
(*                                                                         *)
(* A call reads its list of products once, then contacts the product pages *)
(* one after another and stores each outcome in a transaction of its own.  *)
(* Meanwhile other calls enrich the same products, syncs replace the       *)
(* orders the list came from and purges empty the tables.  An outcome is   *)
(* stamped before its transaction begins, so that another call may store a *)
(* later outcome of the product first.  The ledger is open: LedgerSchema   *)
(* models the opening.                                                     *)
(*                                                                         *)
(* A breadcrumb row is its position and target; labels are left out: a     *)
(* category stands for its numeric id and its name.  Every outcome has a   *)
(* clock reading of its own, a number; the code orders the RFC 3339 texts  *)
(* of the readings, which agree with it from one second to the next and    *)
(* may not within a second.                                                *)
(*                                                                         *)
(* TruncationIgnored, NewestFirst, ByPosition and AnyTwoDays are not used  *)
(* by the specification: each is a plausible mistake in the operator next  *)
(* to it.                                                                  *)
(***************************************************************************)
EXTENDS CategoryTables, Integers, SequencesExt

CONSTANTS
    Caller,      \* processes that enrich
    Product,     \* vendor_item_id, as numbers in text order
    Documents,   \* breadcrumb rows of the product documents that may be read
    Budget,      \* max_products requested (1 to 500 in the code)
    Day,         \* clock readings in a calendar day
    Ordered,     \* sets of products the orders may name at first
    LegacyCategories, \* sets of category rows there may be at first
    MaxSaves,    \* bound on the outcomes saved
    MaxEdits     \* bound on changes of the orders by syncs and purges

ASSUME EnrichmentAssumption ==
    /\ Product \subseteq Nat /\ IsFiniteSet(Product)
    /\ Ordered \subseteq SUBSET Product
    /\ Budget \subseteq Nat \ {0}
    /\ Day \in Nat \ {0}
    /\ \A d \in Documents : Len(d) \in Nat /\ DOMAIN d = 1..Len(d)
    /\ \A rows \in LegacyCategories :
           /\ IsFiniteSet(rows)
           /\ \A r \in rows : /\ r.at \in Int /\ r.at <= 0    \* from before the first reading
                               /\ r.path \in Seq(Range(r.path))
           /\ \A r, s \in rows : r.product = s.product => r = s

VARIABLES
    eligible,   \* products of order_items with a product and a vendor id
    clock,      \* readings of the clock so far
    call,       \* locals of each EnrichCategories
    edits,      \* changes of the orders so far
    rechecks,   \* history: saves of each product since the orders changed or calls overlapped
    behind      \* history: products last stored by an overtaken call

tables == <<cached, observed>>
vars == <<tables, eligible, clock, call, edits, rechecks, behind>>

-----------------------------------------------------------------------------
(* Documents.                                                              *)

MaxLevels == 12
NoPath == <<>>
Home == 0        \* a target on the store that is no category
Elsewhere == 0 - 1   \* any other target

Node(row) == [id |-> row.target, position |-> row.position]

Rising(s) == \A i \in 1..Len(s) - 1 : s[i].position < s[i + 1].position

\* The elements of a finite set in an order given by its pairs: the k-th one
\* comes after k - 1 others.
InOrder(S, order) ==
    [k \in 1..Cardinality(S) |->
        CHOOSE x \in S : Cardinality({y \in S : <<y, x>> \in order}) = k - 1]

\* categoryPath: rows are sorted by position, which must be positive and
\* distinct; targets must be on the store; only category targets are kept.
CategoryPath(rows) ==
    LET categories == {i \in DOMAIN rows : rows[i].target > 0}
        sorted == InOrder(categories, {c \in categories \X categories :
                                           rows[c[1]].position < rows[c[2]].position})
    IN  IF rows = <<>> \/ Len(rows) > MaxLevels + 2 THEN [kind |-> "missing", path |-> NoPath]
        ELSE IF \/ \E i \in DOMAIN rows : rows[i].position < 1 \/ rows[i].target = Elsewhere
                \/ \E i, j \in DOMAIN rows : i # j /\ rows[i].position = rows[j].position
        THEN [kind |-> "invalid", path |-> NoPath]
        ELSE IF categories = {} \/ Cardinality(categories) > MaxLevels
        THEN [kind |-> "missing", path |-> NoPath]
        ELSE [kind |-> "path", path |-> [k \in DOMAIN sorted |-> Node(rows[sorted[k]])]]

\* FetchProductCategory passes a page without breadcrumb on, refuses one it
\* cannot read and encodes the nodes of any other again, as rows.
Reencoded(path) == [i \in DOMAIN path |-> [position |-> path[i].position, target |-> path[i].id]]

ReaderResult(rows) ==
    IF rows = <<>> THEN [kind |-> "ok", rows |-> <<>>]
    ELSE IF CategoryPath(rows).kind = "path"
    THEN [kind |-> "ok", rows |-> Reencoded(CategoryPath(rows).path)]
    ELSE [kind |-> "error", rows |-> <<>>]

\* The source and path EnrichCategories stores for a document it was given.
Outcome(rows) ==
    CASE CategoryPath(rows).kind = "path" ->
             [source |-> "breadcrumb", path |-> CategoryPath(rows).path]
      [] OTHER -> [source |-> "missing", path |-> NoPath]

Unavailable == [source |-> "unavailable", path |-> NoPath]

Outcomes == {Unavailable} \cup
    {Outcome(ReaderResult(rows).rows) :
        rows \in {d \in Documents : ReaderResult(d).kind = "ok"}}

-----------------------------------------------------------------------------
(* Queries.                                                                *)

CacheKeys == {r.product : r \in cached}
CacheRow(k) == CHOOSE r \in cached : r.product = k

\* Neither cached nor cached by a release that kept no path.
Unresolved(k) ==
    \/ k \notin CacheKeys
    \/ CacheRow(k).source = "breadcrumb" /\ CacheRow(k).path = NoPath

\* ORDER BY never cached first, then fetched_at, then vendor_item_id.
NewestFirst(j, k) == IF CacheRow(j).at # CacheRow(k).at
                     THEN CacheRow(j).at > CacheRow(k).at ELSE j < k
OldestFirst(j, k) == IF CacheRow(j).at # CacheRow(k).at
                     THEN CacheRow(j).at < CacheRow(k).at ELSE j < k

RecheckBefore(j, k) ==
    IF j \in CacheKeys /\ k \in CacheKeys THEN OldestFirst(j, k)
    ELSE IF (j \in CacheKeys) # (k \in CacheKeys) THEN j \notin CacheKeys
    ELSE j < k

FirstOf(s, n) == SubSeq(s, 1, IF Len(s) < n THEN Len(s) ELSE n)

RecheckOrder == {c \in eligible \X eligible : RecheckBefore(c[1], c[2])}
TextOrder == {c \in eligible \X eligible : c[1] < c[2]}
Pending == {k \in eligible : Unresolved(k)}

ProductsForEnrichment(limit, recheck) ==
    FirstOf(IF recheck THEN InOrder(eligible, RecheckOrder) ELSE InOrder(Pending, TextOrder), limit)

RemainingProducts == Cardinality(Pending)

-----------------------------------------------------------------------------
(* CategoryCatalog and CategoryStability.                                  *)

ValidCatalogPath(path) == path # NoPath /\ Len(path) <= MaxLevels /\ Rising(path)

\* Products whose cached breadcrumb the catalogue counts.
Classified == {k \in eligible \cap CacheKeys :
                  CacheRow(k).source = "breadcrumb" /\ ValidCatalogPath(CacheRow(k).path)}

PathOf(k) == CacheRow(k).path
Entries == UNION {Prefixes(PathOf(k)) \ {NoPath} : k \in Classified}
Below(entry) == {k \in Classified : IsPrefix(entry, PathOf(k))}

ByPosition(entry, k) == entry[Len(entry)].position = Len(PathOf(k))
IsLeafOf(entry, k) == Len(entry) = Len(PathOf(k))

LeafCount(entry) == Cardinality({k \in Below(entry) : IsLeafOf(entry, k)})
AncestorCount(entry) == Cardinality({k \in Below(entry) : ~IsLeafOf(entry, k)})
ObservedCount(entry) == Cardinality(Below(entry))

Role(entry) ==
    CASE LeafCount(entry) > 0 /\ AncestorCount(entry) > 0 -> "sometimes_leaf"
      [] LeafCount(entry) > 0 /\ AncestorCount(entry) = 0 -> "always_leaf"
      [] OTHER -> "never_leaf"

\* Observations CategoryStability counts, by product.
BreadcrumbsOf(k) == {o \in observed : /\ o.product = k /\ o.source = "breadcrumb"
                                      /\ ValidCatalogPath(o.path)}
DaysOf(os) == {o.at \div Day : o \in os}
ObservedProducts == {k \in eligible : BreadcrumbsOf(k) # {}}
Rechecked == {k \in eligible : Cardinality(BreadcrumbsOf(k)) >= 2}
Changed == {k \in Rechecked : Cardinality({o.path : o \in BreadcrumbsOf(k)}) > 1}

AnyTwoDays == {k \in Rechecked :
                  Cardinality(DaysOf(UNION {BreadcrumbsOf(j) : j \in eligible})) > 1}
MultiDay == {k \in Rechecked : Cardinality(DaysOf(BreadcrumbsOf(k))) > 1}

Assessment ==
    IF ObservedProducts = {} THEN "unavailable_no_observed_breadcrumbs"
    ELSE IF Changed # {} THEN "changes_observed"
    ELSE IF Rechecked = {} THEN "insufficient_rechecks"
    ELSE IF MultiDay = {} THEN "insufficient_distinct_days"
    ELSE "stable_within_local_observation_window"

-----------------------------------------------------------------------------
(* EnrichCategories.                                                       *)

NoCall == [pc |-> "idle", recheck |-> FALSE, pending |-> <<>>, listed |-> 0,
           began |-> {}, truncated |-> FALSE, throughout |-> {}, saved |-> {},
           outcome |-> Unavailable, at |-> 0, overtaken |-> FALSE, complete |-> FALSE]

Init ==
    /\ cached \in LegacyCategories
    /\ observed = cached
    /\ eligible \in Ordered
    /\ clock = 0
    /\ call = [p \in Caller |-> NoCall]
    /\ edits = 0
    /\ rechecks = [k \in Product |-> 0]
    /\ behind = {}

Goto(p, new) == call' = [call EXCEPT ![p] = new]

\* CategoryProductsForEnrichment.
StartCall(p) ==
    /\ call[p].pc = "idle"
    /\ \E recheck \in BOOLEAN, budget \in Budget :
           LET pending == ProductsForEnrichment(budget, recheck)
           IN  Goto(p, [NoCall EXCEPT
                   !.pc = IF recheck THEN "count" ELSE "next",
                   !.recheck = recheck, !.pending = pending, !.listed = Len(pending),
                   !.began = eligible, !.throughout = eligible])
    /\ UNCHANGED <<tables, eligible, clock, edits, rechecks, behind>>

\* CategoryRecheckCandidateCount, a statement of its own.
TruncationIgnored(p) == FALSE
Truncated(p) == Cardinality(eligible) > call[p].listed

CountCandidates(p) ==
    /\ call[p].pc = "count"
    /\ Goto(p, [call[p] EXCEPT !.pc = "next", !.truncated = Truncated(p)])
    /\ UNCHANGED <<tables, eligible, clock, edits, rechecks, behind>>

\* FetchProductCategory and ParseProductCategory: the page is gone or gives a
\* document.  saveProductCategoryOutcome reads the clock before it begins.
EnrichProduct(p) ==
    /\ call[p].pc = "next" /\ call[p].pending # <<>> /\ clock < MaxSaves
    /\ \E outcome \in Outcomes :
           Goto(p, [call[p] EXCEPT !.pc = "save", !.outcome = outcome, !.at = clock + 1,
                                   !.overtaken = FALSE])
    /\ clock' = clock + 1
    /\ UNCHANGED <<tables, eligible, edits, rechecks, behind>>

Alone(p) == \A q \in Caller \ {p} : call[q].pc = "idle"
Stamped(q, k) == call[q].pc = "save" /\ Head(call[q].pending) = k

\* Its transaction.  The outcome is stored for the product that was listed,
\* whether or not its order is still there.
SaveOutcome(p) ==
    /\ call[p].pc = "save"
    /\ LET k == Head(call[p].pending)
       IN  /\ Save([product |-> k, source |-> call[p].outcome.source,
                    path |-> call[p].outcome.path, at |-> call[p].at])
           /\ call' = [q \in Caller |->
                  IF q = p THEN [call[p] EXCEPT !.pc = "next", !.pending = Tail(@),
                                                !.saved = @ \cup {k}, !.at = 0]
                  ELSE [call[q] EXCEPT !.overtaken = @ \/ Stamped(q, k)]]
           /\ rechecks' = IF Alone(p) THEN [rechecks EXCEPT ![k] = @ + 1]
                        ELSE [j \in Product |-> 0]
           /\ behind' = IF call[p].overtaken THEN behind \cup {k} ELSE behind \ {k}
    /\ UNCHANGED <<eligible, clock, edits>>

\* Any other failure of the source, of a statement or of the context ends the
\* call, as the end of its process does; what it saved stays.
FailCall(p) ==
    /\ call[p].pc # "idle"
    /\ Goto(p, NoCall)
    /\ UNCHANGED <<tables, eligible, clock, edits, rechecks, behind>>

\* RemainingCategoryProducts and the verdict; what the call was about is only
\* remembered when it claims to be complete.
FinishCall(p) ==
    /\ call[p].pc = "next" /\ call[p].pending = <<>>
    /\ Goto(p, IF RemainingProducts = 0 /\ ~call[p].truncated
               THEN [call[p] EXCEPT !.pc = "idle", !.complete = TRUE] ELSE NoCall)
    /\ UNCHANGED <<tables, eligible, clock, edits, rechecks, behind>>

-----------------------------------------------------------------------------
(* The other users of the ledger.                                          *)

\* The orders changed: a product that is gone was not eligible throughout.
OrdersChanged(new) ==
    /\ eligible' = new
    /\ edits' = edits + 1
    /\ call' = [p \in Caller |->
                  IF call[p].complete THEN NoCall
                  ELSE [call[p] EXCEPT !.throughout = @ \cap new]]
    /\ rechecks' = [k \in Product |-> 0]

\* A sync or an import upserts a page of orders: their items are replaced.
ReplaceOrders ==
    /\ edits < MaxEdits
    /\ \E k \in Product :
           OrdersChanged(IF k \in eligible THEN eligible \ {k} ELSE eligible \cup {k})
    /\ UNCHANGED <<tables, clock, behind>>

\* Purge deletes observations, cache and orders in one transaction.
Purge ==
    /\ edits < MaxEdits
    /\ Empty
    /\ OrdersChanged({})
    /\ UNCHANGED <<clock, behind>>

CallStep(p) ==
    \/ StartCall(p)
    \/ CountCandidates(p)
    \/ EnrichProduct(p)
    \/ SaveOutcome(p)
    \/ FailCall(p)
    \/ FinishCall(p)

Next ==
    \/ \E p \in Caller : CallStep(p)
    \/ ReplaceOrders
    \/ Purge

Spec == Init /\ [][Next]_vars

-----------------------------------------------------------------------------

\* An outcome is cached and observed together, whoever else saves or purges:
\* what the cache answers is in the history of the product.  It is the end of
\* that history, unless another call stored the product between the stamp and
\* the transaction of the outcome cached; the next outcome that is not overtaken
\* in this way puts it right.
CacheEndsHistory ==
    \A r \in cached :
        /\ \E o \in observed : ObservationKey(o) = ObservationKey(r) /\ o.path = r.path
        /\ r.product \notin behind =>
               \A o \in observed : o.product = r.product => o.at <= r.at

\* A result that says complete leaves no product of the orders unresolved and,
\* for a recheck no product left during, stored a new outcome of every product
\* its list was taken from: the list, the count and the remainder are read by
\* separate statements, between which other calls and syncs run.
CompleteIsEarned ==
    \A p \in Caller : call[p].complete =>
        /\ \A k \in eligible : ~Unresolved(k)
        /\ call[p].recheck /\ call[p].throughout = call[p].began =>
               call[p].throughout \subseteq call[p].saved

\* While the orders stay as they are, no product is rechecked over and over
\* while another waits: calls that end anywhere, one after the other, visit the
\* products in turn.  What calls that overlapped before leave behind costs one
\* turn: an outcome stamped early makes its product look due once more.
RechecksAreFair ==
    \A j, k \in eligible : rechecks[j] <= rechecks[k] + 2

\* An entry of the catalogue is the sum of its own leaves and the entries
\* below it.
CatalogAddsUp ==
    \A entry \in Entries :
        /\ AncestorCount(entry) = SumFunctionOnSet([e \in Entries |-> ObservedCount(e)],
               {e \in Entries : Len(e) = Len(entry) + 1 /\ IsPrefix(entry, e)})
        /\ Role(entry) = "never_leaf" <=> \A k \in Classified : PathOf(k) # entry

\* "stable" is only said when one product was seen on two days, and no product
\* with two paths.
StabilityIsLongitudinal ==
    Assessment = "stable_within_local_observation_window" =>
        /\ \E k \in eligible : \E a, b \in BreadcrumbsOf(k) : a.at \div Day # b.at \div Day
        /\ \A k \in eligible : \A a, b \in BreadcrumbsOf(k) : a.path = b.path

\* The two category reports say what the rows say after any run of saves,
\* rechecks and changes of the orders: counts of the catalogue add up level by
\* level, and days on which only other products were seen are no evidence of
\* stability.
CategoryReportsGrounded == CatalogAddsUp /\ StabilityIsLongitudinal

=============================================================================

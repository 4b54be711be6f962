--------------------------- MODULE Recommendation ---------------------------
(***************************************************************************)
(* Recommend of internal/products: a search, the sidebar choices of the    *)
(* request, further searches in other orders and pages, detail reads of    *)
(* what was found, local purchase history and a conclusion.  All of it     *)
(* shares one allowance of document reads and one deadline; the source may *)
(* fail, deny access, ask for a login or change the category at any read.  *)
(* Search of the same service with explicit filters is a call of its own.  *)
(*                                                                         *)
(* A product option is found at most once; Page gives the product it is an *)
(* option of (product_id, always present here).  Products, documents and   *)
(* reviews are counted, texts are left out.  A caller that gives up gets an*)
(* error from whichever step looks next: here from any step.               *)
(*                                                                         *)
(* AnyCategory, Unshared and Suggestions are not used by the               *)
(* specification: each is a plausible mistake in the operator next to it.  *)
(***************************************************************************)
EXTENDS ProductSearch

CONSTANTS
    Option,      \* exact options (product, item and vendor item)
    Page,        \* [Option -> product]
    Sorts,       \* source orders, the ranking first (five in the code)
    Requests,    \* requests for recommendations
    Conditions,  \* required conditions of a request, its maximum price included
    Axes,        \* comparison axes of a request
    Answers,     \* answers of the source to a search
    Details,     \* answers of the source to a detail read
    Shelves, Wishes, Linked, \* explicit searches: answers, requests, links
    DocumentBudget,    \* 40 in the code
    InspectionBudget,  \* 20
    ReadsPerInspection,\* 3
    ReviewsPerRead     \* 20

ASSUME BudgetAssumption ==
    /\ DocumentBudget \in Nat \ {0}
    /\ InspectionBudget \in Nat \ {0}
    /\ ReadsPerInspection \in Nat \ {0}
    /\ ReviewsPerRead \in Nat \ {0}

ASSUME RequestAssumption ==
    /\ Requests # {}
    /\ \A r \in Requests : /\ r.reviewCap \in Nat \ {0}
                            /\ r.answers \in Seq(STRING)
                            /\ r.purchases \in BOOLEAN

\* Lists of the source are finite, its flags are booleans, its numbers numbers.
ASSUME SourceAssumption ==
    /\ Sorts # <<>> /\ Sorts \in Seq(Range(Sorts))
    /\ \A a \in Answers : /\ a.items \in Seq(Option)
                           /\ a.none \in BOOLEAN /\ a.rejected \in BOOLEAN
                           /\ a.moved \in BOOLEAN /\ a.verified \in BOOLEAN
    /\ \A a \in Shelves : a.items \in Seq(Range(a.items))
    /\ \A w \in Wishes : w.limit \in Nat

\* The rows of a capacity and the statements of any other field (ProductEvidence).
Row == [kind: {"standalone", "compound", "other"}, unit: {"TB", "GB", "other"}, amount: Nat]
ASSUME DetailAssumption ==
    \A d \in Details :
        /\ d.needs \in Nat /\ d.reviews \in Nat /\ d.reviewCount \in SUBSET Nat
        /\ \A x \in Axes :
              IF x.field \in Capacities THEN d.fields[x.field].rows \in Seq(Row)
              ELSE \A s \in {d.fields[x.field].card, d.fields[x.field].detail} :
                      s \in SUBSET Int /\ IsFiniteSet(s)

VARIABLES
    stage,       \* where the call is
    req,         \* the request, defaults filled in
    expired,     \* the time budget is over
    choices,     \* sidebar choices of the request still to apply
    selections,  \* verified sidebar choices
    trail,       \* category choices before the active one, replayed by queries
    category,    \* category the source has verified, counted from the request's
    initial,     \* the last verified answer of refinement
    reserved,    \* DocumentReadReservations
    stop,        \* why the source was left (sourceAccessStop)
    round, todo, \* the page being searched, and the orders left to search
    active,      \* orders that may have more results
    limited,     \* discoveryDocumentLimited
    found,       \* exact options, in the order of their first observation
    incomplete,
    discoveryStop, inspectionStop,
    tried,       \* options whose details were asked for
    left,        \* options still to inspect
    reviewsLeft,
    examined,    \* ReviewsExamined
    inspected,   \* inspections, in order
    counts,      \* review count of each page
    purchases,   \* status of the purchase context
    outcome,     \* what the call returned
    searched,    \* an explicit search, its answer and its result
    exhausted,   \* history: orders whose last read said there is nothing more
    failed,      \* history: a read failed or left something out
    scopes       \* history: verified scopes the listed options come from

refinement == <<choices, selections, trail, category, initial>>
searching == <<round, todo, active, limited, found, discoveryStop>>
inspecting == <<tried, left, reviewsLeft, examined, inspected, counts, inspectionStop>>
history == <<exhausted, failed, scopes>>
vars == <<stage, req, expired, refinement, reserved, stop, searching, incomplete,
          inspecting, purchases, outcome, searched, history>>

-----------------------------------------------------------------------------
Min2(a, b) == IF a < b THEN a ELSE b
Ranking == Head(Sorts)
Pages == {Page[o] : o \in Option}
Denials == {"source_access_denied", "source_authentication_required"}
Errors == Denials \cup {"error"}   \* the expired deadline among the last

NoAnswer == [items |-> <<>>, none |-> FALSE, rejected |-> FALSE, moved |-> FALSE,
             verified |-> FALSE]

\* Search of Service: an answer that contradicts itself or the selections is
\* an error.  A source may move to another category only where a category was
\* chosen and the request names one itself (ValidateCategoryScope).
MayMove(chosen) == ~req.byQuery /\ "category" \in Range(chosen)
Replies(chosen) ==
    {[error |-> e, answer |-> NoAnswer] : e \in Errors}
    \cup {[error |-> "", answer |-> a] : a \in
            {b \in Answers : Trustworthy(b, chosen) /\ (b.moved => MayMove(chosen))}}

\* A search reads its page and one document for each choice it replays.
SearchReads(chosen, replayed) == 1 + Len(chosen) + replayed

\* The state of the sidebar an answer belongs to.
Verified == <<category, Len(choices)>>

\* Exact options are added once, in the order of their first observation.
Merged(seen, items) ==
    LET fresh == {i \in DOMAIN items : /\ items[i] \notin Range(seen)
                                       /\ \A j \in 1..i - 1 : items[j] # items[i]}
    IN  seen \o At(items, fresh)

Result(status, listed, kept, shown, next, reviews) ==
    [status |-> status, listed |-> listed, kept |-> kept, shown |-> shown,
     next |-> next, reviews |-> reviews]
NoResult == Result("none", {}, {}, 0, {}, Unknown)

Init ==
    /\ stage = "start"
    /\ req \in Requests
    /\ choices = req.answers
    /\ expired = FALSE /\ stop = "" /\ incomplete = FALSE
    /\ selections = <<>> /\ trail = 0 /\ category = 0 /\ initial = NoAnswer
    /\ reserved = 1
    /\ round = 1 /\ todo = <<>> /\ limited = FALSE /\ found = <<>> /\ discoveryStop = ""
    /\ active = [s \in Range(Sorts) |-> FALSE]
    /\ tried = {} /\ left = 0 /\ inspected = <<>> /\ inspectionStop = ""
    /\ reviewsLeft = req.reviewCap /\ examined = 0
    /\ counts = [p \in Pages |-> Unknown]
    /\ purchases = "none" /\ outcome = NoResult
    /\ searched = <<>>
    /\ exhausted = {} /\ failed = FALSE /\ scopes = {}

-----------------------------------------------------------------------------
(* The first search and the sidebar choices.                               *)

\* An error ends the call, unless the deadline is the error.
FirstSearch ==
    /\ stage = "start"
    /\ \E reply \in Replies(<<>>) :
        /\ expired => reply.error = "error"
        /\ stage' = IF reply.error = "" THEN "refine" ELSE IF expired THEN "research" ELSE "failed"
        /\ initial' = reply.answer
        /\ failed' = (reply.error # "" \/ reply.answer.rejected)
    /\ scopes' = {Verified}
    /\ UNCHANGED <<req, expired, choices, selections, trail, category, reserved, stop, searching,
                   incomplete, inspecting, purchases, outcome, searched, exhausted>>

\* The call returns the last verified state: its options, nothing inspected.
Return(status, next) ==
    /\ stage' = "done"
    /\ outcome' = Result(status, Range(initial.items), {}, 0, next, Unknown)

NextAfterStop(reason) ==
    {<<IF reason \in Denials THEN "restore_source_access" ELSE "rediscover_filters", reason>>}

\* stop of refineRecommendation.
StopRefinement(reason) ==
    /\ stop' = reason
    /\ Return(IF reason = "choice_unavailable" THEN "needs_input" ELSE "incomplete",
              NextAfterStop(reason))
    /\ UNCHANGED <<selections, trail, category, choices, initial, scopes>>

\* A category that replaces another goes on from it in a query's sidebar.
Replaces == Head(choices) = "category" /\ "category" \in Range(selections)
Chosen == IF Replaces THEN selections ELSE Append(selections, Head(choices))
Replayed == IF Replaces /\ req.byQuery THEN trail + 1 ELSE trail

Refining == stage = "refine" /\ choices # <<>>

RefuseChoice ==
    /\ Refining
    /\ \E reason \in {"choice_unavailable", "time_budget_reached", "document_budget_reached"} :
        /\ reason = "time_budget_reached" => expired
        /\ reason = "document_budget_reached" =>
              ~expired /\ reserved + SearchReads(Chosen, Replayed) > DocumentBudget
        /\ StopRefinement(reason)
    /\ UNCHANGED <<req, expired, reserved, searching, incomplete, inspecting, purchases,
                   searched, exhausted, failed>>

\* Only a category choice may move the category.
ApplyChoice ==
    /\ Refining /\ ~expired
    /\ reserved + SearchReads(Chosen, Replayed) <= DocumentBudget
    /\ reserved' = reserved + SearchReads(Chosen, Replayed)
    /\ \E reply \in Replies(Chosen) :
        \/ /\ reply.error # ""
           /\ expired' \in BOOLEAN      \* the deadline may pass during the read
           /\ StopRefinement(IF expired' THEN "time_budget_reached"
                             ELSE IF reply.error \in Denials THEN reply.error
                             ELSE "selection_unverified")
           /\ failed' = TRUE
        \/ /\ reply.error = "" /\ reply.answer.moved /\ Head(choices) # "category"
           /\ StopRefinement("source_category_changed")
           /\ failed' = TRUE
           /\ UNCHANGED expired
        \/ /\ reply.error = "" /\ (reply.answer.moved => Head(choices) = "category")
           /\ initial' = reply.answer
           /\ category' = IF reply.answer.moved THEN category + 1 ELSE category
           /\ selections' = Chosen /\ trail' = Replayed
           /\ choices' = Tail(choices)
           /\ scopes' = {Verified'}
           /\ failed' = reply.answer.rejected
           /\ UNCHANGED <<stage, stop, outcome, expired>>
    /\ UNCHANGED <<req, searching, incomplete, inspecting, purchases, searched, exhausted>>

\* Questions about facets the request did not answer, unless it says proceed.
AskQuestions ==
    /\ stage = "refine" /\ choices = <<>> /\ ~req.proceed /\ ~expired
    /\ Return("needs_input", {})
    /\ UNCHANGED <<req, expired, refinement, reserved, stop, searching, incomplete, inspecting,
                   purchases, searched, history>>

\* The first search of research is the last one of refinement.
BeginResearch ==
    /\ \/ stage = "refine" /\ choices = <<>>
       \/ stage = "research"
    /\ stage' = "discover"
    /\ found' = Merged(<<>>, initial.items)
    /\ active' = [active EXCEPT ![Ranking] = ~initial.none]
    /\ exhausted' = IF initial.none THEN {Ranking} ELSE {}
    /\ incomplete' = initial.rejected
    /\ todo' = Tail(Sorts)
    /\ UNCHANGED <<req, expired, refinement, reserved, stop, round, limited, discoveryStop,
                   inspecting, purchases, outcome, searched, failed, scopes>>

-----------------------------------------------------------------------------
(* Discovery: rounds of searches, one for each order that may have more.   *)

\* Sidebar choices are replayed on the first page only.
PageLimit == IF selections # <<>> THEN 1 ELSE req.pageLimit

\* Every option known so far keeps a document for its details.
DetailSlots == Min2(Min2(Len(found), InspectionBudget), req.reviewCap)
Affordable == DocumentBudget - reserved >= DetailSlots + SearchReads(selections, trail)

Discovering == stage = "discover" /\ todo # <<>>

\* An access failure always ends discovery; a search that no longer shows the
\* verified choices, or another category, does so too.
AnyCategory(reply) ==
    IF reply.error \in Denials THEN reply.error
    ELSE IF reply.error # "" /\ selections # <<>> THEN "source_filter_unverified"
    ELSE ""
StopAfter(reply) ==
    IF reply.error \in Denials THEN reply.error
    ELSE IF reply.error = "" /\ reply.answer.moved THEN "source_category_changed"
    ELSE IF reply.error # "" /\ selections # <<>> THEN "source_filter_unverified"
    ELSE ""

ReadSearch ==
    /\ Discovering /\ ~expired /\ stop = "" /\ Affordable
    /\ reserved' = reserved + SearchReads(selections, trail)
    /\ \E reply \in Replies(selections) :
        LET s == Head(todo)
            good == reply.error = "" /\ StopAfter(reply) = ""
        IN  /\ stop' = StopAfter(reply)
            /\ todo' = IF stop' = "" THEN Tail(todo) ELSE <<>>
            /\ active' = [active EXCEPT ![s] = good /\ ~reply.answer.none]
            /\ found' = IF good THEN Merged(found, reply.answer.items) ELSE found
            /\ incomplete' = (incomplete \/ ~good \/ reply.answer.rejected)
            /\ exhausted' = IF good /\ reply.answer.none THEN exhausted \cup {s} ELSE exhausted \ {s}
            /\ failed' = (failed \/ reply.error # "" \/ reply.answer.rejected \/ reply.answer.moved)
            /\ scopes' = IF found' = found THEN scopes
                         ELSE scopes \cup {<<IF reply.answer.moved THEN category + 1 ELSE category,
                                             Len(choices)>>}
    /\ UNCHANGED <<stage, req, expired, refinement, round, limited, discoveryStop, inspecting,
                   purchases, outcome, searched>>

LeaveRound ==
    /\ Discovering /\ (expired \/ ~Affordable)
    /\ todo' = <<>>
    /\ limited' = (limited \/ ~expired)
    /\ UNCHANGED <<stage, req, expired, refinement, reserved, stop, round, active, found,
                   discoveryStop, incomplete, inspecting, purchases, outcome, searched, history>>

AnyActive == \E s \in Range(Sorts) : active[s]
Families == {Page[o] : o \in Range(found)}
MorePages ==
    /\ ~expired /\ stop = "" /\ ~limited
    /\ round < PageLimit /\ Cardinality(Families) < req.target /\ AnyActive

NextRound ==
    /\ stage = "discover" /\ todo = <<>> /\ MorePages
    /\ round' = round + 1
    /\ todo' = At(Sorts, {i \in DOMAIN Sorts : active[Sorts[i]]})
    /\ UNCHANGED <<stage, req, expired, refinement, reserved, stop, active, limited, found,
                   discoveryStop, incomplete, inspecting, purchases, outcome, searched, history>>

DiscoveryEnd ==
    IF expired THEN "time_budget_reached"
    ELSE IF stop # "" THEN stop
    ELSE IF incomplete THEN "source_read_incomplete"
    ELSE IF limited THEN IF reserved = DocumentBudget THEN "document_budget_reached"
                         ELSE "document_budget_reserved_for_inspection"
    ELSE IF ~AnyActive THEN "source_results_exhausted"
    ELSE IF Cardinality(Families) >= req.target THEN "unique_model_target_reached"
    ELSE "search_page_limit_reached"

\* Inspection gets what the documents and the review cap leave for it.
EndDiscovery ==
    LET wanted == Min2(Min2(Len(found), InspectionBudget), req.reviewCap)
        documents == DocumentBudget - reserved
    IN  /\ stage = "discover" /\ todo = <<>> /\ ~MorePages
        /\ stage' = "inspect"
        /\ discoveryStop' = DiscoveryEnd
        /\ left' = Min2(wanted, documents)
        /\ incomplete' = (DiscoveryEnd # "source_results_exhausted" \/ left' < Len(found))
        /\ inspectionStop' =
              IF documents < wanted THEN "document_budget_reached"
              ELSE IF wanted = Len(found) THEN "discovered_candidates_inspected"
              ELSE IF req.reviewCap < InspectionBudget THEN "review_budget_reached"
              ELSE "inspection_budget_reached"
        /\ UNCHANGED <<req, expired, refinement, reserved, stop, round, todo, active, limited, found,
                       tried, reviewsLeft, examined, inspected, counts, purchases, outcome, searched,
                       history>>

-----------------------------------------------------------------------------
(* Inspection: the first option of every product, then the second ones.    *)

Place(o) == CHOOSE i \in DOMAIN found : found[i] = o
Siblings(o) == {p \in Range(found) : Page[p] = Page[o]}
Depth(o) == Cardinality({p \in Siblings(o) : Place(p) < Place(o)})
FirstPlace(o) == CHOOSE i \in {Place(p) : p \in Siblings(o)} : \A p \in Siblings(o) : i <= Place(p)

\* interleaveDiscoveryOptions.
Sooner(o, p) == Depth(o) < Depth(p) \/ (Depth(o) = Depth(p) /\ FirstPlace(o) < FirstPlace(p))
NextOption == CHOOSE o \in Range(found) \ tried : \A p \in Range(found) \ tried : p = o \/ Sooner(o, p)

Unshared(most, total, parts) == Min2(most, total)

\* What one of the remaining parts may take of a total, rounded up.
Share(most, total, parts) == Min2(most, (total + parts - 1) \div parts)

Inspecting == stage = "inspect" /\ left > 0 /\ stop = "" /\ ~expired

InspectedPages == {Page[inspected[i].option] : i \in DOMAIN inspected}
Added(detail, o) ==
    [counts EXCEPT ![Page[o]] = CountAdded(@, Page[o] \in InspectedPages, detail)]

\* Reviews are cut to the limit asked for; a detail read without enough
\* documents leaves fields out.
ReadDetails ==
    LET reads == Share(ReadsPerInspection, DocumentBudget - reserved, left)
        reviewLimit == Share(ReviewsPerRead, reviewsLeft, left)
    IN  /\ Inspecting
        /\ reserved' = reserved + reads
        /\ left' = left - 1
        /\ tried' = tried \cup {NextOption}
        /\ \E detail \in Details :
            LET omitted == reads < detail.needs
                reviews == Min2(detail.reviews, reviewLimit)
            IN  /\ inspected' = Append(inspected, [option |-> NextOption, detail |-> detail,
                                                   omitted |-> omitted])
                /\ reviewsLeft' = reviewsLeft - reviews
                /\ examined' = examined + reviews
                /\ counts' = Added(detail, NextOption)
                /\ incomplete' = (incomplete \/ omitted \/ Unverified(detail, Conditions) # {})
                /\ inspectionStop' =
                      IF omitted /\ inspectionStop = "discovered_candidates_inspected"
                      THEN "auxiliary_document_budget_limited" ELSE inspectionStop
                /\ failed' = (failed \/ omitted)
        /\ UNCHANGED <<stage, req, expired, refinement, stop, searching, purchases, outcome,
                       searched, exhausted, scopes>>

\* A failed read keeps its documents: they may have been read.
FailDetails ==
    /\ Inspecting
    /\ reserved' = reserved + Share(ReadsPerInspection, DocumentBudget - reserved, left)
    /\ left' = left - 1
    /\ tried' = tried \cup {NextOption}
    /\ incomplete' = TRUE /\ failed' = TRUE
    /\ inspectionStop' = "source_read_incomplete"
    /\ \E e \in Errors : stop' = IF e \in Denials THEN e ELSE ""
    /\ UNCHANGED <<stage, req, expired, refinement, searching, reviewsLeft, examined, inspected,
                   counts, purchases, outcome, searched, exhausted, scopes>>

EndInspection ==
    /\ stage = "inspect" /\ (left = 0 \/ stop # "" \/ expired)
    /\ stage' = "purchases"
    /\ incomplete' = (incomplete \/ expired \/ stop # "")
    /\ inspectionStop' = IF stop # "" THEN stop
                         ELSE IF expired THEN "time_budget_reached" ELSE inspectionStop
    /\ UNCHANGED <<req, expired, refinement, reserved, stop, searching, tried, left, reviewsLeft,
                   examined, inspected, counts, purchases, outcome, searched, history>>

\* Purchase history is local; it is read only when asked for and in time.
ReadPurchases ==
    /\ stage = "purchases"
    /\ stage' = "conclude"
    /\ purchases' \in IF ~req.purchases THEN {"none"}
                      ELSE IF expired THEN {"unavailable"}
                      ELSE {"available", "partial", "unavailable"}
    /\ incomplete' = (incomplete \/ purchases' \in {"partial", "unavailable"})
    /\ UNCHANGED <<req, expired, refinement, reserved, stop, searching, inspecting, outcome,
                   searched, history>>

-----------------------------------------------------------------------------
(* The conclusion.                                                         *)

Detail(i) == inspected[i].detail
Candidates == {i \in DOMAIN inspected : Eligible(Detail(i), Conditions)}
Dominated(i) == \E j \in Candidates \ {i} : Relation(Detail(i), Detail(j), Axes) = "dominated"
Retained == {i \in Candidates : ~Dominated(i)}

Unread(i) == \E axis \in Axes : Reading(Detail(i), axis.field) = Unknown
Related(relation, among) ==
    \E i \in among : \E j \in among \ {i} : Relation(Detail(i), Detail(j), Axes) = relation
Undecided(among) == (\E i \in among : Unread(i)) \/ Related("unknown", among)

ReviewTotal ==
    LET total == SumFunctionOnSet([p \in InspectedPages |-> Value(counts[p])], InspectedPages)
    IN  IF InspectedPages = {} \/ \E p \in InspectedPages : counts[p] = Unknown THEN Unknown
        ELSE Known(total)

\* Reads worth doing next.  An option whose conditions are unmet needs none.
FurtherReads ==
    LET open == {i \in DOMAIN inspected : Unmet(Detail(i), Conditions) = {}}
        suggestions == {
            <<"inspect_evidence", "document_budget_omitted_fields", \E i \in open : inspected[i].omitted>>,
            <<"inspect_evidence", "required_condition_unverified",
              \E i \in open : Unverified(Detail(i), Conditions) # {}>>,
            <<"inspect_evidence", "comparison_evidence_or_scope_unresolved", Undecided(Retained)>>,
            <<"inspect_details", "discovered_reference_has_no_matching_detail",
              \E o \in Range(found) : \A i \in DOMAIN inspected : inspected[i].option # o>>,
            <<"continue_discovery", discoveryStop, discoveryStop # "source_results_exhausted">> }
    IN  {<<x[1], x[2]>> : x \in {y \in suggestions : y[3]}}

Conversations ==
    LET suggestions == {
            <<"clarify_preference", "observed_tradeoff_requires_user_priority",
              Related("tradeoff", Retained)>>,
            <<"clarify_requirements", "query_or_category_is_not_a_condition",
              Conditions = {} /\ inspected # <<>>>>,
            <<"review_purchase_coverage", "requested_history_is_partial_or_unavailable",
              purchases \in {"partial", "unavailable"}>> }
    IN  {<<x[1], x[2]>> : x \in {y \in suggestions : y[3]}}

\* Only when nothing is left to read or talk about.
LastResorts(others) ==
    IF Retained # {} \/ discoveryStop # "source_results_exhausted" \/ Len(inspected) < Len(found)
    THEN {}
    ELSE IF inspected = <<>> THEN {<<"refine_search", "source_reported_no_results">>}
    ELSE IF others = {} THEN {<<"reconsider_conditions", "inspected_options_do_not_meet_declared_conditions">>}
    ELSE {}

Suggestions(denied) ==
    FurtherReads \cup Conversations \cup LastResorts(FurtherReads \cup Conversations)

\* finalizeRecommendationConclusions: access to the source comes before reads.
NextActions(denied) ==
    LET restore == {<<"restore_source_access", r>> : r \in denied}
        others == restore \cup (IF denied = {} THEN FurtherReads ELSE {}) \cup Conversations
    IN  IF discoveryStop = "source_filter_unverified"
        THEN restore \cup {<<"rediscover_filters", discoveryStop>>}
        ELSE others \cup LastResorts(others)

Status ==
    IF incomplete \/ Undecided(Candidates) \/ expired THEN "incomplete"
    ELSE IF Retained = {} THEN "no_matches"
    ELSE "complete"

\* The presentation cap hides candidates, and changes nothing else.
Conclude ==
    /\ stage = "conclude"
    /\ stage' = "done"
    /\ outcome' = Result(Status, Range(found), Retained,
                         IF req.maxItems > 0 THEN Min2(req.maxItems, Cardinality(Retained))
                         ELSE Cardinality(Retained),
                         NextActions({discoveryStop, inspectionStop} \cap Denials), ReviewTotal)
    /\ UNCHANGED <<req, expired, refinement, reserved, stop, searching, incomplete, inspecting,
                   purchases, searched, history>>

-----------------------------------------------------------------------------
(* The deadline, a caller that gives up, and searches of their own.        *)

Ended == stage \in {"done", "failed"}

Expire ==
    /\ ~Ended /\ ~expired
    /\ expired' = TRUE
    /\ UNCHANGED <<stage, req, refinement, reserved, stop, searching, incomplete, inspecting,
                   purchases, outcome, searched, history>>

GiveUp ==
    /\ ~Ended
    /\ stage' = "failed"
    /\ UNCHANGED <<req, expired, refinement, reserved, stop, searching, incomplete, inspecting,
                   purchases, outcome, searched, history>>

ExplicitSearch ==
    /\ stage = "start" /\ ~expired
    /\ stage' = "done"
    /\ \E answer \in Shelves, wish \in Wishes, linked \in Linked :
        /\ Trustworthy(answer, <<>>)
        /\ searched' = <<answer, wish, Listing(answer, wish, linked)>>
    /\ UNCHANGED <<req, expired, refinement, reserved, stop, searching, incomplete, inspecting,
                   purchases, outcome, history>>

Finished == Ended /\ UNCHANGED vars

Next ==
    \/ FirstSearch \/ RefuseChoice \/ ApplyChoice \/ AskQuestions \/ BeginResearch
    \/ ReadSearch \/ LeaveRound \/ NextRound \/ EndDiscovery
    \/ ReadDetails \/ FailDetails \/ EndInspection \/ ReadPurchases \/ Conclude
    \/ Expire \/ GiveUp \/ ExplicitSearch \/ Finished

Spec == Init /\ [][Next]_vars

-----------------------------------------------------------------------------
(* Properties.                                                             *)

\* No sequence of searches, sidebar choices, failures and detail reads spends
\* more documents or reviews than allowed, and as long as inspection goes on
\* every option still queued can have a document and a review: the shares of
\* recommendation.go:418 and :423 must never starve the last options (a
\* review limit of zero would ask Inspect for its default of twenty).
BudgetHeld ==
    /\ reserved <= DocumentBudget
    /\ examined <= req.reviewCap
    /\ stage = "inspect" => /\ left <= DocumentBudget - reserved
                            /\ left <= reviewsLeft

\* "complete" and "no_matches" are claims about the source: every order has
\* said there is nothing more, no read failed or left anything out, every
\* option found was inspected with a verdict on every condition, and the
\* history asked for was there.  No match means that every option misses a
\* condition: a comparison must not leave nobody (recommendation.go:555).
ConclusionEarned ==
    outcome.status \in {"complete", "no_matches"} =>
        /\ exhausted = Range(Sorts) /\ ~failed /\ ~expired
        /\ \A o \in outcome.listed : \E i \in DOMAIN inspected : inspected[i].option = o
        /\ \A i \in DOMAIN inspected : Unverified(Detail(i), Conditions) = {}
        /\ req.purchases => purchases = "available"
        /\ outcome.status = "no_matches" =>
              \A i \in DOMAIN inspected : Unmet(Detail(i), Conditions) # {}

\* An option is dropped for another one that is kept and better, and the
\* review total adds every product page once, if all its options agree.
ComparisonGrounded ==
    /\ outcome.kept # {} =>
        \A i \in Candidates \ outcome.kept :
            \E j \in outcome.kept : Relation(Detail(j), Detail(i), Axes) \in {"dominates", "unknown"}
    /\ \A n \in outcome.reviews :
        /\ \A i, j \in DOMAIN inspected :
              Page[inspected[i].option] = Page[inspected[j].option] =>
                  UsableCount(Detail(i)) = UsableCount(Detail(j)) /\ UsableCount(Detail(i)) # Unknown
        /\ n = SumFunctionOnSet([i \in DOMAIN inspected |-> Value(Detail(i).reviewCount)],
                   {i \in DOMAIN inspected :
                       \A j \in 1..i - 1 : Page[inspected[j].option] # Page[inspected[i].option]})

\* An explicit search that reports no missing evidence and no rejected card
\* withheld nothing that satisfies its filters: what it does not show either
\* fails a filter, or is counted as a variant of what it shows, or is beyond
\* the limit (service.go:160-172).
SearchHonest ==
    searched # <<>> =>
        LET cards == searched[1].items
            wish == searched[2]
            shown == searched[3].items
            counted == SumFunctionOnSet([i \in DOMAIN shown |-> shown[i].variants], DOMAIN shown)
            matching == {i \in DOMAIN cards : \A f \in wish.filters :
                            cards[i].fields[f.field] # {} => Satisfies(cards[i], f)}
        IN  searched[3].unavailable = {} /\ Len(shown) < wish.limit /\ ~wish.variants
            /\ (\A f \in wish.filters : f.field \notin Guessed)
            => counted = Cardinality(matching)

\* What a result says, it has earned.
ResultsAreEarned == ConclusionEarned /\ ComparisonGrounded /\ SearchHonest

\* Everything listed was listed under the same sidebar choices and in the same
\* category, those the result reports: an answer for another state, or a
\* category the source moved to by itself, never joins the options of the
\* last verified one (recommendation_refinement.go:12, recommendation.go:257).
OneScope == scopes \subseteq {Verified}

\* Once the source denied access, asked for a login or lost the scope, or the
\* deadline passed, nothing more is read; and a result that was cut off by a
\* denial asks for access to be restored and proposes no read
\* (recommendation_next_actions.go:35).
Reads == {"inspect_evidence", "inspect_details", "continue_discovery"}
StopIsHonoured ==
    [][ /\ (expired \/ stop # "") => reserved' = reserved
        /\ outcome' # outcome /\ stop' \in Denials =>
              /\ <<"restore_source_access", stop'>> \in outcome'.next
              /\ \A n \in outcome'.next : n[1] \notin Reads ]_vars

=============================================================================

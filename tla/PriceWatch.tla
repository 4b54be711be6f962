----------------------------- MODULE PriceWatch -----------------------------
(***************************************************************************)
(* The local price watchlist: internal/store/prices.go and the watch part  *)
(* of internal/products/service.go.                                        *)
(*                                                                         *)
(* AddPriceWatch is four statements outside any transaction, and           *)
(* RefreshPriceWatches works through a list it read once, contacting the   *)
(* product page between statements.  A statement, or the transaction of a  *)
(* price observation, is one action; additions, refreshes, removals and    *)
(* purges of several callers interleave.  Time is a clock that need not    *)
(* move between statements.  Names, prices and item ids are left out; so   *)
(* is the table of observations (PriceHistory), which any search or purge  *)
(* may change between two of these statements.                             *)
(*                                                                         *)
(* LimitNotChecked, ReplacedRow, MarkedUpsert and MarkedUnlessFailed are   *)
(* not used by the specification: each is a plausible mistake in the       *)
(* operator next to it.                                                    *)
(***************************************************************************)
EXTENDS Integers, FiniteSets, Sequences

CONSTANTS
    Series,     \* watch identities (product_key), as numbers in text order
    Adder,      \* concurrent callers of AddPriceWatch
    Refresher,  \* concurrent callers of RefreshPriceWatches
    Limit,      \* the 500 of AddPriceWatch
    Batch,      \* the largest refresh limit requested (at most 50 in the code)
    Stale,      \* stale_hours
    Stop,       \* ways a refresh is stopped: subset of {"cancel", "crash"}
    MaxTime,    \* bound on the clock
    MaxAdds     \* bound on calls of AddPriceWatch

ASSUME SeriesAssumption == Series \subseteq Nat /\ Series # {}

ASSUME AdderAssumption == IsFiniteSet(Adder) /\ Adder # {}

ASSUME WatchBoundsAssumption ==
    /\ Limit \in Nat \ {0}
    /\ Batch \in Nat \ {0}
    /\ Stale \in Nat \ {0}
    /\ MaxTime \in Nat \ {0}
    /\ MaxAdds \in Nat

VARIABLES
    watch,      \* product_price_watchlist, by product_key
    clock,      \* the time of day
    adds,       \* calls of AddPriceWatch so far
    adder,      \* locals of each AddPriceWatch
    refresh     \* locals of each RefreshPriceWatches

watchVars == <<watch, clock, adds, adder, refresh>>

-----------------------------------------------------------------------------

Time == 1..MaxTime
Never == 0                      \* last_checked_at IS NULL
Status == {"pending", "observed", "unavailable", "failed"}

Row == [added: Time, checked: Time \cup {Never}, status: Status]

AddCall == [pc: {"idle", "exists", "count", "evidence", "insert"},
            key: Series, at: Time]

\* entries are the identities ListDuePriceWatches returned and the loop has
\* not finished; live says whether the context of the call has not ended.
RefreshCall == [pc: {"idle", "next", "inspect", "record", "mark"},
                live: BOOLEAN, entries: Seq(Series), stamp: Time,
                status: Status]

NoAdd == [pc |-> "idle", key |-> CHOOSE k \in Series : TRUE, at |-> 1]

NoCall == [pc |-> "idle", live |-> TRUE, entries |-> <<>>, stamp |-> 1,
           status |-> "pending"]

Listed == DOMAIN watch

WatchInit ==
    /\ watch = <<>>
    /\ clock = 1
    /\ adds = 0
    /\ adder = [a \in Adder |-> NoAdd]
    /\ refresh = [r \in Refresher |-> NoCall]

-----------------------------------------------------------------------------
(* AddPriceWatch.                                                          *)

AddGoto(a, stage) ==
    adder' = [adder EXCEPT ![a] = IF stage = "idle" THEN NoAdd ELSE [@ EXCEPT !.pc = stage]]

StartAdd(a) ==
    /\ adder[a].pc = "idle"
    /\ adds < MaxAdds
    /\ adds' = adds + 1
    /\ \E k \in Series :
           adder' = [adder EXCEPT ![a] = [pc |-> "exists", key |-> k, at |-> clock]]
    /\ UNCHANGED <<watch, clock, refresh>>

\* An identity that is already listed is not counted again.
LookUp(a) ==
    /\ adder[a].pc = "exists"
    /\ AddGoto(a, IF adder[a].key \in Listed THEN "evidence" ELSE "count")
    /\ UNCHANGED <<watch, clock, adds, refresh>>

\* The count is compared with the limit by a statement of its own.
LimitNotChecked == TRUE
BelowLimit == Cardinality(Listed) < Limit

CountRows(a) ==
    /\ adder[a].pc = "count"
    /\ AddGoto(a, IF BelowLimit THEN "evidence" ELSE "idle")
    /\ UNCHANGED <<watch, clock, adds, refresh>>

\* The newest verified observation of the identity; without one nothing is
\* added.  Searches, inspections and purges decide at any moment which there are.
ReadEvidence(a) ==
    /\ adder[a].pc = "evidence"
    /\ \E found \in BOOLEAN : AddGoto(a, IF found THEN "insert" ELSE "idle")
    /\ UNCHANGED <<watch, clock, adds, refresh>>

NewRow(a) == [added |-> adder[a].at, checked |-> Never, status |-> "pending"]

\* The row after INSERT ... ON CONFLICT DO UPDATE, which updates the names
\* only, whatever the lookup said.
ReplacedRow(a) == NewRow(a)
UpsertedRow(a) ==
    IF adder[a].key \in Listed THEN watch[adder[a].key] ELSE NewRow(a)

\* The entry is then read back, which changes nothing.
InsertRow(a) ==
    /\ adder[a].pc = "insert"
    /\ watch' = [k \in Listed \cup {adder[a].key} |->
                    IF k = adder[a].key THEN UpsertedRow(a) ELSE watch[k]]
    /\ AddGoto(a, "idle")
    /\ UNCHANGED <<clock, adds, refresh>>

\* Any statement may fail, the process may exit, and the evidence may be of
\* another product_id than the one requested.
AbandonAdd(a) ==
    /\ adder[a].pc # "idle"
    /\ AddGoto(a, "idle")
    /\ UNCHANGED <<watch, clock, adds, refresh>>

-----------------------------------------------------------------------------
(* RefreshPriceWatches.                                                    *)

RefreshGoto(r, call) == refresh' = [refresh EXCEPT ![r] = call]

Due(k, before) == watch[k].checked = Never \/ watch[k].checked <= before

\* ORDER BY COALESCE(last_checked_at, added_at), product_key
Since(k) == IF watch[k].checked = Never THEN watch[k].added ELSE watch[k].checked
Before(j, k) == Since(j) < Since(k) \/ (Since(j) = Since(k) /\ j < k)

\* The first n due identities, in order.
DueLists(n, before) ==
    LET due == {k \in Listed : Due(k, before)}
    IN  {list \in UNION {[1..m -> due] : m \in 0..n} :
            /\ \A i, j \in DOMAIN list : i < j => Before(list[i], list[j])
            /\ \A k \in due :
                   \/ \E i \in DOMAIN list : list[i] = k
                   \/ Len(list) = n /\ Before(list[n], k)}

\* The limit and stale_hours are the caller's; dueBefore is the call's own time
\* less stale_hours.  The read fails when the context has ended.
StartRefresh(r) ==
    /\ refresh[r].pc = "idle"
    /\ \E n \in 1..Batch : \E list \in DueLists(n, clock - Stale) :
           RefreshGoto(r, [NoCall EXCEPT !.pc = "next", !.entries = list])
    /\ UNCHANGED <<watch, clock, adds, adder>>

\* checkedAt is taken before the product page is opened.
TakeEntry(r) ==
    /\ refresh[r].pc = "next"
    /\ refresh[r].entries # <<>>
    /\ RefreshGoto(r, [refresh[r] EXCEPT !.pc = "inspect", !.stamp = clock])
    /\ UNCHANGED <<watch, clock, adds, adder>>

\* The page shows a known price for the exact reference, or something else, or
\* cannot be read.  An ended context can only fail.
Inspect(r) ==
    /\ refresh[r].pc = "inspect"
    /\ \/ /\ refresh[r].live
          /\ RefreshGoto(r, [refresh[r] EXCEPT !.pc = "record", !.status = "failed"])
       \/ /\ refresh[r].live
          /\ RefreshGoto(r, [refresh[r] EXCEPT !.pc = "mark", !.status = "unavailable"])
       \/ RefreshGoto(r, [refresh[r] EXCEPT !.pc = "mark", !.status = "failed"])
    /\ UNCHANGED <<watch, clock, adds, adder>>

\* RecordPriceObservations for the one entry; a failure leaves it "failed".
Record(r) ==
    /\ refresh[r].pc = "record"
    /\ \/ /\ refresh[r].live
          /\ RefreshGoto(r, [refresh[r] EXCEPT !.pc = "mark", !.status = "observed"])
       \/ RefreshGoto(r, [refresh[r] EXCEPT !.pc = "mark"])
    /\ UNCHANGED <<watch, clock, adds, adder>>

\* The columns MarkPriceWatchChecked sets, beside the one it keeps.
CheckedRow(r, added) ==
    [added |-> added, checked |-> refresh[r].stamp, status |-> refresh[r].status]

\* UPDATE ... WHERE product_key = ?: the watchlist after the check is marked.
MarkedUpsert(r) ==
    LET key == Head(refresh[r].entries)
    IN  [k \in Listed \cup {key} |->
            IF k = key THEN CheckedRow(r, refresh[r].stamp) ELSE watch[k]]

MarkedUnlessFailed(r) ==
    [k \in Listed |-> IF k = Head(refresh[r].entries) /\ refresh[r].status # "failed"
                      THEN CheckedRow(r, watch[k].added) ELSE watch[k]]

Marked(r) ==
    [k \in Listed |-> IF k = Head(refresh[r].entries)
                      THEN CheckedRow(r, watch[k].added) ELSE watch[k]]

\* A watch that was removed meanwhile makes the whole refresh return an error.
MarkChecked(r) ==
    /\ refresh[r].pc = "mark"
    /\ refresh[r].live
    /\ watch' = Marked(r)
    /\ RefreshGoto(r, IF Head(refresh[r].entries) \in Listed
                      THEN [refresh[r] EXCEPT !.pc = "next", !.entries = Tail(@)]
                      ELSE NoCall)
    /\ UNCHANGED <<clock, adds, adder>>

\* The context of the call has ended: the update fails, the refresh returns.
MarkRefused(r) ==
    /\ refresh[r].pc = "mark"
    /\ ~refresh[r].live
    /\ RefreshGoto(r, NoCall)
    /\ UNCHANGED <<watch, clock, adds, adder>>

\* The entries left are counted for remaining_due, and the call returns.
FinishRefresh(r) ==
    /\ refresh[r].pc = "next"
    /\ refresh[r].entries = <<>>
    /\ RefreshGoto(r, NoCall)
    /\ UNCHANGED <<watch, clock, adds, adder>>

\* The caller cancels, or its deadline passes.
CancelRefresh(r) ==
    /\ "cancel" \in Stop
    /\ refresh[r].pc # "idle"
    /\ refresh[r].live
    /\ RefreshGoto(r, [refresh[r] EXCEPT !.live = FALSE])
    /\ UNCHANGED <<watch, clock, adds, adder>>

\* The process exits, or a statement fails for another reason.
CrashRefresh(r) ==
    /\ "crash" \in Stop
    /\ refresh[r].pc # "idle"
    /\ RefreshGoto(r, NoCall)
    /\ UNCHANGED <<watch, clock, adds, adder>>

-----------------------------------------------------------------------------
(* Other commands and the clock.                                           *)

RemovePriceWatch ==
    /\ \E k \in Listed : watch' = [j \in Listed \ {k} |-> watch[j]]
    /\ UNCHANGED <<clock, adds, adder, refresh>>

PurgePriceWatches ==
    /\ watch' = <<>>
    /\ UNCHANGED <<clock, adds, adder, refresh>>

Tick ==
    /\ clock < MaxTime
    /\ clock' = clock + 1
    /\ UNCHANGED <<watch, adds, adder, refresh>>

AddStep(a) ==
    StartAdd(a) \/ LookUp(a) \/ CountRows(a) \/ ReadEvidence(a) \/ InsertRow(a)
        \/ AbandonAdd(a)

\* What a refresh does by itself, and the start of the next one.
RefreshStep(r) ==
    StartRefresh(r) \/ TakeEntry(r) \/ Inspect(r) \/ Record(r) \/ MarkChecked(r)
        \/ MarkRefused(r) \/ FinishRefresh(r)

WatchNext ==
    \/ \E a \in Adder : AddStep(a)
    \/ \E r \in Refresher : RefreshStep(r) \/ CancelRefresh(r) \/ CrashRefresh(r)
    \/ RemovePriceWatch \/ PurgePriceWatches
    \/ Tick

WatchSpec == WatchInit /\ [][WatchNext]_watchVars

\* A scheduler keeps calling watch refresh (watch-schedule prints the daily
\* entry), and a call that runs keeps running: page reads have deadlines.
WatchFairSpec == WatchSpec /\ \A r \in Refresher : WF_watchVars(RefreshStep(r))

-----------------------------------------------------------------------------
(* Properties.                                                             *)

\* Every variable keeps the type of its table or Go value; a refresh past its
\* head has an entry to work on.
WatchTypeOK ==
    /\ Listed \subseteq Series /\ watch \in [Listed -> Row]
    /\ clock \in Time
    /\ adds \in 0..MaxAdds
    /\ adder \in [Adder -> AddCall]
    /\ refresh \in [Refresher -> RefreshCall]
    /\ \A r \in Refresher :
           refresh[r].pc \in {"inspect", "record", "mark"} => refresh[r].entries # <<>>

\* The limit check and the insertion are separate statements, so concurrent
\* additions may pass the check together; the excess is at most one watch for
\* each caller but one, however additions, removals and purges interleave.
WatchlistBounded == Cardinality(Listed) <= Limit + Cardinality(Adder) - 1

\* Adding a watch that is already there, even when the addition began before
\* the watch existed, never resets when it was added or that it was checked;
\* nor does a refresh that overlaps it.
CheckHistoryKept ==
    [][\A k \in Listed \cap DOMAIN watch' :
           /\ watch'[k].added = watch[k].added
           /\ watch[k].checked # Never =>
                  watch'[k].checked # Never /\ watch'[k].status # "pending"]_watchVars

\* A watch the user removed while a refresh was inspecting its product is not
\* brought back by the refresh: only an insertion of AddPriceWatch lists it.
RemovedStaysRemoved ==
    [][\A k \in DOMAIN watch' \ Listed :
           \E a \in Adder : adder[a].pc = "insert" /\ adder[a].key = k]_watchVars

\* Once refreshes are no longer stopped and keep being scheduled, every watch is
\* eventually checked or removed, even if each refresh takes one entry only and
\* the products before it always fail: failures rotate to the end of the order.
EveryWatchChecked ==
    <>[][\A r \in Refresher :
             CancelRefresh(r) \/ CrashRefresh(r) => RefreshStep(r)]_watchVars =>
        \A k \in Series :
            (k \in Listed /\ watch[k].checked = Never)
                ~> (k \notin Listed \/ watch[k].checked # Never)

=============================================================================

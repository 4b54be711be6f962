# A verification project for coupang-ctl

coupang-ctl is a local tool (a command line and an MCP server over the same
services) that reads a user's own shopping pages through a dedicated browser and
keeps what it read in private SQLite ledgers. There is no server and no user
interface of its own: what is hard about it is that independent callers (CLI
commands, MCP tool calls, schedulers) share files, that each of them can be
cancelled or die at any point, and that what they read from is neither stable nor
reliable.

This directory holds TLA+ models of that core, TLC runs that check them on small
instances, and proofs, checked by TLAPS, for all instances. Every definition is a
translation of code under `src/`; `PROJECT.json` (`map`) gives the lines.

Contents: 1 the system; 2 the modules; 3 what is checked; 4 fairness; 5 what is
proved; 6 what the models found; 7 what is left out; 8 the plan.

## 1. The system

All paths are under `src/internal/` unless they start with `src/`.

| component | code | state it keeps | operations | talks to |
|---|---|---|---|---|
| order synchronisation | `orders/service.go`, `store/sync*.go` | sync checkpoint, scans, scan pages, runs, observations | `Sync` (begin, resume, restart, page, finish), evidence queries | writer lock, order source, order store |
| sync writer lock | `store/sync_writer*.go` | an advisory lock file next to the ledger | acquire without waiting, release, loss at exit | held by `Sync` from its first to its last step |
| order document parsers | `coupang/orders/parser.go`, `browser/order_page_reader.js`, `core/order_preview.go` | none | two readers of one document, the contract between page and program | sync, preview |
| order store, reports | `store/orders.go`, `order_snapshot.go`, `product_insights.go`, `insights` | orders, items | page upsert, import, purge, list, export, aggregates, reports | sync (same transaction), foreign key to observations |
| category enrichment | `orders/service.go`, `store/categories.go`, `coupang/categories` | category cache and observations | list pending, read one product, store, reports | browser, order store |
| schema migration | `store/sqlite.go`, `store/*_migration.go` | the schema | `Open`: create, add column, rewrite | every opener of a ledger |
| account key, account ledgers | `store/account_key.go`, `store/account_ledger.go` | key file, account directories, one bound ledger each | `OpenCoupangAccountLedger` | the file system only: no lock |
| price watchlist, price history | `store/prices.go`, `products/service.go` | watchlist, price observations | add, remove, purge, due list, refresh; record, query | product pages, between statements |
| Camofox runner | `browser/camofox.go`, `camofox_runner.mjs`, `profile_lock_unix.go` | profile lock, runner and server processes, the profile on disk | one request: start, script, result, shutdown | pipe, signals, exit codes |
| authentication | `auth/service.go`, `browser/camofox_auth*.go` | none of its own (the profile) | status, verify, login, recover | a sequence of runner requests |
| account and membership | `account/service.go`, `store/account.go` | none | live benefits joined with retained charges | browser, ledger |
| recommendation | `products/recommendation*.go` | the call's budgets | search, refine, inspect, compare, conclude | product search and inspection |
| product search, inspection, cart | `products/service.go`, `coupang/products` | none | search, filter, sort, inspect, confirm a cart | browser |
| MCP server | `mcpserver`, `cli/camofox_mcp*.go` | one lazily opened ledger handle | concurrent tool calls, close | every service |
| command line | `cli`, `src/cmd` | none | map flags onto services | every service |
| receipts, savings | `receipts/service.go`, `savings/service.go` | downloaded files | split a period, download; sum savings | browser, file system |
| partner links | `partners/client.go` | none | one signed request | HTTP |
| document browser, rendering | `browser/document_*`, `recap`, `recommendationreport`, `watchschedule` | none | decode and render | - |
| release tooling | `releasecontract`, `packagemanifests`, `src/installers` | none | build-time checks | - |

Shared state and calls: a ledger file is shared by every process that opens it;
each `*Store` has a single connection (`SetMaxOpenConns(1)`) and SQLite
serialises transactions, so a transaction is the unit of interleaving inside the
database and a *statement* is where the code uses no transaction. Two advisory
locks exist, both non-blocking and both dropped by the operating system when their
process exits: the sync writer lock (a whole `Sync` call) and the profile lock (a
whole browser request). Inside the MCP server one mutex guards the ledger handle.

What is hard, and what makes each part correct:

- *Order synchronisation.* An attempt reads a cursor, contacts a source for up to
  a minute, and commits the page against the cursor it read. In between, other
  attempts, purges and imports run, the caller cancels, a deadline fires, the
  process dies. The history can loop or move. Correct means: the committed pages of
  a scan are one walk through the cursors, whatever number of attempts it took;
  resume state never contradicts itself; a run's row says what the run did; ended
  evidence never changes; nothing blocks forever.
- *Order documents.* The same document is read by two programs into one ledger.
  Correct means that they agree and that what they admit can be stored.
- *Order reports.* Up to twenty-five queries per report, each repeating conditions
  on orders and lines, while pages are committed and ledgers purged between them.
  Correct means: the numbers of one report describe one state, fit together, and
  stay on their scale.
- *Schema migration.* Every process that opens a ledger migrates it, most
  statements outside any transaction, several processes at once, from any release.
  Correct means: a recorded version keeps its promise, old rows survive, an open
  fails only for contention.
- *Category enrichment.* A list read once and worked through with a page read
  between saves. Correct means: the cache is the end of the history, "complete" is
  true, budgets rotate.
- *Account ledgers.* First setups race without a lock. Correct means: one key names
  all accounts, no ledger is replaced, foreign databases are never written, and
  refusals have a cause.
- *Price watchlist.* Statements outside transactions, a list that is read once and
  worked through while its rows change. Correct means: no history is reset, no
  removed watch returns, no watch starves, the limit holds.
- *Camofox runner.* Three processes with three sets of timers. Correct means: one
  server per profile, a reported result means a saved profile, and every call
  returns.
- *Server session.* Concurrent tools over one handle and one signed-in session that
  changes under them. Correct means: no login nobody asked for, "verified" only
  after reading it, one handle and none after the close, every call answered.
- *Recommendation.* One allowance of documents and reviews shared by a dozen kinds
  of reads, and a result that claims completeness. Correct means: the allowance
  holds, each claim is earned, all results are of one scope, a stop stops.

The hazards of this code, at their lines and with the properties that watch them,
are in `PROJECT.json` (`hazards`).

## 2. The modules

A module that is instantiated for TLC has an `MC` module and one or more `.cfg`
files beside it. Proofs are in `_proofs` modules: one for each of `OrderSync`,
`OrderReports`, `CategoryEnrichment`, `CamofoxRun`, `McpSession` and
`Recommendation`, and `Store_proofs` for the three stores `LedgerSchema`,
`AccountLedger` and `PriceWatch`, which share no variable and are proved side by
side. `FiniteSetLemmas` holds the induction and the sums over finite sets that most
of them need.

### ScanLedger, OrderSync

`OrderSync` models `Service.Sync` (`orders/service.go` 75-226) over the sync tables.
A database transaction is one action; everything between two transactions, a
source read or a process exit included, is another.

| state | code |
|---|---|
| `checkpoint` | `sync_checkpoint` |
| `scans`, `pages` | `sync_scans`, `sync_scan_pages` (plus, for the properties, the cursor each page led to) |
| `runs` | `sync_runs` joined with `sync_scan_attempts`; scan 0 is a run of a release without scans |
| `orders`, `observed` | the retained references and `sync_run_observed_orders` |
| `lock` | holder of the writer lock |
| `att` | locals of each call: stage, context, budget, cursor, run, cursors seen, counters, error code |

| actions | code |
|---|---|
| `Acquire`, `LoadCursor`, `GiveUp` | `AcquireSyncWriter`, `LoadCursor`, early returns |
| `ResumeScan`, `StartScan`, `RefuseBegin` | `beginSyncScan`, one transaction: compare the checkpoint, sweep abandoned runs, retire a scan on restart, insert the scan and run |
| `TakeCursor`, `RefuseCursor`, `SpendBudget` | the head of the page loop with `CheckSyncCursor` |
| `FetchPage`, `FetchFails` | `syncPage`: any next cursor and any orders, or an error |
| `ApplyPage`, `ApplyFails` | `ApplySyncPage`, one transaction |
| `LeaveLoop`, `FinishRun`, `FinishFails`, `Unlock` | `finish`, `FinishSync`, the deferred unlock |
| `EndContext`, `Crash`, `Purge`, `Import` | the environment |

A page is its next cursor and a set of references. `ScanLedger` is the abstract
specification: a single walk with no attempts, processes, locks or failures.
`OrderSync!Ledger` instantiates it with a refinement mapping, and the property
`ImplementsScanLedger` says that all attempts together implement it.

### OrderQueries, OrderInsights, OrderDocuments, PriceHistory, OrderReports

`OrderQueries` holds what an order and its lines are, what the store admits
(`ValidOrder`), and each SQL aggregate as an operator on the rows it sees, built
from the conditions the statements share: lines that were bought (`Purchases`),
that stayed (`Retained`), that still count units (`Eligible`). A line may have a
product, a vendor item, both or neither, and one vendor item may occur under several
products. `Key` is the SQL's `product_key` (the vendor item, or else the product, or
none), and `CandidateKey` that of reorder candidates (or else the name); purchase
contexts (`MatchLines`) compare both identifiers. `OrderInsights` adds
insights, reorder candidates, membership costs, purchase contexts and what
`insights` computes from several results: peaks, streaks, gaps, delivery trends, the
profile and its badges. Averages and shares are compared as fractions, before they
are rounded; the thresholds of profile and badges are the constant `Least`.

`OrderDocuments` translates an abstract document into a page twice: `ParsedPage`
(the Go parser: int64 arithmetic that wraps, three forms of dates) and `ReadPage`
(the reader in the page: safe integers, two forms), with `ValidDocument`, the
contract `FetchPage` checks. `SourcePages` is what a sync may be given.

`PriceHistory` is the table of price observations as a sequence in the order of its
ids: what a card can prove (`Observable`), what is stored, and the history query,
ordered by the *text* of its RFC 3339 times (`TextBefore`). A reorder candidate is
compared with the latest row of its key and of the product its last line names
(`LatestPrice`), and only if what was paid for a unit does not round to zero
(`Comparison`). The limit on the number of candidates is left out: it drops some of
them and changes none.

`OrderReports` composes them. `Upsert`, `Import` and `Purge` are transactions of
other connections; a report is `Begin` (the status read that establishes the
snapshot), one `Read` per query in the code's order (`Plan`), and `End`. What
`ReportsAddUp` asks of a purchase context (`ContextAddsUp`) is what the code's note
says, "product-only matches combine variants; exact matches require both product_id and
vendor_item_id": exact matches are disjoint parts of the product's match, which has
more where lines have no vendor item, or one nobody asked for. Only where the parts
have all its lines must units and months agree too. Of a reorder candidate
(`ReorderAddsUp`) it asks that an available comparison has a last payment and a price
of the very identity with evidence. A list or
an export has no snapshot: it reads the orders and then the lines of each. Nine plans
are checked; `Plan` lists them.

### CategoryTables, LedgerSchema, CategoryEnrichment

`CategoryTables` is the pair of tables both others write. `LedgerSchema` is `Open`
and `migrate` statement by statement: a process is at a place of the list, a
statement (or a transaction that takes the write lock first) is an action, and a
statement is refused when another process wrote since the transaction's read. The
price migration reads before it writes, so it is two actions; `ensureColumn` is a
check and an `ALTER TABLE`. Old files are at any version in `LegacyVersion`; a
process that has finished its open records prices and categories while others still
migrate.

`CategoryEnrichment` is `EnrichCategories` on an opened ledger: `StartCall` reads the
list of products (`ProductsForEnrichment`: unresolved ones, or for a recheck the
least recently checked), `CountCandidates` decides whether it was truncated, each
`EnrichProduct` is a page (gone, without breadcrumb, readable or not; decoded by
`CategoryPath` as reader and parser do one after the other) and the time its outcome is
stamped with (a number here; the code orders RFC 3339 texts, which within one second may
order otherwise than the times), `SaveOutcome` the transaction that stores it, `FinishCall` counts what is
left. Order pages, purges and other calls come between. The histories `behind`,
`overtaken` and `rechecks` record which saves were overtaken and how often
non-overlapping calls saved each product. The catalog and stability reports are
operators on the tables.

### AccountLedger

`OpenCoupangAccountLedger`, one action per look at the file system or publication:
`FindKey`, `ListAccounts`, `FindKeyAgain`, `PublishKey`, `ReadPublishedKey` for
`localAccountKey`; `MakeDirectory`, `LookForLedger`, `InitializeTemp`, `BindTemp`,
`PublishLedger`, `Validate`, `OpenLedger` for `OpenAccountLedger`; `UseLedger`,
`CloseLedger` for the caller; `Fail` for an error, a cancellation or a crash at any
step. Files: `keyFile`, `dirs`, `ledger`; a published file appears complete or not
at all, because it is hard-linked from a temporary one. `generated` records used
keys: a fresh key is random and never repeats. A namespace is the pair of key and
subject, because the derivation is a keyed hash.

Assumed of the user: the key file is lost, damaged or restored and databases are
copied only while no call is running, and a restored key is one that named an
existing directory (the code's message asks for "the original" key).

### PriceWatch

`AddPriceWatch` statement by statement (`LookUp`, `CountRows`, `ReadEvidence`,
`InsertRow`), `RefreshPriceWatches` with the page inspection between statements
(`StartRefresh` reads the due list; `TakeEntry`, `Inspect`, `Record`,
`MarkChecked`/`MarkRefused` per entry), removals, purges, a clock. A row keeps when
it was added, when it was checked and its status; the observations behind it are a
choice of each read, because any search or purge may change them between two
statements. The due order (`COALESCE(last_checked_at, added_at), product_key`) is
kept exactly: identities are numbers in text order.

### CamofoxRun

`runProgram` (the caller), `camofox_runner.mjs` (the runner) and the server the
runner spawns, as three processes per request, joined by a pipe, signals and exits.
The runner is single-threaded, so a step is what it does between two awaits;
`HandleSignal` and `WatchParent` run between steps. `Stopping`/`Terminated` are the
synchronous part of `stop()`, `ServerClosed` and `KillServer` its two endings;
`Throw` is `catch` plus the beginning of `finally`. `Kill` is the caller's
`WaitDelay`.

Assumed: Unix (on Windows the interrupt is not deliverable and only the kill
remains). Real time enters once: unless the runner hangs, its eight seconds of
grace for the server end before the caller's twelve (`WaitDelayOver`). The server is
external: it may fail at any time, and after SIGTERM exit with or without having
saved the profile, or never; it does not exit successfully by itself. A caller that
dies during a QR login while the link is being written kills its runner with a broken
pipe; what the server then does is not in this repository, so `OrphansStop` excepts
it.

The runner does not see its caller: it looks for parent process 1
(`camofox_runner.mjs:39`), and the field `parent` is whose id `process.ppid` gives it.
Process 1 adopts the runner of a caller that died unless a nearer ancestor is a child
subreaper (`systemd --user` and some container and terminal supervisors are).
`Adopted` allows both, and `ParentGone` is the code's test and no more. `OrphansStop`
therefore holds of runners that process 1 adopts. Where a subreaper adopts them,
runner and server live on, without the lock, until the script ends by itself; nothing
stops them before. Not modelled is a caller that is itself process 1, as in a
container without an init process: its runner would cancel every request after a second.

### McpSession

One MCP server and its concurrent tool calls: the provider each call resolves, the
configuration it reads again, the runtime's mutex and lazily opened handle, the
close, and the runs of the profile that authentication and the live reads consist of
(each a launch that the profile lock may refuse, then a page). Seven tools stand for
the ways the tools use the two sources: `auth_status`, `auth_login_if_needed`
(`Recover`), a command-line `login --link` beside the server, `account_benefits`
(live page, cash page, retained charges), `orders_preview`, `orders_list` (any local
tool), `products_search` (tools that use the ledger only when they can). The site's
answer to an authentication read is a variable that the environment moves: it may
expire, deny, become unreadable and recover between any two reads.

### ProductEvidence, ProductSearch, Recommendation

`ProductEvidence` is the algebra of readings: a value stated twice must agree, every
statement must be sound, a missing or conflicting one is unknown; conditions and
comparisons of readings. `ProductSearch` is an explicit search after its document
was read: the checks of the answer, filters, stable order, variants, links (a card
without a product URL gets none, and the partner API is not asked about it).
`Recommendation` is `Recommend` with one action per read: discovery, the sidebar
choices and replays, more orders and pages, detail reads with their allotment of
documents and reviews, history, conclusion and next actions, under one deadline.

Each module also holds operators no action uses (`NoLock`, `SweepEverything`,
`RenamedLedger`, ...): each is a mistake the operator next to it could have had.
`PROJECT.json` (`mutants`) says which property rejects it.

## 3. What is checked

Every passing run explores its whole state space. The type invariants are proved
(section 5) where a module has a proof module.

| run | instance | properties | shows |
|---|---|---|---|
| `sync_walk` | 2 callers, 2 cursors, 3 runs, 2 scans, budget 3, no orders | `CheckpointIsHead`, `OneOpenRun`, `OwnerNeverRefused`, `PagesAccounted`, `ScanIsOneWalk`, `EvidenceReadable`, `EndedEvidenceFrozen`, `LoopedScanWaitsForRestart`, `ImplementsScanLedger` | resumed, restarted, looping and crashing attempts keep one walk |
| `sync_evidence` | 1 caller at a time of 2 sources, 1 cursor, 1 order, 2 runs, 2 scans | `EvidenceReadable`, `CallsReturn` | purges and imports against pages; a scan holds pages of one source only; no call keeps the lock for ever |
| `reports` | 2 orders of 8 sorts, one refused; pages made from documents, some partial; 9 plans and lists; 2 filters; 3 price tables | `ReportsAddUp`, `RatesWithinScale` | a report describes one state whatever commits between its queries; parts never exceed their wholes |
| `ledger_open` | 2 processes, twice each, on files of versions 0, 6, 9, 13 | `SchemaIsEarned`, `FailureMeansContention`, `PriceRowsSurvive` | racing migrations, stopped anywhere |
| `category_recheck` | 2 calls, 2 products, budgets 1 and 2, 3 saves, 1 change of the orders | `CacheEndsHistory`, `CompleteIsEarned`, `RechecksAreFair`, `CategoryReportsGrounded` | overlapping enrichments against syncs and purges |
| `account_open` | 3 callers, 2 subjects, 2 keys | `OneKeyNamesAccounts`, `RefusalsHaveCause`, `WrittenLedgersAreOwn`, `HistoryIsKept` | racing first setups, lost and restored keys, copied databases |
| `watch_list` | 3 watches, limit 1, 2 adders, 1 refresh of 1 entry, cancellation and crashes | `WatchlistBounded`, `CheckHistoryKept`, `RemovedStaysRemoved`, `EveryWatchChecked` | statements of several callers interleaved; failures do not starve others |
| `camofox_profile` | 2 callers, all modes, no faults | `OneServerPerProfile`, `ResultMeansPersisted`, `RejectedCallsReturn` | cancellation and failures at every step, a server that does not react |
| `camofox_faults` | 1 caller at a time, all modes, callers may die and process 1 or another process adopt their runners, which may hang | `EndedCallsReturn`, `OrphansStop` | the kill after `WaitDelay`, the parent watch |
| `camofox_crash` | 2 callers that may die | `OneServerPerProfile` (violated) | section 6 |
| `session` | 2 calls of any of 7 tools, 1 change of the site, a close | `SessionClaims`, `LedgerIsOwned`, `CallsAnswered` | concurrent tools over one handle and one changing sign-in |
| `recommend` | 4 options of 3 products, 3 orders, 5 requests, 9 documents, 3 inspections; explicit searches over shelves of up to 3 cards | `BudgetHeld`, `ResultsAreEarned`, `OneScope`, `StopIsHonoured` | failing, contradicting, moving sources under one allowance and deadline |

Why these bounds are enough to be interesting:

- Sync: three runs are needed for a scan that one attempt opens, a second resumes
  after a crash and a third restarts or finishes; two scans for a superseded one
  beside its successor; two cursors beside the start for a loop that does not go
  through the start and one that does; a budget of 3 to walk all of them in one
  attempt. More callers add nothing under the lock except refusals, which change
  nothing. Orders and sources only matter to `EvidenceReadable`, so `sync_evidence`
  pays for them with a smaller history.
- Reports: the sorts cover what the conditions tell apart: fully canceled, without
  lines, with only a fee, fully returned, partly cancelled and returned, with and
  without time, brand and delivery; lines of two variants of a product, of the product
  alone, of a vendor item alone, of the same vendor item under another product and of
  neither; and three units for an amount that rounds to nothing for one. So exact
  matches have fewer lines than their product or all of them, orders are counted in
  several parts, and a candidate changes its product, which the price tables then have
  no row of. Two orders of any two sorts on
  equal or different days, months and years exercise every pairing; a page may hold
  both. The documents behind them carry inherited statuses, an item of quantity
  zero and missing totals. `MCOrderReports` also compares the two document readers on
  every document of `OddDocuments` (negative, missing, oversized and contradicting
  numbers, three forms of dates, cursors out of range). The price tables hold a
  search and an inspection within one second whose texts are ordered otherwise than
  their times, a legacy row, a row of the future and rows of two identities.
- Ledger: 6 is the last version without evidence columns that exist in 9, 13 the
  last before the price rebuild; a new file is 0. Two opens of a process let it
  retry after a refusal or find a file that another has half migrated.
- Enrichment: a budget of 1 of 2 products truncates; a third save lets a recheck
  overtake another; readings 2 to a day put two saves on one day and two on
  different days; the legacy rows are one without a path and one whose path grows.
- Accounts: a race needs two callers; the third lets a call see what two others have
  only half done. Two subjects give two directories under one key, two keys a
  race between generated keys and a second setup after a loss.
- Watchlist: with a limit of 1 and 3 identities two adders can exceed it by 1 and, if
  the bound were wrong, by 2. Two time values tell a reset from a kept time; a batch
  of 1 is the worst case for rotation.
- Camofox: slots are reused without bound, so sequences of requests are covered;
  two of them suffice for a conflict over one profile. `camofox_faults` has one slot,
  whose orphans either process 1 or a subreaper adopts:
  the two promises it checks are about a single request, and requests share only the
  lock, which no step of a started request waits for.
- Session: two calls contend for profile, mutex and handle; one change of the site
  can fall between any two reads of either.
- Recommendation: nine documents run out within discovery, within the sidebar or
  within the inspections, depending on the request; three inspections of three
  reads cannot all be afforded; two options of one product share review totals.

Bounds on counters, all in guards: `MaxRuns`, `MaxScans` (an attempt starts only
while rows are left), `MaxBudget`, `MaxTime`, `MaxAdds`, `MaxOpens`, `MaxSaves`,
`MaxEdits`, `MaxMoves`, and a generated key is unused. Deadlock checking is off
where the instance really stops: in `camofox_faults` a dead caller and a hung runner
can leave nothing able to move; `category_recheck` and `ledger_open` end when their
saves or opens are used up, `session` when its calls are answered. Symmetry: callers,
cursors, keys and references that no definition distinguishes; none where liveness
is checked.

## 4. Fairness

- `OrderSync!FairSpec`: weak fairness of each call's own steps. Every source read
  has the page deadline, every statement the busy timeout, `FinishSync` its two
  seconds. Nobody is obliged to call, cancel or crash.
- `PriceWatch!WatchFairSpec`: weak fairness of a refresh's steps *and* of starting one: a
  scheduler (`watch-schedule` prints the entry) keeps calling it. Endless
  cancellation does starve a watch, so `EveryWatchChecked` has the premise that
  refreshes are eventually no longer stopped.
- `CamofoxRun!FairSpec`: weak fairness of the caller's steps, of the runner's
  outside the script, of its signal handler and parent watch, and of leaving the
  script once cancelled, because every API call then throws. Nothing is assumed of
  an uncancelled script or of the server, and a hung runner takes no steps.
- `McpSession!Spec`: weak fairness of a call's own steps: every run of the profile
  has a deadline, every statement a busy timeout. Strong fairness of taking the
  mutex, because calls release and take it again: Go's mutex hands itself to a waiter
  that has waited for a millisecond. Nobody is obliged to ask, to approve or to close.

The other modules have only safety properties. `LedgerSchema` promises no
termination: openers can refuse each other (section 6).

## 5. What is proved

TLAPS checks these for every value of the constants, from the named assumptions
only (finite order sets, positive bounds, sentinels that are not real values).

- `OrderSync_proofs`: `TypeCorrect`, `CheckpointAgrees`, `RunningIsNewest`,
  `OwnerAdmitted`, `ScansAreWalks`, `EvidenceIsHistory`, `LoopsWait`,
  `PagesAreCounted`, `StatusIsGrounded` and `Implementation`: all its safety and
  action properties, and the refinement of `ScanLedger`. The invariant `IInv` adds
  to the properties: run and scan ids are
  assigned without gaps (`Assigned`), only the lock holder is beyond idle
  (`Exclusive`), at most one scan is live (`OneLive`), and for each stage of the
  holder what it has read still holds (`OwnerState`). The last is why a page
  fetched minutes ago is still admitted: nobody without the lock writes those
  tables, and a call that crashed is no longer the holder. It needs `OneOpenRun`,
  because the sweep of a new attempt must leave exactly its own run open. More
  invariants are carried beside it. `WalkInv`, for `ScansAreWalks`: an id not yet
  allocated has no pages (`Blank`), so a new scan begins with an empty walk, and a
  page is appended only with the head of the scan, which no page of it has used.
  `RowsInv`, `NewestInv` and `CountersInv`, for what the status tells: the counters
  of a run, and of the call that owns it, are those of its page rows (`RunGrounded`);
  a run has seen no more orders than it counted, all of them retained; an exhausted
  scan was exhausted by a run of its own; the newest run is about no superseded
  scan. That a scan tells no more orders than its attempts counted is then a sum
  over the attempts. The refinement rests on `IInv` and `WalkInv`: a step of an
  attempt is a step of the walk because the walk is what the tables hold.
- `OrderReports_proofs`: `TypeCorrect`, `ReportsFitTogether` and
  `RatesStayWithinScale`, all its properties, for tables of any size. `IInv` says
  where answers come from: the table holds admitted orders of known references
  (`Table`), and a session's answers are those of the one table its transaction read
  first (`Session`), or, for a list or an export, which have no transaction, of
  orders that were admitted when each was read. It is inductive because a commit
  changes no session. The work is in what the queries of one table give, and there
  are three kinds of it. Sums: what is grouped (by month, hour, weekday, year, brand,
  variant) is a sum over disjoint parts of the same orders or lines, so it adds up to
  what is counted without groups, or, where some lines are in no group (a product's exact
  matches), to no more. Extremes: a median and a ninth decile have at least
  so many values below them, a leader exists exactly when something can lead, the
  longest streak and gap are of the days that are there. Fractions: what is counted
  above the line is a part of what is counted below it, and only an axis with samples
  is ready. Assumed are what a page and a table of prices are (`ReportsAssumption`),
  finitely many references asked for and positive thresholds (`InsightsAssumption`), and a safe
  range of integers within the wrapping one (`NumbersAssumption`). Five theorems are
  about the operators. `ReadersAgree` (what the reader in the page accepts, the Go
  parser reads the same, for dates without spaces: both compute alike on safe
  integers), `AdmittedPagesAreStorable` (the document contract implies what the store
  admits) and `ParsedItemsAreStorable` (the Go parser keeps no item the store
  refuses) hold of every document. No theorem says this of the Go parser's orders: it
  is not so (section 6). `RecordingKeepsHistory` and `RetriesRecordNothing` are about
  every batch of price observations: a table stays a table, nothing recorded changes,
  a batch is recorded as a whole or refused, and recording it again adds nothing. The
  first is why `ReportsAssumption` may take every table of prices for a `PriceTable`.
- `Store_proofs`, of `AccountLedger`: `AccountTypeCorrect`, `OneKey`,
  `OnlyOwnLedgersWritten`, `RefusalsCaused`, `HistorySurvivesRaces`. The invariant
  `AccountIInv` says, per call: the key it holds is the installed one; a call about to
  publish a key into a missing file has no account beside it; what it validated is
  still so. Per file: directories are named with the installed key whenever there is
  one. The argument is that a link never replaces, so everything a call has seen stays.
- `Store_proofs`, of `PriceWatch`: `WatchTypeCorrect`, `LimitOverrunBounded`,
  `OnlyInsertionsList`, `HistorySurvivesAdds`. The bound follows from counting promises
  (`PromisesBounded`): watches listed plus additions that have passed the check are
  never more than the limit plus the number of callers but one. This holds for every
  limit, 500 included.
- `Store_proofs`, of `LedgerSchema`: `TypeCorrect`, `SchemaEarned`,
  `FailureContended`, `PriceRowsKept`. The invariant says of every process that what
  the statements before its place add is there, of every version that what it promises
  is, and of a process between two looks that only another's write can have made its
  look stale. Elements never disappear, which carries all of it over other processes'
  steps.
- `CamofoxRun_proofs`: `TypeCorrect`, `ProfileIsExclusive` (without crashes and hung
  runners), `ResultsArePersisted` (with them). The invariant is a predicate of one
  slot (`Good`): who runs holds the lock (`Owned`), what the runner believes of its
  server is so (`Supervised`), a result under way follows a saved profile
  (`Reported`), and without faults a server is outlived by its runner and a runner
  by its call (`Nested`), which turns exclusion of calls into exclusion of servers.
- `McpSession_proofs`: `TypeCorrect`, `SessionClaimsHold`, `LedgerOwned`. The
  invariant is a predicate of one call (`Good`): its stage fits its tool (`Placed`),
  what it is about to do rests on what it has read (`Grounded`) and what it has
  answered is so (`Claims`); who is past the mutex holds it, and the number of
  handles is what the handle variable says.
- `Recommendation_proofs`: `BudgetIsHeld`, `ScopeIsOne`, `StopHonoured`,
  `ResultsEarned`: all its properties. The invariant has a part for each question:
  documents and reviews are spent within their allowances, and during inspection
  neither falls below the options left (`Spent`: a share, rounded up, of a total
  that has one for every part leaves one for every other part); an order neither
  active nor exhausted still waits in the first round, unless something went wrong
  (`Searching`); what is not incomplete has inspected, or has queued, all that was
  found (`Earning`); a page's review count is the one its options agree on
  (`Counted`). `ResultsEarned` also rests on what the operators compute: dominance
  is a strict partial order on the candidates, so that each one dropped is dominated
  by one that is kept; the totals of reviews by page and by first option are sums of
  the same terms; and the variant counts of what an explicit search shows add up to
  the cards that match, being sizes of disjoint sets. Assumed are finite lists,
  boolean flags, positive budgets and numbers that are numbers (`BudgetAssumption`,
  `RequestAssumption`, `SourceAssumption`, `DetailAssumption`).
- `CategoryEnrichment_proofs`: `CacheIsLast`, `CompletionIsEarned`, `RechecksTakeTurns`,
  `ReportsGrounded`: all its properties. One invariant says that nothing
  was observed after the present (`ObservedByNow`) and that an outcome stamped and not
  yet saved is later than all its product has, unless another call saved that product
  meanwhile (`StampStands`). So a save that was not overtaken ends the history and
  repairs what an overtaken one left. A cache row of an older release, without
  history, must lie before all of it, which `EnrichmentAssumption` states and the
  migration provides. The other (`CallsInv`) is about the calls. `Listing`: a recheck
  that has listed as many products as there were has saved, or still lists, each of
  them, and it is only not truncated when it has. `Turns`: a product rechecked twice
  more than another is due after it. This is kept because a list names a product saved
  before only behind all that are due before it (`Queued`), and because a save that
  did not overlap another is the newest of the table (`InTime`): only the first save
  after an overlap may carry an early stamp, which is the one turn the property allows
  for. `ReportsGrounded` needs nothing of the calls: the products below an entry that
  are not its leaves are below exactly one of its children each, and sizes of disjoint
  sets add up.

Each follows the same pattern: `Init => IInv`, one lemma per action (or kind of
action) for `IInv /\ [Next]_vars => IInv'`, then the property from `IInv`; action
properties are proved from `IInv` and the step.

Sums and orders over finite sets need induction. The library states it for a
predicate parameter, which the provers cannot instantiate, so `FiniteSetLemmas` proves
it for sets: a set of naturals with 0 and every successor is `Nat` (`SetInduction`,
from the well-foundedness of `<`), and a family of subsets with the empty one, closed
under adding an element, has them all (`SubsetInduction`, `ElementInduction`). From
these follow the laws of sums that the theorems cite: a sum takes its terms one by one
(`SumTakes`), disjoint parts add up (`SumOfParts`, `SizesAddUp`), and a sum of sums is
the sum of all terms (`SumOfSums`). Recursive functions, such as the one behind
`SumFunctionOnSet` or the fold that inserts a batch, unfold by their definitions. Out of
reach stay `RECURSIVE` operators, and `SelectSeq` and `SortSeq`, which take an operator
and have no definition the provers see: where a theorem needs it, a filter is the
elements at a set of places (`At`), and a sorted list has at its k-th place the element
that k - 1 others precede (`InOrder`). The cards of a search are filtered with
`SelectSeq` before their prices are recorded, so the theorems are about the recording.

Only model-checked: the liveness properties `CallsReturn`, `EveryWatchChecked`,
`RejectedCallsReturn`, `EndedCallsReturn`, `OrphansStop` and `CallsAnswered`, because
TLAPS does not reason about fairness and `ENABLED` here. Every invariant and every
action property of a passing run has a theorem.

## 6. What the models found

One run exhibits a disagreement between the code and what the repository says of it:

- `camofox_crash`: the profile lock is the caller's alone. When the caller dies,
  runner and server keep the profile for as long as the parent watch and the
  shutdown take, and the next caller starts a second server on it;
  `src/HANDOFF.md:329` promises `profile_in_use` instead. `camofox_faults` shows that
  the overlap ends, where process 1 adopts the runner, unless the runner hangs or
  dies; elsewhere it lasts until the script ends (section 2).

What else came up while the code was translated; the properties are stated so that
they say what does hold:

- *Sync.* A complete walk never reconciles stale rows (the code says so at
  `orders/service.go:183`; `src/HANDOFF.md:346` is out of date).
- *Watchlist.* The limit is counted and used in separate statements: concurrent
  additions exceed it, by at most one watch per further caller (`WatchlistBounded`).
  A refresh cancelled during an inspection cannot record the attempt, because its
  update uses the ended context, although `products/service.go:482` says that each
  attempt updates its status.
- *Reports.* `latestSyncStatus` sets `HistoryComplete` to false always
  (`store/sync.go:126`), so the status `complete_available_history` of membership
  costs (`src/ACCOUNT.md:88`) and an "available" purchase context cannot occur.
- *Price history.* Observations are ordered as RFC 3339 text, so within one second
  the order may differ from that of the times (`store/prices.go:71`); the history
  adds up to within a second.
- *Documents.* The Go parser reads `2006. 01. 02` as midnight UTC, nine in the
  morning in Korea, where the reader in the page reads a date
  (`coupang/orders/parser.go:395`). It wraps unit price times quantity at int64 and
  passes on negative discounts and other currencies, which fail the whole page as a
  storage error; the reader in the page refuses them.
- *Migration.* The price migration reads in a deferred transaction and then writes,
  which SQLite refuses when another process wrote in between; the comments at
  `store/sync_coverage_migration.go:11` and `store/sync_observations.go:17` describe
  how the other migrations avoid this. Two openers of an old file may both miss a
  column and the second `ALTER TABLE` fails. Both are refusals, no damage:
  `FailureMeansContention` and `SchemaIsEarned` hold.
- *Enrichment.* `saveProductCategoryOutcome` takes its time before it begins its
  transaction (`store/categories.go:146`). Of two calls that enrich one product, the
  one stamped first may commit last: the cache then answers with the older outcome
  and the older time until the product is enriched again, while the history has both.
  `CacheEndsHistory` excepts exactly these saves. As the product then looks due, two
  overlapping callers may visit one product several times for each visit of another;
  `RechecksAreFair` holds of calls one after the other. A recheck may answer `recheck_truncated=false, complete=true` though
  an eligible product was not rechecked, when a sync replaced a listed product
  between its two reads; `CompleteIsEarned` excepts calls during which the orders
  changed. The stability report reads its two counts in two statements. Without a
  recheck, a product whose page keeps failing stays first of the list.
- *Authentication.* A recovery reports that a visible browser was opened even when
  its login found the session verified at its first look (`auth/service.go:143`).
- *Configuration.* `SaveCamofoxConfig` compares the stored user and then renames:
  two setups may both pass the comparison. Setup is one interactive command.

## 7. What is not modelled, and why

- Receipts and savings packages: no command or tool reaches them at this commit;
  they become worth modelling when they are wired in.
- Page scripts, field extraction from product documents, rendering, report and
  schedule texts: data transformations whose results the models take as arbitrary.
- The cart: one confirmed request with one checked answer, no state of this program.
- Command line and MCP registration: they decide which service is called and encode
  its answer; the models allow any call at any time.
- The entropy of purchase days, rounding to digits and wording of reports.
- Release tooling, installers, the removed extension, research: not the running
  program.
- Durability below SQLite and the file system: a commit or a link is atomic and
  survives a process crash; power loss is out of scope.

## 8. Plan

1. `Receipts`, once it is wired in: period splitting (no gap, no overlap, no empty
   period) and download accounting, where a failed card response is skipped
   without a warning.
2. A product document reader beside `OrderDocuments`, with the contract between page
   and program.

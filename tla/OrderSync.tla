----------------------------- MODULE OrderSync -----------------------------
(***************************************************************************)
(* Order history acquisition: internal/orders/service.go (Sync) driving    *)
(* the SQLite tables of internal/store/sync*.go.                           *)
(*                                                                         *)
(* An attempt is one call of Service.Sync: a CLI command or an MCP tool    *)
(* call, in the same process or in another one.  All attempts share one    *)
(* ledger file and one advisory lock beside it.  A database transaction is *)
(* one action; everything between two transactions, a source read or a     *)
(* process exit included, is a separate action.  Purge and Import write    *)
(* orders without the lock.                                                *)
(*                                                                         *)
(* A few operators (RetryForever, NoLock, NoSweep, ...) are not used by    *)
(* the specification.  Each states a plausible mistake in the operator it  *)
(* stands next to, and PROJECT.json names the property that rejects it.    *)
(***************************************************************************)
EXTENDS Integers, Sequences, FiniteSets, Functions

CONSTANTS
    Attempt,        \* concurrent callers of Service.Sync
    Cursor,         \* (year, page) positions of the upstream history
    Order,          \* source references of orders
    Source,         \* acquisition sources (ordinary browser, Camofox)
    FetchFailure,   \* error codes a failed source read or parse reports
    StopCause,      \* error codes of an attempt context that has ended
    MaxBudget,      \* bound on the requested max_pages
    MaxRuns,        \* bound on rows of sync_runs
    MaxScans,       \* bound on rows of sync_scans
    Nil,            \* the nil *OrderCursor: "from the start", or "no next page"
    NoOne           \* nobody holds the lock

ASSUME BoundsAssumption ==
    /\ MaxBudget \in Nat \ {0}
    /\ MaxRuns \in Nat \ {0}
    /\ MaxScans \in Nat \ {0}

ASSUME SentinelAssumption ==
    /\ Nil \notin Cursor
    /\ NoOne \notin Attempt
    /\ "live" \notin StopCause
    /\ "" \notin StopCause \cup FetchFailure

ASSUME SourceAssumption == Source # {}

ASSUME OrderAssumption == IsFiniteSet(Order)

VARIABLES
    \* The ledger file.
    checkpoint,     \* sync_checkpoint: its cursor, Nil when the row is absent
    scans,          \* sync_scans, by id
    pages,          \* sync_scan_pages, by scan id, in insertion order
    runs,           \* sync_runs joined with sync_scan_attempts, by run id
    orders,         \* orders: the retained source references
    observed,       \* sync_run_observed_orders
    \* The lock file and the attempts.
    lock,           \* holder of <ledger>.sync-writer.lock
    att             \* locals of each Service.Sync call

ledgerVars == <<checkpoint, scans, pages, runs, orders, observed>>
vars == <<checkpoint, scans, pages, runs, orders, observed, lock, att>>

-----------------------------------------------------------------------------

Key == Cursor \cup {Nil}
RunId == 1..MaxRuns
ScanId == 1..MaxScans

\* A row of sync_scans; state "none" is an id not yet allocated.
Scan == [state: {"none", "active", "exhausted"}, superseded: BOOLEAN,
         source: Source, fromStart: BOOLEAN, next: Key]

\* A row of sync_scan_pages.  next is not a column: it records, for the
\* properties only, the cursor the committed page led to.
PageRow == [cursor: Key, run: RunId, next: Key]

ErrorCode == FetchFailure \cup StopCause \cup
             {"", "cursor_loop", "storage", "page_deadline_exceeded", "interrupted"}

\* A row of sync_runs with the scan its sync_scan_attempts row names; scan 0
\* is a legacy run, which has no such row.
Run == [status: {"none", "running", "completed", "failed"}, code: ErrorCode,
        scan: 0..MaxScans, source: Source, pages: Nat, records: Nat,
        exhausted: {"null", "false", "true"}]

Page == [next: Key, orders: SUBSET Order]

\* Where an attempt is in syncWithTimeLimits.
Stage == {"idle", "load", "begin", "loop", "fetch", "apply", "left", "finish",
          "unlock"}

Local == [pc: Stage, ctx: StopCause \cup {"live"}, budget: 1..MaxBudget,
          restart: BOOLEAN, source: Source, cursor: Key, run: 0..MaxRuns,
          seen: SUBSET Key, pages: Nat, records: Nat, page: Page,
          code: ErrorCode]

NoPage == [next |-> Nil, orders |-> {}]

NoScan(src) == [state |-> "none", superseded |-> FALSE, source |-> src,
                fromStart |-> FALSE, next |-> Nil]

RunRow(status, s, src) == [status |-> status, code |-> "", scan |-> s,
                           source |-> src, pages |-> 0, records |-> 0,
                           exhausted |-> "null"]

\* The locals of a call that has just taken a request.
NewCall(stage, budget, restart, source) ==
    [pc |-> stage, ctx |-> "live", budget |-> budget, restart |-> restart,
     source |-> source, cursor |-> Nil, run |-> 0, seen |-> {}, pages |-> 0,
     records |-> 0, page |-> NoPage, code |-> ""]

AnySource == CHOOSE src \in Source : TRUE

LegacyRun == RunRow("running", 0, AnySource)
NoRun == RunRow("none", 0, AnySource)

Idle == NewCall("idle", 1, FALSE, AnySource)
Returning == NewCall("unlock", 1, FALSE, AnySource)

-----------------------------------------------------------------------------
(* Reading the tables.                                                     *)

\* The rows the partial unique index sync_one_active_scan is about.
Live(s) == scans[s].state = "active" /\ ~scans[s].superseded

Visited(s) == {pages[s][i].cursor : i \in DOMAIN pages[s]}

\* CheckSyncCursor: a page of this scan is already committed for the cursor, by
\* whichever attempt.  The variant looks at this attempt's own pages only.
CursorVisitedByRun(p) ==
    LET walk == pages[runs[att[p].run].scan]
    IN  \E i \in DOMAIN walk :
            walk[i].cursor = att[p].cursor /\ walk[i].run = att[p].run

CursorVisited(p) == att[p].cursor \in Visited(runs[att[p].run].scan)

\* A run the resumable API created: it has a sync_scan_attempts row.
Managed(r) == runs[r].status # "none" /\ runs[r].scan # 0

\* syncScanEvidence of a run: its scan with all its attempts.  An order they
\* observed counts once, and only while it is retained.
Members(s) == {q \in RunId : Managed(q) /\ runs[q].scan = s}

ScanEvidence(r) ==
    LET s == runs[r].scan
        seen == {o \in orders : \E q \in Members(s) : <<q, o>> \in observed}
    IN  [state |-> IF scans[s].state = "exhausted"
                   THEN IF scans[s].next = Nil /\ ~scans[s].superseded
                        THEN "cursor_exhausted" ELSE "invalid"
                   ELSE IF scans[s].superseded THEN "superseded" ELSE "active",
         attempts |-> Cardinality(Members(s)), pages |-> Len(pages[s]),
         observed |-> Cardinality(seen),
         notObserved |-> Cardinality(orders) - Cardinality(seen)]

\* LatestSyncStatus: the newest run, by whatever release, and its scan if it has one.
LatestStatus ==
    LET started == {r \in RunId : runs[r].status # "none"}
        newest == CHOOSE r \in started : \A q \in started : q <= r
    IN  IF started = {}
        THEN [state |-> "never_run", exhausted |-> "null", scan |-> {}]
        ELSE [state |-> runs[newest].status, exhausted |-> runs[newest].exhausted,
              scan |-> {ScanEvidence(r) : r \in {newest} \ {q \in RunId : ~Managed(q)}}]

\* AUTOINCREMENT: the id the next inserted row gets.
NextScanId(s) == \A t \in ScanId : t < s <=> scans[t].state # "none"
NextRunId(r) == \A q \in RunId : q < r <=> runs[q].status # "none"

\* errors.Is chain of fail(): what ended the context wins over the cause.
FailCode(p, code) == IF att[p].ctx = "live" THEN code ELSE att[p].ctx

-----------------------------------------------------------------------------
(* A ledger opened for the first time by this version: empty, or one that  *)
(* the releases before managed scans left with a checkpoint and a run that *)
(* never finished.                                                         *)

Init ==
    /\ checkpoint \in Key
    /\ scans = [s \in ScanId |-> NoScan(AnySource)]
    /\ pages = [s \in ScanId |-> <<>>]
    /\ \/ runs = [r \in RunId |-> NoRun]
       \/ runs = [r \in RunId |-> IF r = 1 THEN LegacyRun ELSE NoRun]
    /\ orders = {}
    /\ observed = {}
    /\ lock = NoOne
    /\ att = [p \in Attempt |-> Idle]

-----------------------------------------------------------------------------
(* Steps of one attempt.                                                   *)

\* The locals of p become l.
Becomes(p, l) == att' = [att EXCEPT ![p] = l]

Goto(p, stage) == Becomes(p, [att[p] EXCEPT !.pc = stage])

\* Only the deferred unlock is left: the locals are dead.
Return(p) == Becomes(p, Returning)

\* Leaves the loop with an error: fail(code, cause) before FinishSync runs.
RetryForever(p, code) == Goto(p, "loop")
Fail(p, code) ==
    Becomes(p, [att[p] EXCEPT !.pc = "finish", !.code = FailCode(p, code)])

\* The non-blocking advisory lock can be had.
NoLock == TRUE
LockFree == lock = NoOne

\* AcquireSyncWriter.  A second caller gets ErrSyncInProgress and changes
\* nothing.  The id bounds keep room for the rows this attempt may insert.
Acquire(p) ==
    /\ att[p].pc = "idle"
    /\ LockFree
    /\ \E r \in RunId : runs[r].status = "none"
    /\ \E s \in ScanId : scans[s].state = "none"
    /\ \E budget \in 1..MaxBudget, restart \in BOOLEAN, source \in Source :
           Becomes(p, NewCall("load", budget, restart, source))
    /\ lock' = p
    /\ UNCHANGED ledgerVars

LoadCursor(p) ==
    /\ att[p].pc = "load"
    /\ att[p].ctx = "live"
    /\ Becomes(p, [att[p] EXCEPT !.pc = "begin", !.cursor = checkpoint])
    /\ UNCHANGED <<ledgerVars, lock>>

\* The acquisition, the checkpoint read or the begin transaction fails
\* (storage, or a context that has ended): nothing was written.
GiveUp(p) ==
    /\ att[p].pc \in {"load", "begin"}
    /\ Return(p)
    /\ UNCHANGED <<ledgerVars, lock>>

\* The runs table after the sweep of beginSyncScan: the lock holder knows no
\* managed run still has an owner.
NoSweep == runs

SweepEverything ==
    [r \in RunId |->
        IF runs[r].status = "running"
        THEN [runs[r] EXCEPT !.status = "failed", !.code = "interrupted"]
        ELSE runs[r]]

SweepAsCompleted ==
    [r \in RunId |->
        IF runs[r].status = "running" /\ runs[r].scan # 0
        THEN [runs[r] EXCEPT !.status = "completed"]
        ELSE runs[r]]

Interrupted ==
    [r \in RunId |->
        IF runs[r].status = "running" /\ runs[r].scan # 0
        THEN [runs[r] EXCEPT !.status = "failed", !.code = "interrupted"]
        ELSE runs[r]]

\* Where the attempt starts reading.
FirstCursor(p) == IF att[p].restart THEN Nil ELSE att[p].cursor

\* The tail of beginSyncScan, common to resuming and starting a scan.
OpenRun(p, s) ==
    \E r \in RunId :
        /\ NextRunId(r)
        /\ runs' = [Interrupted EXCEPT ![r] = RunRow("running", s, att[p].source)]
        /\ Becomes(p, [att[p] EXCEPT !.pc = "loop", !.run = r,
                                      !.cursor = FirstCursor(p)])

\* A scan is resumed only through the source that started it.
AnySourceResumes(s, p) == TRUE
SameSource(s, p) == scans[s].source = att[p].source

ResumeScan(p) ==
    /\ att[p].pc = "begin"
    /\ att[p].ctx = "live"
    /\ ~att[p].restart
    /\ checkpoint = att[p].cursor
    /\ \E s \in ScanId :
           /\ Live(s)
           /\ SameSource(s, p)
           /\ scans[s].next = att[p].cursor
           /\ OpenRun(p, s)
    /\ UNCHANGED <<checkpoint, scans, pages, orders, observed, lock>>

\* sync_checkpoint after the begin transaction: a restart deletes the row.
CheckpointKept(p) == checkpoint
CheckpointAtBegin(p) == IF att[p].restart THEN Nil ELSE checkpoint

\* A restart supersedes the pending scan and drops the checkpoint in the same
\* transaction.  Without one, a new scan starts from the checkpoint found.
StartScan(p) ==
    /\ att[p].pc = "begin"
    /\ att[p].ctx = "live"
    /\ checkpoint = att[p].cursor
    /\ att[p].restart \/ \A s \in ScanId : ~Live(s)
    /\ LET first == FirstCursor(p)
           retired == [s \in ScanId |->
                          IF Live(s) THEN [scans[s] EXCEPT !.superseded = TRUE]
                          ELSE scans[s]]
       IN  \E s \in ScanId :
               /\ NextScanId(s)
               /\ scans' = [retired EXCEPT ![s] =
                               [state |-> "active", superseded |-> FALSE,
                                source |-> att[p].source,
                                fromStart |-> first = Nil, next |-> first]]
               /\ OpenRun(p, s)
               /\ checkpoint' = CheckpointAtBegin(p)
    /\ UNCHANGED <<pages, orders, observed, lock>>

\* ErrSyncCheckpointChanged and ErrSyncScanMismatch: rolled back.
RefuseBegin(p) ==
    /\ att[p].pc = "begin"
    /\ \/ checkpoint # att[p].cursor
       \/ /\ ~att[p].restart
          /\ \E s \in ScanId :
                 /\ Live(s)
                 /\ \/ ~SameSource(s, p)
                    \/ scans[s].next # att[p].cursor
    /\ Return(p)
    /\ UNCHANGED <<ledgerVars, lock>>

\* The head of the loop: context, cursors this attempt has asked for, and
\* CheckSyncCursor on the pages every attempt of the scan has committed.
TakeCursor(p) ==
    /\ att[p].pc = "loop"
    /\ att[p].pages < att[p].budget
    /\ att[p].ctx = "live"
    /\ att[p].cursor \notin att[p].seen
    /\ ~CursorVisited(p)
    /\ Becomes(p, [att[p] EXCEPT !.pc = "fetch",
                                  !.seen = @ \cup {att[p].cursor}])
    /\ UNCHANGED <<ledgerVars, lock>>

RefuseCursor(p) ==
    /\ att[p].pc = "loop"
    /\ att[p].pages < att[p].budget
    /\ \/ att[p].ctx # "live" /\ Fail(p, "canceled")
       \/ /\ \/ att[p].cursor \in att[p].seen
             \/ CursorVisited(p)
          /\ Fail(p, "cursor_loop")
       \/ att[p].cursor \notin att[p].seen /\ Fail(p, "storage")
    /\ UNCHANGED <<ledgerVars, lock>>

SpendBudget(p) ==
    /\ att[p].pc = "loop"
    /\ att[p].pages >= att[p].budget
    /\ Goto(p, "left")
    /\ UNCHANGED <<ledgerVars, lock>>

\* FetchPage (or Fetch and ParseOrderDocument): the upstream history may have
\* moved since the last page, so any next cursor and any orders may come back.
FetchPage(p) ==
    /\ att[p].pc = "fetch"
    /\ att[p].ctx = "live"
    /\ \E page \in Page :
           Becomes(p, [att[p] EXCEPT !.pc = "apply", !.page = page])
    /\ UNCHANGED <<ledgerVars, lock>>

FetchFails(p) ==
    /\ att[p].pc = "fetch"
    /\ \E code \in FetchFailure \cup {"page_deadline_exceeded"} : Fail(p, code)
    /\ UNCHANGED <<ledgerVars, lock>>

\* The preconditions ApplySyncPage and recordSyncScanPage check inside the
\* page transaction.
PageAdmitted(p) ==
    LET r == att[p].run
        s == runs[r].scan
    IN  /\ runs[r].status = "running"
        /\ checkpoint = att[p].cursor
        /\ ~CursorVisited(p)
        /\ Live(s)
        /\ scans[s].next = att[p].cursor

\* The attempt's own counters and cursor after a page is committed.
PageNotCounted(p) ==
    LET page == att[p].page
    IN  [att[p] EXCEPT !.pc = IF page.next = Nil THEN "left" ELSE "loop",
                       !.cursor = page.next, !.page = NoPage]

Advanced(p) ==
    LET page == att[p].page
    IN  [att[p] EXCEPT !.pc = IF page.next = Nil THEN "left" ELSE "loop",
                       !.cursor = page.next, !.page = NoPage,
                       !.pages = @ + 1,
                       !.records = @ + Cardinality(page.orders)]

\* The rows of the run and of its scan after the page.
ProgressedRun(r, page) ==
    [runs[r] EXCEPT !.pages = @ + 1,
                    !.records = @ + Cardinality(page.orders),
                    !.exhausted = IF page.next = Nil THEN "true" ELSE "false"]

MovedScan(s, page) ==
    [scans[s] EXCEPT !.next = page.next,
                     !.state = IF page.next = Nil THEN "exhausted" ELSE @]

\* The page transaction: progress, visit, scan head, orders, observations and
\* checkpoint together, then the attempt's own counters.
ApplyPage(p) ==
    LET r == att[p].run
        s == runs[r].scan
        page == att[p].page
    IN  /\ att[p].pc = "apply"
        /\ att[p].ctx = "live"
        /\ PageAdmitted(p)
        /\ runs' = [runs EXCEPT ![r] = ProgressedRun(r, page)]
        /\ pages' = [pages EXCEPT ![s] =
                        Append(@, [cursor |-> att[p].cursor, run |-> r,
                                   next |-> page.next])]
        /\ scans' = [scans EXCEPT ![s] = MovedScan(s, page)]
        /\ orders' = orders \cup page.orders
        /\ observed' = observed \cup ({r} \X page.orders)
        /\ checkpoint' = page.next
        /\ Becomes(p, Advanced(p))
        /\ UNCHANGED lock

\* Any refusal or failure inside the page transaction rolls all of it back; the
\* page deadline covers the transaction too.
ApplyFails(p) ==
    /\ att[p].pc = "apply"
    /\ \E code \in {"storage", "page_deadline_exceeded"} : Fail(p, code)
    /\ UNCHANGED <<ledgerVars, lock>>

\* After the loop: an ended context still fails the attempt.
LeaveLoop(p) ==
    /\ att[p].pc = "left"
    /\ Fail(p, "")
    /\ UNCHANGED <<ledgerVars, lock>>

\* FinishSync, under a context of its own: cancellation cannot stop it.
FinishRun(p) ==
    /\ att[p].pc = "finish"
    /\ runs[att[p].run].status = "running"
    /\ runs' = [runs EXCEPT ![att[p].run] =
                   [@ EXCEPT !.status = IF att[p].code = "" THEN "completed"
                                        ELSE "failed",
                             !.code = att[p].code,
                             !.pages = att[p].pages,
                             !.records = att[p].records]]
    /\ Return(p)
    /\ UNCHANGED <<checkpoint, scans, pages, orders, observed, lock>>

\* The two-second cleanup budget runs out, or the row is not running: the
\* attempt returns an error and the row stays as it is.
FinishFails(p) ==
    /\ att[p].pc = "finish"
    /\ Return(p)
    /\ UNCHANGED <<ledgerVars, lock>>

\* The deferred unlock; the call returns.
Unlock(p) ==
    /\ att[p].pc = "unlock"
    /\ Becomes(p, Idle)
    /\ lock' = NoOne
    /\ UNCHANGED ledgerVars

-----------------------------------------------------------------------------
(* The environment.                                                        *)

\* The caller cancels, or the five-minute budget or the caller's own deadline
\* runs out.  FinishSync and the unlock do not look at this context.
EndContext(p) ==
    /\ att[p].pc \notin {"idle", "finish", "unlock"}
    /\ att[p].ctx = "live"
    /\ \E cause \in StopCause : Becomes(p, [att[p] EXCEPT !.ctx = cause])
    /\ UNCHANGED <<ledgerVars, lock>>

\* The process exits: the operating system drops the advisory lock.
Crash(p) ==
    /\ att[p].pc # "idle"
    /\ Becomes(p, Idle)
    /\ lock' = NoOne
    /\ UNCHANGED ledgerVars

\* ON DELETE CASCADE, on a connection that has foreign_keys switched on.
NoCascade == observed
Cascade == {x \in observed : x[2] \notin orders}

\* Deletes every order; the foreign key drops the observations with them.
Purge ==
    /\ orders' = {}
    /\ observed' = Cascade
    /\ UNCHANGED <<checkpoint, scans, pages, runs, lock, att>>

\* UpsertOrderPage on behalf of Service.Import.
Import ==
    /\ \E batch \in SUBSET Order : orders' = orders \cup batch
    /\ UNCHANGED <<checkpoint, scans, pages, runs, observed, lock, att>>

\* What the attempt itself does, in the order of the code.
Step(p) ==
    \/ LoadCursor(p) \/ GiveUp(p)
    \/ ResumeScan(p) \/ StartScan(p) \/ RefuseBegin(p)
    \/ TakeCursor(p) \/ RefuseCursor(p) \/ SpendBudget(p)
    \/ FetchPage(p) \/ FetchFails(p)
    \/ ApplyPage(p) \/ ApplyFails(p)
    \/ LeaveLoop(p) \/ FinishRun(p) \/ FinishFails(p) \/ Unlock(p)

Next ==
    \/ \E p \in Attempt : Acquire(p) \/ Step(p) \/ EndContext(p) \/ Crash(p)
    \/ Purge
    \/ Import

Spec == Init /\ [][Next]_vars

\* Every source read ends by the page deadline, every statement by the busy
\* timeout or a context, FinishSync by its two seconds: a call that is running
\* keeps taking steps.  Nobody is obliged to call, cancel or crash.
FairSpec == Spec /\ \A p \in Attempt : WF_vars(Step(p))

-----------------------------------------------------------------------------
(* Properties.                                                             *)

\* Every variable keeps the type of its table or of its Go variable.
TypeOK ==
    /\ checkpoint \in Key
    /\ scans \in [ScanId -> Scan]
    /\ pages \in [ScanId -> Seq(PageRow)]
    /\ runs \in [RunId -> Run]
    /\ orders \in SUBSET Order
    /\ observed \in SUBSET (RunId \X Order)
    /\ lock \in Attempt \cup {NoOne}
    /\ att \in [Attempt -> Local]

\* The checkpoint a later attempt resumes from and the head of the scan it
\* resumes into are two rows written by different statements.  They never
\* disagree, so a resume by the same source is never refused as a mismatch;
\* a checkpoint without a pending scan is only ever a legacy one.
CheckpointIsHead ==
    /\ \A s \in ScanId : Live(s) => scans[s].next = checkpoint
    /\ (\E s \in ScanId : scans[s].state # "none") /\ (\A s \in ScanId : ~Live(s))
          => checkpoint = Nil

\* However attempts overlap, crash or fail to record their end, at most one
\* managed run is shown as running, and it is the newest run of the ledger:
\* LatestSyncStatus never hides a running attempt behind an ended one.
OneOpenRun ==
    \A r \in RunId :
        Managed(r) /\ runs[r].status = "running" =>
            \A q \in RunId : q > r => runs[q].status = "none"

\* A page that was fetched for a cursor is still wanted when it is applied,
\* and the run to finish is still open, whatever other callers, purges and
\* imports did while the source was being read: the lock holder never meets
\* ErrSyncRunInactive, ErrSyncCheckpointChanged, ErrSyncScanMismatch or a
\* visited cursor inside ApplySyncPage, nor "run is not active" in FinishSync.
OwnerNeverRefused ==
    \A p \in Attempt :
        /\ att[p].pc = "apply" => PageAdmitted(p)
        /\ att[p].pc = "finish" => runs[att[p].run].status = "running"

\* pages_processed is incremented by page transactions and overwritten by
\* FinishSync with the attempt's own counter; crashes skip the latter.  Either
\* way it is the number of page rows the run committed, all of them to the scan
\* its attempt row names and from the source of that scan.
PagesAccounted ==
    /\ \A r \in RunId : Managed(r) =>
          runs[r].pages =
              Cardinality({i \in DOMAIN pages[runs[r].scan] :
                              pages[runs[r].scan][i].run = r})
    /\ \A s \in ScanId : \A i \in DOMAIN pages[s] :
          /\ runs[pages[s][i].run].scan = s
          /\ runs[pages[s][i].run].source = scans[s].source

\* Over all the attempts that contributed to it, a scan is one walk through the
\* upstream cursors: from the start when it says so, each page requested with
\* the cursor the page before led to, no page skipped or committed twice, and
\* its stored head is where the walk stands.
ScanIsOneWalk ==
    \A s \in ScanId :
        LET walk == pages[s]
        IN  /\ \A i, j \in DOMAIN walk : walk[i].cursor = walk[j].cursor => i = j
            /\ \A i \in DOMAIN walk :
                   i + 1 \in DOMAIN walk => walk[i + 1].cursor = walk[i].next
            /\ walk # <<>> => scans[s].next = walk[Len(walk)].next
            /\ scans[s].fromStart =>
                   Nil = IF walk = <<>> THEN scans[s].next ELSE walk[1].cursor

\* What LatestSyncStatus tells after any mix of crashes, restarts, purges and
\* imports.  A run, or its scan, is shown exhausted only by the run whose page
\* ended the scan; a completed run committed a page and has no error, a failed
\* one says why; the newest attempt is never shown on a scan another has
\* superseded, nor on one of another source; no evidence is invalid, and it
\* counts no order twice, none the ledger does not hold and none that no
\* committed page showed.
EvidenceReadable ==
    /\ \A r \in RunId : Managed(r) =>
          LET evidence == ScanEvidence(r)
              walk == pages[runs[r].scan]
              members == Members(runs[r].scan)
          IN  /\ evidence.state # "invalid"
              /\ runs[r].exhausted = "true" =>
                    /\ evidence.state = "cursor_exhausted"
                    /\ walk # <<>> /\ walk[Len(walk)].run = r
                    /\ walk[Len(walk)].next = Nil
              /\ evidence.state = "cursor_exhausted" =>
                    \E q \in members : runs[q].exhausted = "true"
              /\ \A q \in members : runs[q].source = runs[r].source
              /\ evidence.observed <= SumFunctionOnSet([q \in RunId |-> runs[q].records],
                                                      members)
              /\ evidence.notObserved >= 0
              /\ runs[r].status = "completed" => runs[r].pages > 0 /\ runs[r].code = ""
              /\ runs[r].status = "failed" => runs[r].code # ""
    /\ \A evidence \in LatestStatus.scan :
          /\ evidence.state # "superseded"
          /\ (evidence.state = "cursor_exhausted") = (LatestStatus.exhausted = "true")
    /\ \A x \in observed : x[2] \in orders

\* Ended evidence is history: no later attempt, restart, purge or recovery
\* sweep changes a scan that is superseded or exhausted, its pages, a run that
\* has ended, or a legacy run (no owner to tell whether it ended).
EndedEvidenceFrozen ==
    [][/\ \A s \in ScanId : scans[s].superseded \/ scans[s].state = "exhausted" =>
             scans'[s] = scans[s] /\ pages'[s] = pages[s]
       /\ \A r \in RunId : runs[r].status \in {"completed", "failed"} =>
             runs'[r] = runs[r]
       /\ \A r \in RunId : runs[r].status = "running" /\ runs[r].scan = 0 =>
             runs'[r] = runs[r]]_vars

\* Once the upstream history sends a scan back to a page it has committed, no
\* number of attempts, in whatever process, reads past it: the scan and the
\* checkpoint stay as they are until an explicit restart supersedes the scan.
LoopedScanWaitsForRestart ==
    [][\A s \in ScanId : Live(s) /\ scans[s].next \in Visited(s) =>
           /\ pages'[s] = pages[s]
           /\ \/ scans'[s] = scans[s] /\ checkpoint' = checkpoint
              \/ scans'[s].superseded /\ checkpoint' = Nil
                    /\ \E p \in Attempt : att[p].pc = "begin" /\ att[p].restart]_vars

\* What the tables mean to a reader, however many attempts produced them: one
\* sequential walk through the history (module ScanLedger).
Ledger == INSTANCE ScanLedger WITH
              at <- checkpoint,
              open <- \E s \in ScanId : Live(s),
              walked <- UNION {Visited(s) : s \in {t \in ScanId : Live(t)}},
              held <- orders

\* Overlapping, failing, cancelled and crashing attempts together implement
\* that one walk: each committed step takes the page at the head, moves the
\* head, and adds the page's orders, all at once, and nothing else moves it.
ImplementsScanLedger == Ledger!Spec

\* Every call of Sync returns or dies with its process, and so the lock is
\* always given up: a cursor loop, a spent budget, an ended context or a failing
\* database cannot keep an attempt going.
CallsReturn ==
    \A p \in Attempt : att[p].pc # "idle" ~> att[p].pc = "idle"

=============================================================================

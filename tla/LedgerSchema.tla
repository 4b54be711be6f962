---------------------------- MODULE LedgerSchema ----------------------------
(***************************************************************************)
(* Opening a ledger: store.Open and migrate (internal/store/sqlite.go and  *)
(* the migrations beside it).                                              *)
(*                                                                         *)
(* Every command and every MCP server opens the same SQLite file and runs  *)
(* the same list of statements on it, each committed on its own except     *)
(* the last five, which are transactions.  Several processes may be at     *)
(* different places of the list at once, on a file that is new or was left *)
(* by any older release, and each may be stopped anywhere.  A statement,   *)
(* or a transaction that takes the write lock before it reads, is one      *)
(* action; the price migration reads first, so it is two.                  *)
(*                                                                         *)
(* An element stands for the tables, columns and indexes a step adds; the  *)
(* nine columns added with version 4 are one element, and two of           *)
(* sync_runs with version 13.  File modes, paths and pragmas are left out. *)
(*                                                                         *)
(* UncheckedColumn, RebuildAlways, LegacyRowsTrusted and VersionOnly are   *)
(* not used by the specification: each is a plausible mistake in the       *)
(* operator next to it.                                                    *)
(***************************************************************************)
EXTENDS CategoryTables

CONSTANTS
    Opener,           \* processes that open the ledger
    LegacyVersion,    \* versions an existing file may be at; 0 is a new file
    LegacyPrices,     \* identities of its price observations
    LegacyCategories, \* sets of category cache rows it may hold
    NewPrices,        \* identities of price observations recorded later
    NewCategories,    \* category rows saved later
    MaxOpens          \* bound on the opens of a process

ASSUME SchemaAssumption ==
    /\ LegacyVersion \subseteq 0..18
    /\ LegacyPrices \cap NewPrices = {}
    /\ MaxOpens \in Nat

VARIABLES
    versions,   \* schema_migrations
    elements,   \* tables, columns and indexes present
    prices,     \* product_price_observations
    opener,     \* locals of each Open
    opens       \* opens started by each process

vars == <<versions, elements, prices, cached, observed, opener, opens>>

-----------------------------------------------------------------------------
(* The list of migrate.                                                    *)

Create(table, columns) ==
    [do |-> "create", makes |-> {table} \cup columns, key |-> table, version |-> 0]
Mark(v) == [do |-> "mark", makes |-> {}, key |-> "", version |-> v]
Column(c) == [do |-> "column", makes |-> {c}, key |-> c, version |-> 0]
Locked(v, new) == [do |-> "locked", makes |-> new, key |-> "", version |-> v]
Other(name) == [do |-> name, makes |-> {}, key |-> "", version |-> 0]

\* The transactions of the four newest versions.
SyncObservations == Locked(15, {"sync_run_observed_orders"})
SyncCoverage == Locked(16, {"sync_coverage"})
SyncScans == Locked(17, {"sync_scans"})
SyncScanSupersession == Locked(18, {"superseded_at"})

Steps == <<
    Create("sync_runs", {}), Mark(1),
    Create("orders", {}), Mark(2),
    Create("sync_checkpoint", {}), Mark(3),
    Column("order_columns"), Column("history_complete"),
    Other("classify"), Mark(4), Mark(5),
    Create("product_categories", {"category_path"}), Mark(6),
    Column("category_path"), Mark(7), Mark(8),
    Create("product_price_observations", {}), Mark(9),
    Create("product_price_watchlist", {}), Mark(10), Mark(11),
    Create("product_category_observations", {}), Other("seed"), Mark(12),
    Column("sync_evidence"), Mark(13),
    Other("rebuild"),
    SyncObservations, SyncCoverage, SyncScans, SyncScanSupersession >>

Opened == Len(Steps) + 1
Closed == 0

\* What a ledger recorded at version v has.
Needs(v) ==
    CASE v = 1 -> {"sync_runs"}
      [] v = 2 -> {"orders"}
      [] v = 3 -> {"sync_checkpoint"}
      [] v = 4 -> {"order_columns"}
      [] v = 6 -> {"product_categories"}
      [] v = 7 -> {"category_path"}
      [] v = 9 -> {"product_price_observations"}
      [] v = 10 -> {"product_price_watchlist"}
      [] v = 11 -> {"history_complete"}
      [] v = 12 -> {"product_category_observations"}
      [] v = 13 -> {"sync_evidence"}
      [] v = 14 -> {"price_evidence"}
      [] v = 15 -> {"sync_run_observed_orders"}
      [] v = 16 -> {"sync_coverage"}
      [] v = 17 -> {"sync_scans"}
      [] v = 18 -> {"superseded_at"}
      [] OTHER -> {}

AllVersions == 1..18
AllElements == UNION {Needs(v) : v \in AllVersions}

Provenance == {"none", "unknown_legacy", "observed"}

\* cached and observed are typed by what is saved in them.
TypeOK ==
    /\ versions \subseteq AllVersions
    /\ elements \subseteq AllElements
    /\ prices \subseteq [id: LegacyPrices \cup NewPrices, provenance: Provenance]
    /\ opener \in [Opener -> [at: 0..Opened, saw: {"nothing", "missing", "old table"},
                              stale: BOOLEAN, contended: BOOLEAN, failed: BOOLEAN]]

Idle == [at |-> Closed, saw |-> "nothing", stale |-> FALSE,
         contended |-> FALSE, failed |-> FALSE]

\* An older release left every version up to its own with what it needs.  Its
\* rows carry no provenance before version 14, no path before version 7 and
\* no observation before version 12.
Init ==
    /\ \E v \in LegacyVersion, c \in LegacyCategories :
           /\ versions = 1..v
           /\ elements = UNION {Needs(u) : u \in 1..v}
           /\ prices = IF v < 9 THEN {}
                       ELSE {[id |-> i, provenance |->
                                 IF v < 14 THEN "none" ELSE "unknown_legacy"] :
                             i \in LegacyPrices}
           /\ cached = IF v < 6 THEN {}
                       ELSE IF v < 7 THEN {[r EXCEPT !.path = <<>>] : r \in c}
                       ELSE c
           /\ observed = IF v < 12 THEN {} ELSE cached
    /\ opener = [p \in Opener |-> Idle]
    /\ opens = [p \in Opener |-> 0]

-----------------------------------------------------------------------------
(* Open, statement by statement.                                           *)

Opening(p) == opener[p].at \in 1..Len(Steps)
IsOpen(p) == opener[p].at = Opened
At(p) == Steps[opener[p].at]

\* A commit of p that changed pages makes the read snapshots of the other
\* processes stale.
Commit(p, local, changed) ==
    opener' = [q \in Opener |->
                  IF q = p THEN local
                  ELSE IF changed /\ opener[q].at # Closed
                  THEN [opener[q] EXCEPT !.stale = TRUE, !.contended = TRUE]
                  ELSE opener[q]]

Next1(p) == [opener[p] EXCEPT !.at = @ + 1, !.saw = "nothing"]
Refused(p) == [opener[p] EXCEPT !.at = Closed, !.saw = "nothing", !.failed = TRUE]

StartOpen(p) ==
    /\ opener[p].at = Closed
    /\ opens[p] < MaxOpens
    /\ opens' = [opens EXCEPT ![p] = @ + 1]
    /\ opener' = [opener EXCEPT ![p] = [Idle EXCEPT !.at = 1]]
    /\ UNCHANGED <<versions, elements, prices, cached, observed>>

\* CREATE TABLE IF NOT EXISTS adds nothing to a table that is there.
CreateTable(p) ==
    /\ Opening(p) /\ At(p).do = "create"
    /\ LET new == IF At(p).key \in elements THEN {} ELSE At(p).makes
       IN  /\ elements' = elements \cup new
           /\ Commit(p, Next1(p), new # {})
    /\ UNCHANGED <<versions, prices, cached, observed, opens>>

\* INSERT OR IGNORE INTO schema_migrations.
MarkVersion(p) ==
    /\ Opening(p) /\ At(p).do = "mark"
    /\ versions' = versions \cup {At(p).version}
    /\ Commit(p, Next1(p), At(p).version \notin versions)
    /\ UNCHANGED <<elements, prices, cached, observed, opens>>

\* ensureColumn looks for the column ...
UncheckedColumn(p) == FALSE
ColumnPresent(p) == At(p).key \in elements

InspectColumn(p) ==
    /\ Opening(p) /\ At(p).do = "column" /\ opener[p].saw = "nothing"
    /\ opener' = [opener EXCEPT ![p] =
                     IF ColumnPresent(p) THEN Next1(p) ELSE [@ EXCEPT !.saw = "missing"]]
    /\ UNCHANGED <<versions, elements, prices, cached, observed, opens>>

\* ... and adds it by a statement of its own, which fails on a duplicate.
AddColumn(p) ==
    /\ Opening(p) /\ At(p).do = "column" /\ opener[p].saw = "missing"
    /\ IF At(p).key \in elements
       THEN /\ Commit(p, Refused(p), FALSE)
            /\ UNCHANGED elements
       ELSE /\ elements' = elements \cup At(p).makes
            /\ Commit(p, Next1(p), TRUE)
    /\ UNCHANGED <<versions, prices, cached, observed, opens>>

\* The UPDATE of membership lines writes when the ledger has such lines.
ClassifyItems(p) ==
    /\ Opening(p) /\ At(p).do = "classify"
    /\ \E lines \in BOOLEAN : Commit(p, Next1(p), lines)
    /\ UNCHANGED <<versions, elements, prices, cached, observed, opens>>

\* INSERT OR IGNORE of every cached row that has no observation yet.
SeedObservations(p) ==
    /\ Opening(p) /\ At(p).do = "seed"
    /\ Seed
    /\ Commit(p, Next1(p), Unseeded # {})
    /\ UNCHANGED <<versions, elements, prices, opens>>

\* migratePriceEvidence reads whether version 14 is recorded in a deferred
\* transaction ...
RebuildAlways == FALSE
PricesRebuilt == 14 \in versions

ReadRebuilt(p) ==
    /\ Opening(p) /\ At(p).do = "rebuild" /\ opener[p].saw = "nothing"
    /\ opener' = [opener EXCEPT ![p] =
                     IF PricesRebuilt THEN Next1(p)
                     ELSE [@ EXCEPT !.saw = "old table", !.stale = FALSE]]
    /\ UNCHANGED <<versions, elements, prices, cached, observed, opens>>

LegacyRowsTrusted == {[r EXCEPT !.provenance = "observed"] : r \in prices}
CopiedRows == {[r EXCEPT !.provenance = "unknown_legacy"] : r \in prices}

\* ... and can only take the write lock when no other process has written
\* since; the table is then rebuilt and the version recorded in one commit.
RebuildPrices(p) ==
    /\ Opening(p) /\ At(p).do = "rebuild" /\ opener[p].saw = "old table"
    /\ IF opener[p].stale
       THEN /\ Commit(p, Refused(p), FALSE)
            /\ UNCHANGED <<versions, elements, prices>>
       ELSE /\ prices' = CopiedRows
            /\ elements' = elements \cup Needs(14)
            /\ versions' = versions \cup {14}
            /\ Commit(p, Next1(p), TRUE)
    /\ UNCHANGED <<cached, observed, opens>>

\* The later migrations write a row of schema_migrations before they read.
VersionOnly(p) == elements
WithMigration(p) ==
    IF At(p).version \in versions THEN elements ELSE elements \cup At(p).makes

LockedMigration(p) ==
    /\ Opening(p) /\ At(p).do = "locked"
    /\ versions' = versions \cup {At(p).version}
    /\ elements' = WithMigration(p)
    /\ Commit(p, Next1(p), At(p).version \notin versions)
    /\ UNCHANGED <<prices, cached, observed, opens>>

\* A cancelled context, another failure or the end of the process rolls an
\* open transaction back.
AbandonOpen(p) ==
    /\ Opening(p)
    /\ opener' = [opener EXCEPT ![p] = Idle]
    /\ UNCHANGED <<versions, elements, prices, cached, observed, opens>>

CloseLedger(p) ==
    /\ IsOpen(p)
    /\ opener' = [opener EXCEPT ![p] = Idle]
    /\ UNCHANGED <<versions, elements, prices, cached, observed, opens>>

\* RecordPriceObservations by a process that has the ledger open.
ObservePrice(p) ==
    /\ IsOpen(p)
    /\ \E i \in NewPrices \ {r.id : r \in prices} :
           prices' = prices \cup {[id |-> i, provenance |-> "observed"]}
    /\ Commit(p, opener[p], TRUE)
    /\ UNCHANGED <<versions, elements, cached, observed, opens>>

\* A process that has it open saves a category outcome.
SaveCategory(p) ==
    /\ IsOpen(p)
    /\ \E r \in NewCategories : Save(r)
    /\ Commit(p, opener[p], TRUE)
    /\ UNCHANGED <<versions, elements, prices, opens>>

MigrationStep(p) ==
    \/ CreateTable(p)
    \/ MarkVersion(p)
    \/ InspectColumn(p)
    \/ AddColumn(p)
    \/ ClassifyItems(p)
    \/ SeedObservations(p)
    \/ ReadRebuilt(p)
    \/ RebuildPrices(p)
    \/ LockedMigration(p)

OpenStep(p) ==
    \/ StartOpen(p)
    \/ MigrationStep(p)
    \/ AbandonOpen(p)
    \/ CloseLedger(p)
    \/ ObservePrice(p)
    \/ SaveCategory(p)

Next == \E p \in Opener : OpenStep(p)

Spec == Init /\ [][Next]_vars

-----------------------------------------------------------------------------

\* A price row keeps its identity and what is known about where it came from.
SameRow(r, s) ==
    /\ s.id = r.id
    /\ \/ s.provenance = r.provenance
       \/ r.provenance = "none" /\ s.provenance = "unknown_legacy"

\* migratePriceEvidence rebuilds the table that other processes write to:
\* whatever is interrupted or runs twice, no recorded price is lost and none
\* is given a source class it was not observed with.
PriceRowsSurvive == [][\A r \in prices : \E s \in prices' : SameRow(r, s)]_vars

\* What a row of schema_migrations stands for is in the file.
VersionsEarned ==
    /\ \A v \in versions : Needs(v) \subseteq elements
    /\ 12 \in versions => Unseeded = {}

\* A version recorded in schema_migrations is a promise: its tables and columns
\* are there, also after an open that stopped between two statements, and from
\* version 12 on every category outcome the cache holds is in the append-only
\* observations.  Open only returns a ledger whose schema is complete, whatever
\* release left the file and whoever else was opening it.
SchemaIsEarned ==
    /\ VersionsEarned
    /\ \A p \in Opener : IsOpen(p) =>
           /\ versions = AllVersions
           /\ elements = AllElements
           /\ \A r \in prices : r.provenance # "none"

\* A migration statement only fails when another process wrote to the file
\* during the open: an open that is alone succeeds from whatever an earlier
\* one left behind.
FailureMeansContention ==
    \A p \in Opener : opener[p].failed => opener[p].contended

=============================================================================

---------------------------- MODULE Store_proofs ----------------------------
(***************************************************************************)
(* Theorems about the files of the package store: the schema a ledger is   *)
(* opened with (LedgerSchema), the ledger an account is opened with        *)
(* (AccountLedger), and the watchlist kept in it (PriceWatch).             *)
(*                                                                         *)
(* Each of the three has an inductive invariant of its own: IInv,          *)
(* AccountIInv and WatchIInv.                                              *)
(***************************************************************************)
EXTENDS LedgerSchema, AccountLedger, PriceWatch, FiniteSetTheorems, TLAPS

-----------------------------------------------------------------------------
(* The inductive invariant.                                                *)

\* What step i has achieved stays so, in a file with versions vs, elements es and
\* unseeded rows un.
Achieved(i, vs, es, un) ==
    /\ Steps[i].do \in {"create", "column"} => Steps[i].key \in es
    /\ Steps[i].do \in {"mark", "locked"} => Steps[i].version \in vs
    /\ Steps[i].do = "seed" => un = {}
    /\ Steps[i].do = "rebuild" => 14 \in vs

Passed(at, vs, es, un) == \A i \in 1..31 : i < at => Achieved(i, vs, es, un)

\* The locals o of an open: it has passed what precedes its place, and what it saw
\* in the file is so unless another process wrote since.
Sound(o, vs, es, un) ==
    /\ Passed(o.at, vs, es, un)
    /\ o.saw = "missing" => /\ o.at \in 1..31 /\ Steps[o.at].do = "column"
                            /\ Steps[o.at].key \in es => o.contended
    /\ o.saw = "old table" => /\ o.at \in 1..31 /\ Steps[o.at].do = "rebuild"
                              /\ 14 \in vs => o.stale
    /\ o.stale => o.contended
    /\ o.failed => o.contended

\* Before the table is rebuilt no row knows where it comes from, afterwards all do.
RowsKnown ==
    \A r \in prices : IF 14 \in versions THEN r.provenance # "none"
                      ELSE r.provenance = "none"

IInv ==
    /\ TypeOK /\ VersionsEarned /\ RowsKnown
    /\ \A p \in Opener : Sound(opener[p], versions, elements, Unseeded)

-----------------------------------------------------------------------------
(* The list of statements.                                                 *)

Local == [at: 0..32, saw: {"nothing", "missing", "old table"},
          stale: BOOLEAN, contended: BOOLEAN, failed: BOOLEAN]

LEMMA StepTable ==
    /\ Len(Steps) = 31 /\ Opened = 32
    /\ Steps[1] = Create("sync_runs", {}) /\ Steps[2] = Mark(1)
    /\ Steps[3] = Create("orders", {}) /\ Steps[4] = Mark(2)
    /\ Steps[5] = Create("sync_checkpoint", {}) /\ Steps[6] = Mark(3)
    /\ Steps[7] = Column("order_columns") /\ Steps[8] = Column("history_complete")
    /\ Steps[9] = Other("classify") /\ Steps[10] = Mark(4) /\ Steps[11] = Mark(5)
    /\ Steps[12] = Create("product_categories", {"category_path"})
    /\ Steps[13] = Mark(6) /\ Steps[14] = Column("category_path")
    /\ Steps[15] = Mark(7) /\ Steps[16] = Mark(8)
    /\ Steps[17] = Create("product_price_observations", {}) /\ Steps[18] = Mark(9)
    /\ Steps[19] = Create("product_price_watchlist", {}) /\ Steps[20] = Mark(10)
    /\ Steps[21] = Mark(11)
    /\ Steps[22] = Create("product_category_observations", {})
    /\ Steps[23] = Other("seed") /\ Steps[24] = Mark(12)
    /\ Steps[25] = Column("sync_evidence") /\ Steps[26] = Mark(13)
    /\ Steps[27] = Other("rebuild") /\ Steps[28] = SyncObservations
    /\ Steps[29] = SyncCoverage /\ Steps[30] = SyncScans
    /\ Steps[31] = SyncScanSupersession
BY DEF Steps, Opened

LEMMA PlaceIsOneOf ==
    ASSUME NEW i \in 1..31
    PROVE  i \in {1, 2, 3, 4, 5, 6, 7, 8, 9, 10, 11, 12, 13, 14, 15, 16, 17, 18, 19, 20,
                  21, 22, 23, 24, 25, 26, 27, 28, 29, 30, 31}
OBVIOUS

LEMMA NeedsTable ==
    /\ Needs(1) = {"sync_runs"} /\ Needs(2) = {"orders"} /\ Needs(3) = {"sync_checkpoint"}
    /\ Needs(4) = {"order_columns"} /\ Needs(5) = {} /\ Needs(6) = {"product_categories"}
    /\ Needs(7) = {"category_path"} /\ Needs(8) = {}
    /\ Needs(9) = {"product_price_observations"}
    /\ Needs(10) = {"product_price_watchlist"} /\ Needs(11) = {"history_complete"}
    /\ Needs(12) = {"product_category_observations"} /\ Needs(13) = {"sync_evidence"}
    /\ Needs(14) = {"price_evidence"} /\ Needs(15) = {"sync_run_observed_orders"}
    /\ Needs(16) = {"sync_coverage"} /\ Needs(17) = {"sync_scans"}
    /\ Needs(18) = {"superseded_at"}
BY DEF Needs

LEMMA ElementsTable ==
    {"sync_runs", "orders", "sync_checkpoint", "order_columns", "product_categories",
     "category_path", "product_price_observations", "product_price_watchlist",
     "history_complete", "product_category_observations", "sync_evidence",
     "price_evidence", "sync_run_observed_orders", "sync_coverage", "sync_scans",
     "superseded_at"} \subseteq AllElements
<1>1. \A v \in 1..18 : Needs(v) \subseteq AllElements
  BY DEF AllElements, AllVersions
<1> QED BY <1>1, NeedsTable

\* Which step does what.
LEMMA CreateSteps ==
    \A i \in {1, 3, 5, 12, 17, 19, 22} :
        Steps[i].do = "create" /\ Steps[i].key \in Steps[i].makes
BY StepTable DEF Create

LEMMA ColumnSteps ==
    \A i \in {7, 8, 14, 25} : /\ Steps[i].do = "column"
                              /\ Steps[i].makes = {Steps[i].key}
BY StepTable DEF Column

LEMMA MarkSteps ==
    /\ \A i \in {2, 4, 6, 10, 11, 13, 15, 16, 18, 20, 21, 24, 26} :
           Steps[i].do = "mark" /\ Steps[i].makes = {}
    /\ Steps[2].version = 1 /\ Steps[4].version = 2 /\ Steps[6].version = 3
    /\ Steps[10].version = 4 /\ Steps[11].version = 5 /\ Steps[13].version = 6
    /\ Steps[15].version = 7 /\ Steps[16].version = 8 /\ Steps[18].version = 9
    /\ Steps[20].version = 10 /\ Steps[21].version = 11 /\ Steps[24].version = 12
    /\ Steps[26].version = 13
<1>1. \A v : Mark(v).do = "mark" /\ Mark(v).makes = {} /\ Mark(v).version = v
  BY DEF Mark
<1>2. \A i \in {2, 4, 6, 10, 11} : Steps[i].do = "mark" /\ Steps[i].makes = {}
  BY <1>1, StepTable
<1>3. \A i \in {13, 15, 16, 18} : Steps[i].do = "mark" /\ Steps[i].makes = {}
  BY <1>1, StepTable
<1>4. \A i \in {20, 21, 24, 26} : Steps[i].do = "mark" /\ Steps[i].makes = {}
  BY <1>1, StepTable
<1>5. Steps[2].version = 1 /\ Steps[4].version = 2 /\ Steps[6].version = 3
  BY <1>1, StepTable
<1>6. Steps[10].version = 4 /\ Steps[11].version = 5 /\ Steps[13].version = 6
  BY <1>1, StepTable
<1>7. Steps[15].version = 7 /\ Steps[16].version = 8 /\ Steps[18].version = 9
  BY <1>1, StepTable
<1>8. Steps[20].version = 10 /\ Steps[21].version = 11 /\ Steps[24].version = 12
  BY <1>1, StepTable
<1>9. Steps[26].version = 13
  BY <1>1, StepTable
<1> QED BY <1>2, <1>3, <1>4, <1>5, <1>6, <1>7, <1>8, <1>9

LEMMA OtherSteps ==
    /\ Steps[9].do = "classify" /\ Steps[23].do = "seed" /\ Steps[27].do = "rebuild"
    /\ \A i \in {9, 23, 27} : Steps[i].makes = {}
<1>1. \A name : Other(name).do = name /\ Other(name).makes = {}
  BY DEF Other
<1>2. Steps[9].do = "classify" /\ Steps[9].makes = {}
  BY <1>1, StepTable
<1>3. Steps[23].do = "seed" /\ Steps[23].makes = {}
  BY <1>1, StepTable
<1>4. Steps[27].do = "rebuild" /\ Steps[27].makes = {}
  BY <1>1, StepTable
<1> QED BY <1>2, <1>3, <1>4

LEMMA LockedSteps ==
    /\ \A i \in {28, 29, 30, 31} : Steps[i].do = "locked"
    /\ Steps[28].version = 15 /\ Steps[29].version = 16 /\ Steps[30].version = 17
    /\ Steps[31].version = 18
    /\ Steps[28].makes = Needs(15) /\ Steps[29].makes = Needs(16)
    /\ Steps[30].makes = Needs(17) /\ Steps[31].makes = Needs(18)
<1>1. \A v, new : /\ Locked(v, new).do = "locked" /\ Locked(v, new).makes = new
                  /\ Locked(v, new).version = v
  BY DEF Locked
<1>2. Steps[28].do = "locked" /\ Steps[28].version = 15 /\ Steps[28].makes = Needs(15)
  <2>1. Steps[28] = SyncObservations
    BY StepTable
  <2>2. SyncObservations = Locked(15, Needs(15))
    BY NeedsTable DEF SyncObservations
  <2> QED BY <1>1, <2>1, <2>2
<1>3. Steps[29].do = "locked" /\ Steps[29].version = 16 /\ Steps[29].makes = Needs(16)
  <2>1. Steps[29] = SyncCoverage
    BY StepTable
  <2>2. SyncCoverage = Locked(16, Needs(16))
    BY NeedsTable DEF SyncCoverage
  <2> QED BY <1>1, <2>1, <2>2
<1>4. Steps[30].do = "locked" /\ Steps[30].version = 17 /\ Steps[30].makes = Needs(17)
  <2>1. Steps[30] = SyncScans
    BY StepTable
  <2>2. SyncScans = Locked(17, Needs(17))
    BY NeedsTable DEF SyncScans
  <2> QED BY <1>1, <2>1, <2>2
<1>5. Steps[31].do = "locked" /\ Steps[31].version = 18 /\ Steps[31].makes = Needs(18)
  <2>1. Steps[31] = SyncScanSupersession
    BY StepTable
  <2>2. SyncScanSupersession = Locked(18, Needs(18))
    BY NeedsTable DEF SyncScanSupersession
  <2> QED BY <1>1, <2>1, <2>2
<1> QED BY <1>2, <1>3, <1>4, <1>5

LEMMA StepKinds ==
    ASSUME NEW i \in 1..31
    PROVE  /\ Steps[i].do = "create" => i \in {1, 3, 5, 12, 17, 19, 22}
           /\ Steps[i].do = "column" => i \in {7, 8, 14, 25}
           /\ Steps[i].do = "mark" =>
                  i \in {2, 4, 6, 10, 11, 13, 15, 16, 18, 20, 21, 24, 26}
           /\ Steps[i].do = "locked" => i \in {28, 29, 30, 31}
           /\ Steps[i].do = "rebuild" => i = 27
           /\ Steps[i].do = "seed" => i = 23
           /\ Steps[i].do \notin {"create", "column", "locked"} => Steps[i].makes = {}
<1>1. CASE i \in {1, 3, 5, 12, 17, 19, 22}
  <2>1. Steps[i].do = "create"
    BY <1>1, CreateSteps
  <2> QED BY <1>1, <2>1
<1>2. CASE i \in {7, 8, 14, 25}
  <2>1. Steps[i].do = "column"
    BY <1>2, ColumnSteps
  <2> QED BY <1>2, <2>1
<1>3. CASE i \in {2, 4, 6, 10, 11, 13, 15, 16, 18, 20, 21, 24, 26}
  <2>1. Steps[i].do = "mark" /\ Steps[i].makes = {}
    BY <1>3, MarkSteps
  <2> QED BY <1>3, <2>1
<1>4. CASE i \in {9, 23, 27}
  BY <1>4, OtherSteps
<1>5. CASE i \in {28, 29, 30, 31}
  <2>1. Steps[i].do = "locked"
    BY <1>5, LockedSteps
  <2> QED BY <1>5, <2>1
<1> QED BY <1>1, <1>2, <1>3, <1>4, <1>5

\* The versions steps record and the elements they add are those of the schema.
LEMMA MarkVersions ==
    ASSUME NEW i \in 1..31, Steps[i].do = "mark"
    PROVE  Steps[i].version \in AllVersions /\ Steps[i].version # 14
<1>1. i \in {2, 4, 6, 10, 11, 13, 15, 16, 18, 20, 21, 24, 26}
  BY StepKinds
<1> QED BY <1>1, MarkSteps DEF AllVersions

LEMMA LockedVersions ==
    ASSUME NEW i \in 1..31, Steps[i].do = "locked"
    PROVE  /\ Steps[i].version \in AllVersions /\ Steps[i].version \notin {12, 14}
           /\ Needs(Steps[i].version) = Steps[i].makes
<1>1. i \in {28, 29, 30, 31}
  BY StepKinds
<1> QED BY <1>1, LockedSteps DEF AllVersions

LEMMA KeysAreMade ==
    ASSUME NEW i \in 1..31, Steps[i].do \in {"create", "column"}
    PROVE  Steps[i].key \in Steps[i].makes
<1>1. i \in {1, 3, 5, 12, 17, 19, 22} \/ i \in {7, 8, 14, 25}
  BY StepKinds
<1> QED BY <1>1, CreateSteps, ColumnSteps

LEMMA MadeElements ==
    ASSUME NEW i \in 1..31
    PROVE  Steps[i].makes \subseteq AllElements
<1>1. CASE Steps[i].do = "create"
  <2>1. \A k \in {1, 3, 5, 12, 17, 19, 22} : Steps[k].makes \subseteq AllElements
    BY StepTable, ElementsTable DEF Create
  <2> QED BY <1>1, <2>1, StepKinds
<1>2. CASE Steps[i].do = "column"
  <2>1. \A k \in {7, 8, 14, 25} : Steps[k].makes \subseteq AllElements
    BY StepTable, ElementsTable DEF Column
  <2> QED BY <1>2, <2>1, StepKinds
<1>3. CASE Steps[i].do = "locked"
  <2>1. \A v \in AllVersions : Needs(v) \subseteq AllElements
    BY DEF AllElements
  <2> QED BY <1>3, <2>1, LockedVersions
<1>4. CASE Steps[i].do \notin {"create", "column", "locked"}
  BY <1>4, StepKinds
<1> QED BY <1>1, <1>2, <1>3, <1>4

\* A version is only recorded after the steps that make what it needs.
LEMMA MarksAreEarned ==
    ASSUME NEW i \in 1..31, Steps[i].do = "mark", NEW vs, NEW es, NEW un,
           Passed(i, vs, es, un)
    PROVE  /\ Needs(Steps[i].version) \subseteq es
           /\ Steps[i].version = 12 => un = {}
<1>1. \A j \in 1..31 : /\ j < i /\ Steps[j].do \in {"create", "column"} => Steps[j].key \in es
                       /\ j < i /\ Steps[j].do = "seed" => un = {}
  BY DEF Passed, Achieved
<1>2. /\ 1 < i => "sync_runs" \in es
      /\ 3 < i => "orders" \in es
      /\ 5 < i => "sync_checkpoint" \in es
      /\ 12 < i => "product_categories" \in es
      /\ 17 < i => "product_price_observations" \in es
      /\ 19 < i => "product_price_watchlist" \in es
      /\ 22 < i => "product_category_observations" \in es
  BY <1>1, StepTable DEF Create
<1>3. /\ 7 < i => "order_columns" \in es
      /\ 8 < i => "history_complete" \in es
      /\ 14 < i => "category_path" \in es
      /\ 25 < i => "sync_evidence" \in es
  BY <1>1, StepTable DEF Column
<1>4. 23 < i => un = {}
  BY <1>1, OtherSteps
<1>5. i \in {2, 4, 6, 10, 11, 13, 15, 16, 18, 20, 21, 24, 26}
  BY StepKinds
<1>6. CASE i \in {2, 4, 6, 10, 11}
  BY <1>2, <1>3, <1>6, MarkSteps, NeedsTable
<1>7. CASE i \in {13, 15, 16, 18}
  BY <1>2, <1>3, <1>7, MarkSteps, NeedsTable
<1>8. CASE i \in {20, 21, 24, 26}
  BY <1>2, <1>3, <1>4, <1>8, MarkSteps, NeedsTable
<1> QED BY <1>5, <1>6, <1>7, <1>8

\* An open that has passed every step has recorded every version.
LEMMA AllPassed ==
    ASSUME NEW vs, NEW es, NEW un, Passed(32, vs, es, un)
    PROVE  AllVersions \subseteq vs
<1>1. \A j \in 1..31 : /\ Steps[j].do \in {"mark", "locked"} => Steps[j].version \in vs
                       /\ Steps[j].do = "rebuild" => 14 \in vs
  BY DEF Passed, Achieved
<1>2. {1, 2, 3, 4, 5, 6, 7, 8, 9, 10, 11, 12, 13} \subseteq vs
  BY <1>1, MarkSteps
<1>3. 14 \in vs /\ {15, 16, 17, 18} \subseteq vs
  BY <1>1, OtherSteps, LockedSteps
<1> QED BY <1>2, <1>3 DEF AllVersions

-----------------------------------------------------------------------------
(* Steps of one process.                                                   *)

\* What every statement keeps in the file.
Grows(changed) ==
    /\ versions \subseteq versions' /\ elements \subseteq elements'
    /\ Unseeded = {} => Unseeded' = {}
    /\ changed = FALSE => elements' = elements /\ (14 \in versions' => 14 \in versions)

LEMMA OpenerTyped == TypeOK => opener \in [Opener -> Local]
BY StepTable DEF TypeOK, Local

\* The other processes only have to know that the file was written.
LEMMA OthersSound ==
    ASSUME IInv, NEW p \in Opener, NEW local \in Local, NEW changed \in BOOLEAN,
           Commit(p, local, changed), Grows(changed),
           Sound(local, versions', elements', Unseeded')
    PROVE  /\ opener' \in [Opener -> Local]
           /\ \A q \in Opener : Sound(opener'[q], versions', elements', Unseeded')
<1>1. opener \in [Opener -> Local]
  BY OpenerTyped DEF IInv
<1>2. opener' \in [Opener -> Local]
  BY <1>1 DEF Commit, Local
<1>3. ASSUME NEW q \in Opener, q # p
      PROVE  Sound(opener'[q], versions', elements', Unseeded')
  <2> DEFINE o == opener[q]
             o2 == opener'[q]
  <2> SUFFICES Sound(o2, versions', elements', Unseeded')
    OBVIOUS
  <2>1. o \in Local /\ o2 \in Local /\ Sound(o, versions, elements, Unseeded)
    BY <1>1, <1>2 DEF IInv
  <2>2. /\ o2.at = o.at /\ o2.saw = o.saw /\ o2.failed = o.failed
        /\ o.contended => o2.contended
        /\ o2.stale => o.stale \/ o2.contended
        /\ o.stale => o2.stale
        /\ changed /\ o.at # Closed => o2.stale /\ o2.contended
    BY <1>1, <1>3 DEF Commit, Local
  <2> HIDE DEF o, o2
  <2>3. Passed(o2.at, versions', elements', Unseeded')
    <3>1. Passed(o.at, versions, elements, Unseeded)
      BY <2>1 DEF Sound
    <3>2. Passed(o.at, versions', elements', Unseeded')
      BY <3>1 DEF Passed, Achieved, Grows
    <3> QED BY <2>2, <3>2
  <2>4. CASE changed /\ o.at # Closed
    BY <2>1, <2>2, <2>3, <2>4 DEF Sound
  <2>5. CASE o.at = Closed
    <3>1. o.at \notin 1..31
      BY <2>5 DEF Closed
    <3>2. o.saw # "missing" /\ o.saw # "old table"
      BY <2>1, <3>1 DEF Sound
    <3> QED BY <2>1, <2>2, <2>3, <3>2 DEF Sound
  <2>6. CASE changed = FALSE
    BY <2>1, <2>2, <2>3, <2>6 DEF Sound, Grows
  <2> QED BY <2>4, <2>5, <2>6
<1>4. opener'[p] = local
  BY <1>1 DEF Commit
<1> QED BY <1>2, <1>3, <1>4

\* A step that writes nothing but the locals of p.
LEMMA Assigned ==
    ASSUME TypeOK, NEW p \in Opener, NEW local, opener' = [opener EXCEPT ![p] = local]
    PROVE  Commit(p, local, FALSE)
BY DEF TypeOK, Commit

LEMMA Unwritten ==
    ASSUME UNCHANGED <<versions, elements, cached, observed>>, NEW changed
    PROVE  Grows(changed) /\ Unseeded' = Unseeded
BY DEF Grows, Unseeded

\* To pass a step is to have achieved it.
LEMMA Advances ==
    ASSUME NEW p \in Opener, IInv, Opening(p), NEW changed, Grows(changed),
           Achieved(opener[p].at, versions', elements', Unseeded')
    PROVE  Next1(p) \in Local /\ Sound(Next1(p), versions', elements', Unseeded')
<1> DEFINE o == opener[p]
           o2 == Next1(p)
<1>1. o \in Local /\ o.at \in 1..31 /\ Sound(o, versions, elements, Unseeded)
  BY OpenerTyped, StepTable DEF IInv, Opening
<1>2. /\ o2 \in Local /\ o2.at = o.at + 1 /\ o2.saw = "nothing"
      /\ o2.stale = o.stale /\ o2.contended = o.contended /\ o2.failed = o.failed
  <2>1. o2 = [o EXCEPT !.at = o.at + 1, !.saw = "nothing"]
    BY DEF Next1
  <2>2. o.at + 1 \in 0..32
    BY <1>1
  <2> HIDE DEF o, o2
  <2> QED BY <1>1, <2>1, <2>2 DEF Local
<1>3. Achieved(o.at, versions', elements', Unseeded')
  OBVIOUS
<1> HIDE DEF o, o2
<1>4. Passed(o.at, versions', elements', Unseeded')
  <2>1. Passed(o.at, versions, elements, Unseeded)
    BY <1>1 DEF Sound
  <2> QED BY <2>1 DEF Passed, Achieved, Grows
<1>5. Passed(o2.at, versions', elements', Unseeded')
  <2>1. \A i \in 1..31 : i < o2.at => i < o.at \/ i = o.at
    BY <1>1, <1>2
  <2> QED BY <1>3, <1>4, <2>1 DEF Passed
<1>6. Sound(o2, versions', elements', Unseeded')
  BY <1>1, <1>2, <1>5 DEF Sound
<1> QED BY <1>2, <1>6 DEF o2

\* An open that ends has nothing to keep but that it failed for a reason.
LEMMA Ends ==
    ASSUME NEW o \in Local, o.at = 0, o.saw = "nothing", o.stale => o.contended,
           o.failed => o.contended, NEW vs, NEW es, NEW un
    PROVE  Sound(o, vs, es, un)
BY DEF Sound, Passed

\* What is left to show of a step that writes to the file.
LEMMA StepKeeps ==
    ASSUME IInv, NEW p \in Opener, NEW local \in Local, NEW changed \in BOOLEAN,
           Commit(p, local, changed), Grows(changed),
           Sound(local, versions', elements', Unseeded'),
           versions' \subseteq AllVersions, elements' \subseteq AllElements,
           prices' \subseteq [id: LegacyPrices \cup NewPrices, provenance: Provenance],
           VersionsEarned', RowsKnown'
    PROVE  IInv'
<1>1. /\ opener' \in [Opener -> Local]
      /\ \A q \in Opener : Sound(opener'[q], versions', elements', Unseeded')
  BY OthersSound
<1>2. TypeOK'
  BY <1>1, StepTable DEF TypeOK, Local
<1> QED BY <1>1, <1>2 DEF IInv

\* ... and of one that does not.
LEMMA LocalStepKeeps ==
    ASSUME IInv, NEW p \in Opener, NEW local \in Local,
           opener' = [opener EXCEPT ![p] = local],
           Sound(local, versions, elements, Unseeded),
           UNCHANGED <<versions, elements, prices, cached, observed>>
    PROVE  IInv'
<1>1. Commit(p, local, FALSE)
  BY Assigned DEF IInv
<1>2. Grows(FALSE) /\ Unseeded' = Unseeded
  BY Unwritten
<1>3. Sound(local, versions', elements', Unseeded')
  BY <1>2
<1>4. VersionsEarned' /\ RowsKnown'
  BY <1>2 DEF IInv, VersionsEarned, RowsKnown
<1> QED BY <1>1, <1>2, <1>3, <1>4, StepKeeps DEF IInv, TypeOK

-----------------------------------------------------------------------------
(* The actions.                                                            *)

LEMMA Init_IInv == Init => IInv
<1> SUFFICES ASSUME Init PROVE IInv
  OBVIOUS
<1>1. PICK v \in LegacyVersion :
          /\ versions = 1..v
          /\ elements = UNION {Needs(u) : u \in 1..v}
          /\ prices = IF v < 9 THEN {}
                      ELSE {[id |-> i, provenance |->
                                IF v < 14 THEN "none" ELSE "unknown_legacy"] :
                            i \in LegacyPrices}
          /\ observed = IF v < 12 THEN {} ELSE cached
  BY DEF Init
<1>2. v \in 0..18
  BY SchemaAssumption
<1>3. versions \subseteq AllVersions
  BY <1>1, <1>2 DEF AllVersions
<1>4. elements \subseteq AllElements
  BY <1>1, <1>2 DEF AllElements, AllVersions
<1>5. /\ prices \subseteq [id: LegacyPrices \cup NewPrices, provenance: Provenance]
      /\ RowsKnown
  BY <1>1, <1>2 DEF Provenance, RowsKnown
<1>6. VersionsEarned
  <2>1. ASSUME 12 \in versions PROVE Unseeded = {}
    <3>1. observed = cached
      BY <1>1, <1>2, <2>1
    <3> QED BY <3>1 DEF Unseeded
  <2>2. \A u \in versions : Needs(u) \subseteq elements
    BY <1>1
  <2> QED BY <2>1, <2>2 DEF VersionsEarned
<1>7. opener = [p \in Opener |-> Idle]
  BY DEF Init
<1>8. Idle \in Local /\ Idle.at = 0 /\ Idle.saw = "nothing" /\ ~Idle.stale /\ ~Idle.failed
  BY DEF Idle, Local, Closed
<1>9. TypeOK
  BY <1>3, <1>4, <1>5, <1>7, <1>8, StepTable DEF TypeOK, Local
<1>10. \A p \in Opener : Sound(opener[p], versions, elements, Unseeded)
  BY <1>7, <1>8, Ends
<1> QED BY <1>5, <1>6, <1>9, <1>10 DEF IInv

LEMMA IdleSound ==
    ASSUME NEW vs, NEW es, NEW un
    PROVE  Idle \in Local /\ Sound(Idle, vs, es, un)
<1>1. Idle \in Local /\ Idle.at = 0 /\ Idle.saw = "nothing" /\ ~Idle.stale /\ ~Idle.failed
  BY DEF Idle, Local, Closed
<1> QED BY <1>1, Ends

LEMMA RefusedSound ==
    ASSUME NEW p \in Opener, IInv, opener[p].contended, NEW vs, NEW es, NEW un
    PROVE  Refused(p) \in Local /\ Sound(Refused(p), vs, es, un)
<1> DEFINE o == opener[p]
           o2 == Refused(p)
<1>1. o \in Local
  BY OpenerTyped DEF IInv
<1>2. o2 = [o EXCEPT !.at = 0, !.saw = "nothing", !.failed = TRUE]
  BY DEF Refused, Closed
<1>3. o2 \in Local /\ o2.at = 0 /\ o2.saw = "nothing" /\ o2.contended = o.contended
  <2>1. 0 \in 0..32 /\ TRUE \in BOOLEAN
    OBVIOUS
  <2> HIDE DEF o, o2
  <2>2. o2.at = 0 /\ o2.saw = "nothing" /\ o2.contended = o.contended
    BY <1>1, <1>2 DEF Local
  <2>3. o2 \in Local
    BY <1>1, <1>2, <2>1 DEF Local
  <2> QED BY <2>2, <2>3
<1>4. o2.contended
  BY <1>3
<1> HIDE DEF o2
<1>5. Sound(o2, vs, es, un)
  BY <1>3, <1>4, Ends
<1> QED BY <1>3, <1>5 DEF o2

\* An open that stops, or has not begun, has no locals; a ledger is closed the same.
LEMMA ToIdle ==
    ASSUME IInv, NEW p \in Opener, opener' = [opener EXCEPT ![p] = Idle],
           UNCHANGED <<versions, elements, prices, cached, observed>>
    PROVE  IInv'
BY IdleSound, LocalStepKeeps

LEMMA StartOpenKeeps ==
    ASSUME IInv, NEW p \in Opener, StartOpen(p)
    PROVE  IInv'
<1> DEFINE o == [Idle EXCEPT !.at = 1]
<1>1. o \in Local /\ o.at = 1 /\ o.saw = "nothing" /\ ~o.stale /\ ~o.failed
  <2>1. Idle \in Local /\ Idle.saw = "nothing" /\ ~Idle.stale /\ ~Idle.failed
    BY DEF Idle, Local, Closed
  <2>2. ASSUME NEW r \in Local, NEW n \in 0..32, NEW r2, r2 = [r EXCEPT !.at = n]
        PROVE  /\ r2 \in Local /\ r2.at = n /\ r2.saw = r.saw /\ r2.stale = r.stale
               /\ r2.failed = r.failed
    BY <2>2 DEF Local
  <2> HIDE DEF o
  <2> QED BY <2>1, <2>2 DEF o
<1>2. opener' = [opener EXCEPT ![p] = o]
  BY DEF StartOpen
<1> HIDE DEF o
<1>3. Passed(o.at, versions, elements, Unseeded)
  BY <1>1 DEF Passed
<1>4. Sound(o, versions, elements, Unseeded)
  BY <1>1, <1>3 DEF Sound
<1> QED BY <1>1, <1>2, <1>4, LocalStepKeeps DEF StartOpen

LEMMA SameRows ==
    ASSUME IInv, prices' = prices, 14 \in versions' <=> 14 \in versions
    PROVE  /\ prices' \subseteq [id: LegacyPrices \cup NewPrices, provenance: Provenance]
           /\ RowsKnown'
BY DEF IInv, TypeOK, RowsKnown

LEMMA PlaceTyped ==
    ASSUME IInv, NEW p \in Opener, Opening(p)
    PROVE  opener[p].at \in 1..31
BY StepTable DEF Opening

LEMMA CreateTableKeeps ==
    ASSUME IInv, NEW p \in Opener, CreateTable(p)
    PROVE  IInv'
<1> DEFINE i == opener[p].at
           new == IF At(p).key \in elements THEN {} ELSE At(p).makes
           changed == new # {}
<1>1. /\ Opening(p) /\ Steps[i].do = "create" /\ elements' = elements \cup new
      /\ Commit(p, Next1(p), changed)
      /\ UNCHANGED <<versions, prices, cached, observed>>
  BY DEF CreateTable, At
<1>2. i \in 1..31 /\ At(p) = Steps[i]
  BY <1>1, PlaceTyped DEF At
<1>3. new \subseteq AllElements /\ Steps[i].key \in elements'
  BY <1>1, <1>2, MadeElements, KeysAreMade
<1>4. Unseeded' = Unseeded
  BY <1>1 DEF Unseeded
<1>5. Grows(changed) /\ changed \in BOOLEAN
  BY <1>1, <1>4 DEF Grows
<1>6. Achieved(i, versions', elements', Unseeded')
  BY <1>1, <1>3 DEF Achieved
<1>7. VersionsEarned'
  BY <1>1, <1>4 DEF IInv, VersionsEarned
<1>8. elements' \subseteq AllElements /\ versions' \subseteq AllVersions
  BY <1>1, <1>3 DEF IInv, TypeOK
<1> HIDE DEF changed, new, i
<1>9. Next1(p) \in Local /\ Sound(Next1(p), versions', elements', Unseeded')
  BY <1>1, <1>5, <1>6, Advances DEF i
<1>10. /\ prices' \subseteq [id: LegacyPrices \cup NewPrices, provenance: Provenance]
       /\ RowsKnown'
  BY <1>1, SameRows
<1> QED BY <1>1, <1>5, <1>7, <1>8, <1>9, <1>10, StepKeeps

LEMMA MarkVersionKeeps ==
    ASSUME IInv, NEW p \in Opener, MarkVersion(p)
    PROVE  IInv'
<1> DEFINE i == opener[p].at
           v == At(p).version
           changed == v \notin versions
<1>1. /\ Opening(p) /\ Steps[i].do = "mark" /\ versions' = versions \cup {v}
      /\ Commit(p, Next1(p), changed)
      /\ UNCHANGED <<elements, prices, cached, observed>>
  BY DEF MarkVersion, At
<1>2. i \in 1..31 /\ v = Steps[i].version
  BY <1>1, PlaceTyped DEF At
<1>3. v \in AllVersions /\ v # 14
  BY <1>1, <1>2, MarkVersions
<1>4. Unseeded' = Unseeded
  BY <1>1 DEF Unseeded
<1>5. Grows(changed) /\ changed \in BOOLEAN
  BY <1>1, <1>3, <1>4 DEF Grows
<1>6. Achieved(i, versions', elements', Unseeded')
  BY <1>1, <1>2 DEF Achieved
<1>7. VersionsEarned'
  <2>1. Passed(i, versions, elements, Unseeded)
    BY DEF IInv, Sound
  <2>2. Needs(v) \subseteq elements /\ (v = 12 => Unseeded = {})
    BY <1>1, <1>2, <2>1, MarksAreEarned
  <2> HIDE DEF v
  <2> QED BY <1>1, <1>4, <2>2 DEF IInv, VersionsEarned
<1>8. elements' \subseteq AllElements /\ versions' \subseteq AllVersions
  BY <1>1, <1>3 DEF IInv, TypeOK
<1>9. 14 \in versions' <=> 14 \in versions
  BY <1>1, <1>3
<1> HIDE DEF changed, v, i
<1>10. Next1(p) \in Local /\ Sound(Next1(p), versions', elements', Unseeded')
  BY <1>1, <1>5, <1>6, Advances DEF i
<1>11. /\ prices' \subseteq [id: LegacyPrices \cup NewPrices, provenance: Provenance]
       /\ RowsKnown'
  BY <1>1, <1>9, SameRows
<1> QED BY <1>1, <1>5, <1>7, <1>8, <1>10, <1>11, StepKeeps

LEMMA InspectColumnKeeps ==
    ASSUME IInv, NEW p \in Opener, InspectColumn(p)
    PROVE  IInv'
<1> DEFINE i == opener[p].at
           seen == [opener[p] EXCEPT !.saw = "missing"]
<1>1. /\ Opening(p) /\ Steps[i].do = "column"
      /\ UNCHANGED <<versions, elements, prices, cached, observed>>
  BY DEF InspectColumn, At
<1>2. i \in 1..31 /\ opener[p] \in Local
  BY <1>1, PlaceTyped, OpenerTyped DEF IInv
<1>3. CASE Steps[i].key \in elements
  <2>1. opener' = [opener EXCEPT ![p] = Next1(p)]
    BY <1>3 DEF InspectColumn, ColumnPresent, At
  <2>2. Grows(FALSE) /\ Unseeded' = Unseeded
    BY <1>1, Unwritten
  <2>3. Achieved(i, versions', elements', Unseeded')
    BY <1>1, <1>3 DEF Achieved
  <2>4. Next1(p) \in Local /\ Sound(Next1(p), versions', elements', Unseeded')
    BY <1>1, <2>2, <2>3, Advances
  <2>5. Sound(Next1(p), versions, elements, Unseeded)
    BY <1>1, <2>2, <2>4
  <2> QED BY <1>1, <2>1, <2>4, <2>5, LocalStepKeeps
<1>4. CASE Steps[i].key \notin elements
  <2>1. opener' = [opener EXCEPT ![p] = seen]
    BY <1>4 DEF InspectColumn, ColumnPresent, At
  <2>2. /\ seen \in Local /\ seen.at = i /\ seen.saw = "missing"
        /\ seen.stale = opener[p].stale /\ seen.contended = opener[p].contended
        /\ seen.failed = opener[p].failed
    BY <1>2 DEF Local
  <2>3. Sound(opener[p], versions, elements, Unseeded)
    BY DEF IInv
  <2> HIDE DEF seen
  <2>4. Sound(seen, versions, elements, Unseeded)
    BY <1>1, <1>2, <1>4, <2>2, <2>3 DEF Sound
  <2> QED BY <1>1, <2>1, <2>2, <2>4, LocalStepKeeps
<1> QED BY <1>3, <1>4

LEMMA AddColumnKeeps ==
    ASSUME IInv, NEW p \in Opener, AddColumn(p)
    PROVE  IInv'
<1> DEFINE i == opener[p].at
<1>1. /\ Opening(p) /\ Steps[i].do = "column" /\ opener[p].saw = "missing"
      /\ UNCHANGED <<versions, prices, cached, observed>>
  BY DEF AddColumn, At
<1>2. i \in 1..31 /\ opener[p] \in Local /\ At(p) = Steps[i]
  BY <1>1, PlaceTyped, OpenerTyped DEF IInv, At
<1>3. Unseeded' = Unseeded
  BY <1>1 DEF Unseeded
<1>4. /\ prices' \subseteq [id: LegacyPrices \cup NewPrices, provenance: Provenance]
      /\ RowsKnown'
  BY <1>1, SameRows
<1>5. CASE Steps[i].key \in elements
  <2>1. Commit(p, Refused(p), FALSE) /\ elements' = elements
    BY <1>2, <1>5 DEF AddColumn
  <2>2. opener[p].contended
    BY <1>1, <1>5 DEF IInv, Sound
  <2>3. Refused(p) \in Local /\ Sound(Refused(p), versions', elements', Unseeded')
    BY <2>2, RefusedSound
  <2>4. Grows(FALSE)
    BY <1>1, <2>1, Unwritten
  <2>5. VersionsEarned'
    BY <1>1, <1>3, <2>1 DEF IInv, VersionsEarned
  <2> QED BY <1>1, <1>4, <2>1, <2>3, <2>4, <2>5, StepKeeps DEF IInv, TypeOK
<1>6. CASE Steps[i].key \notin elements
  <2>1. Commit(p, Next1(p), TRUE) /\ elements' = elements \cup Steps[i].makes
    BY <1>2, <1>6 DEF AddColumn
  <2>2. Grows(TRUE)
    BY <1>1, <1>3, <2>1 DEF Grows
  <2>3. Achieved(i, versions', elements', Unseeded')
    BY <1>1, <1>2, <2>1, KeysAreMade DEF Achieved
  <2>4. Next1(p) \in Local /\ Sound(Next1(p), versions', elements', Unseeded')
    BY <1>1, <2>2, <2>3, Advances
  <2>5. VersionsEarned'
    BY <1>1, <1>3, <2>1 DEF IInv, VersionsEarned
  <2>6. elements' \subseteq AllElements /\ versions' \subseteq AllVersions
    BY <1>1, <1>2, <2>1, MadeElements DEF IInv, TypeOK
  <2> QED BY <1>4, <2>1, <2>2, <2>4, <2>5, <2>6, StepKeeps
<1> QED BY <1>5, <1>6

LEMMA ClassifyItemsKeeps ==
    ASSUME IInv, NEW p \in Opener, ClassifyItems(p)
    PROVE  IInv'
<1> DEFINE i == opener[p].at
<1>1. /\ Opening(p) /\ Steps[i].do = "classify"
      /\ UNCHANGED <<versions, elements, prices, cached, observed>>
  BY DEF ClassifyItems, At
<1>2. PICK lines \in BOOLEAN : Commit(p, Next1(p), lines)
  BY DEF ClassifyItems
<1>3. Grows(lines) /\ Unseeded' = Unseeded
  BY <1>1, Unwritten
<1>4. Achieved(i, versions', elements', Unseeded')
  BY <1>1 DEF Achieved
<1>5. Next1(p) \in Local /\ Sound(Next1(p), versions', elements', Unseeded')
  BY <1>1, <1>3, <1>4, Advances
<1>6. VersionsEarned' /\ RowsKnown'
  BY <1>1, <1>3 DEF IInv, VersionsEarned, RowsKnown
<1> QED BY <1>1, <1>2, <1>3, <1>5, <1>6, StepKeeps DEF IInv, TypeOK

\* After the statement no cached row is without its observation.
LEMMA SeedIsComplete == Seed => Unseeded' = {}
<1> SUFFICES ASSUME Seed, NEW r \in Unseeded' PROVE FALSE
  OBVIOUS
<1>1. r \in cached /\ \A o \in observed' : ObservationKey(o) # ObservationKey(r)
  BY DEF Unseeded, Seed, ObservationKey
<1>2. observed' = observed \cup Unseeded
  BY DEF Seed
<1>3. r \in Unseeded
  BY <1>1, <1>2 DEF Unseeded
<1> QED BY <1>1, <1>2, <1>3

LEMMA SeedObservationsKeeps ==
    ASSUME IInv, NEW p \in Opener, SeedObservations(p)
    PROVE  IInv'
<1> DEFINE i == opener[p].at
           changed == Unseeded # {}
<1>1. /\ Opening(p) /\ Steps[i].do = "seed" /\ Commit(p, Next1(p), changed)
      /\ UNCHANGED <<versions, elements, prices>>
  BY DEF SeedObservations, At
<1>2. Unseeded' = {}
  BY SeedIsComplete DEF SeedObservations
<1>3. Grows(changed) /\ changed \in BOOLEAN
  BY <1>1, <1>2 DEF Grows
<1>4. Achieved(i, versions', elements', Unseeded')
  BY <1>1, <1>2 DEF Achieved
<1> HIDE DEF changed
<1>5. Next1(p) \in Local /\ Sound(Next1(p), versions', elements', Unseeded')
  BY <1>1, <1>3, <1>4, Advances
<1>6. VersionsEarned' /\ RowsKnown'
  BY <1>1, <1>2 DEF IInv, VersionsEarned, RowsKnown
<1> QED BY <1>1, <1>3, <1>5, <1>6, StepKeeps DEF IInv, TypeOK

LEMMA ReadRebuiltKeeps ==
    ASSUME IInv, NEW p \in Opener, ReadRebuilt(p)
    PROVE  IInv'
<1> DEFINE i == opener[p].at
           begun == [opener[p] EXCEPT !.saw = "old table", !.stale = FALSE]
<1>1. /\ Opening(p) /\ Steps[i].do = "rebuild"
      /\ UNCHANGED <<versions, elements, prices, cached, observed>>
  BY DEF ReadRebuilt, At
<1>2. i \in 1..31 /\ opener[p] \in Local
  BY <1>1, PlaceTyped, OpenerTyped DEF IInv
<1>3. CASE 14 \in versions
  <2>1. opener' = [opener EXCEPT ![p] = Next1(p)]
    BY <1>3 DEF ReadRebuilt, PricesRebuilt
  <2>2. Grows(FALSE) /\ Unseeded' = Unseeded
    BY <1>1, Unwritten
  <2>3. Achieved(i, versions', elements', Unseeded')
    BY <1>1, <1>3 DEF Achieved
  <2>4. Next1(p) \in Local /\ Sound(Next1(p), versions', elements', Unseeded')
    BY <1>1, <2>2, <2>3, Advances
  <2>5. Sound(Next1(p), versions, elements, Unseeded)
    BY <1>1, <2>2, <2>4
  <2> QED BY <1>1, <2>1, <2>4, <2>5, LocalStepKeeps
<1>4. CASE 14 \notin versions
  <2>1. opener' = [opener EXCEPT ![p] = begun]
    BY <1>4 DEF ReadRebuilt, PricesRebuilt
  <2>2. /\ begun \in Local /\ begun.at = i /\ begun.saw = "old table"
        /\ begun.stale = FALSE /\ begun.contended = opener[p].contended
        /\ begun.failed = opener[p].failed
    BY <1>2 DEF Local
  <2>3. Sound(opener[p], versions, elements, Unseeded)
    BY DEF IInv
  <2> HIDE DEF begun
  <2>4. Sound(begun, versions, elements, Unseeded)
    BY <1>1, <1>2, <1>4, <2>2, <2>3 DEF Sound
  <2> QED BY <1>1, <2>1, <2>2, <2>4, LocalStepKeeps
<1> QED BY <1>3, <1>4

LEMMA RebuildPricesKeeps ==
    ASSUME IInv, NEW p \in Opener, RebuildPrices(p)
    PROVE  IInv'
<1> DEFINE i == opener[p].at
<1>1. /\ Opening(p) /\ Steps[i].do = "rebuild" /\ opener[p].saw = "old table"
      /\ UNCHANGED <<cached, observed>>
  BY DEF RebuildPrices, At
<1>2. i \in 1..31 /\ opener[p] \in Local
  BY <1>1, PlaceTyped, OpenerTyped DEF IInv
<1>3. Unseeded' = Unseeded
  BY <1>1 DEF Unseeded
<1>4. CASE opener[p].stale
  <2>1. Commit(p, Refused(p), FALSE) /\ UNCHANGED <<versions, elements, prices>>
    BY <1>4 DEF RebuildPrices
  <2>2. opener[p].contended
    BY <1>4 DEF IInv, Sound
  <2>3. Refused(p) \in Local /\ Sound(Refused(p), versions', elements', Unseeded')
    BY <2>2, RefusedSound
  <2>4. Grows(FALSE)
    BY <1>1, <2>1, Unwritten
  <2>5. VersionsEarned' /\ RowsKnown'
    BY <1>1, <1>3, <2>1 DEF IInv, VersionsEarned, RowsKnown
  <2> QED BY <2>1, <2>3, <2>4, <2>5, StepKeeps DEF IInv, TypeOK
<1>5. CASE ~opener[p].stale
  <2>1. /\ Commit(p, Next1(p), TRUE) /\ prices' = CopiedRows
        /\ elements' = elements \cup Needs(14) /\ versions' = versions \cup {14}
    BY <1>5 DEF RebuildPrices
  <2>2. Grows(TRUE)
    BY <1>3, <2>1 DEF Grows
  <2>3. Achieved(i, versions', elements', Unseeded')
    BY <1>1, <2>1 DEF Achieved
  <2>4. Next1(p) \in Local /\ Sound(Next1(p), versions', elements', Unseeded')
    BY <1>1, <2>2, <2>3, Advances
  <2>5. VersionsEarned'
    BY <1>3, <2>1 DEF IInv, VersionsEarned
  <2>6. 14 \in AllVersions /\ Needs(14) \subseteq AllElements
    BY DEF AllVersions, AllElements
  <2>7. elements' \subseteq AllElements /\ versions' \subseteq AllVersions
    BY <2>1, <2>6 DEF IInv, TypeOK
  <2>8. ASSUME NEW s \in prices'
        PROVE  /\ s \in [id: LegacyPrices \cup NewPrices, provenance: Provenance]
               /\ s.provenance = "unknown_legacy"
    <3>1. PICK r \in prices : s = [r EXCEPT !.provenance = "unknown_legacy"]
      BY <2>1 DEF CopiedRows
    <3>2. r \in [id: LegacyPrices \cup NewPrices, provenance: Provenance]
      BY DEF IInv, TypeOK
    <3>3. "unknown_legacy" \in Provenance
      BY DEF Provenance
    <3> QED BY <3>1, <3>2, <3>3
  <2>9. RowsKnown'
    BY <2>1, <2>8 DEF RowsKnown
  <2>10. prices' \subseteq [id: LegacyPrices \cup NewPrices, provenance: Provenance]
    BY <2>8
  <2> QED BY <2>1, <2>2, <2>4, <2>5, <2>7, <2>9, <2>10, StepKeeps
<1> QED BY <1>4, <1>5

LEMMA LockedMigrationKeeps ==
    ASSUME IInv, NEW p \in Opener, LockedMigration(p)
    PROVE  IInv'
<1> DEFINE i == opener[p].at
           v == At(p).version
           changed == v \notin versions
<1>1. /\ Opening(p) /\ Steps[i].do = "locked" /\ versions' = versions \cup {v}
      /\ elements' = IF v \in versions THEN elements ELSE elements \cup At(p).makes
      /\ Commit(p, Next1(p), changed)
      /\ UNCHANGED <<prices, cached, observed>>
  BY DEF LockedMigration, WithMigration, At
<1>2. i \in 1..31 /\ v = Steps[i].version /\ At(p).makes = Steps[i].makes
  BY <1>1, PlaceTyped DEF At
<1>3. v \in AllVersions /\ v \notin {12, 14} /\ Needs(v) = At(p).makes
  BY <1>1, <1>2, LockedVersions
<1>4. Unseeded' = Unseeded
  BY <1>1 DEF Unseeded
<1>5. Grows(changed) /\ changed \in BOOLEAN
  BY <1>1, <1>3, <1>4 DEF Grows
<1>6. Achieved(i, versions', elements', Unseeded')
  BY <1>1, <1>2 DEF Achieved
<1>7. VersionsEarned'
  BY <1>1, <1>3, <1>4 DEF IInv, VersionsEarned
<1>8. elements' \subseteq AllElements /\ versions' \subseteq AllVersions
  BY <1>1, <1>2, <1>3, MadeElements DEF IInv, TypeOK
<1>9. 14 \in versions' <=> 14 \in versions
  BY <1>1, <1>3
<1> HIDE DEF changed, v, i
<1>10. Next1(p) \in Local /\ Sound(Next1(p), versions', elements', Unseeded')
  BY <1>1, <1>5, <1>6, Advances DEF i
<1>11. /\ prices' \subseteq [id: LegacyPrices \cup NewPrices, provenance: Provenance]
       /\ RowsKnown'
  BY <1>1, <1>9, SameRows
<1> QED BY <1>1, <1>5, <1>7, <1>8, <1>10, <1>11, StepKeeps

\* A process that has the ledger open has every version in it.
LEMMA OpenIsComplete ==
    ASSUME IInv, NEW p \in Opener, IsOpen(p)
    PROVE  versions = AllVersions /\ elements = AllElements
<1>1. opener[p].at = 32
  BY StepTable DEF IsOpen
<1>2. Passed(32, versions, elements, Unseeded)
  BY <1>1 DEF IInv, Sound
<1>3. versions = AllVersions
  BY <1>2, AllPassed DEF IInv, TypeOK
<1>4. AllElements \subseteq elements
  BY <1>3 DEF AllElements, IInv, VersionsEarned
<1> QED BY <1>3, <1>4 DEF IInv, TypeOK

\* Rows written by such a process leave the locals of its open as they are.
LEMMA WriterSound ==
    ASSUME IInv, NEW p \in Opener, IsOpen(p), UNCHANGED <<versions, elements>>,
           Unseeded' = {}
    PROVE  /\ opener[p] \in Local /\ Grows(TRUE)
           /\ Sound(opener[p], versions', elements', Unseeded')
           /\ VersionsEarned'
<1>1. opener[p] \in Local /\ Sound(opener[p], versions, elements, Unseeded)
  BY OpenerTyped DEF IInv
<1>2. Grows(TRUE)
  BY DEF Grows
<1>3. Passed(opener[p].at, versions', elements', Unseeded')
  <2>1. Passed(opener[p].at, versions, elements, Unseeded)
    BY <1>1 DEF Sound
  <2> QED BY <2>1 DEF Passed, Achieved
<1>4. Sound(opener[p], versions', elements', Unseeded')
  BY <1>1, <1>3 DEF Sound
<1>5. VersionsEarned'
  BY DEF IInv, VersionsEarned
<1> QED BY <1>1, <1>2, <1>4, <1>5

LEMMA ObservePriceKeeps ==
    ASSUME IInv, NEW p \in Opener, ObservePrice(p)
    PROVE  IInv'
<1>1. /\ IsOpen(p) /\ Commit(p, opener[p], TRUE)
      /\ UNCHANGED <<versions, elements, cached, observed>>
  BY DEF ObservePrice
<1>2. PICK id \in NewPrices :
          prices' = prices \cup {[id |-> id, provenance |-> "observed"]}
  BY DEF ObservePrice
<1>3. versions = AllVersions /\ 12 \in versions /\ 14 \in versions
  BY <1>1, OpenIsComplete DEF AllVersions
<1>4. Unseeded = {} /\ Unseeded' = Unseeded
  BY <1>1, <1>3 DEF IInv, VersionsEarned, Unseeded
<1>5. /\ opener[p] \in Local /\ Grows(TRUE) /\ VersionsEarned'
      /\ Sound(opener[p], versions', elements', Unseeded')
  BY <1>1, <1>4, WriterSound
<1>6. /\ prices' \subseteq [id: LegacyPrices \cup NewPrices, provenance: Provenance]
      /\ RowsKnown'
  <2> DEFINE row == [id |-> id, provenance |-> "observed"]
  <2>1. row \in [id: LegacyPrices \cup NewPrices, provenance: Provenance]
    BY DEF Provenance
  <2>2. row.provenance = "observed" /\ prices' = prices \cup {row}
    BY <1>2
  <2> HIDE DEF row
  <2>3. prices' \subseteq [id: LegacyPrices \cup NewPrices, provenance: Provenance]
    BY <2>1, <2>2 DEF IInv, TypeOK
  <2>4. \A r \in prices : r.provenance # "none"
    BY <1>3 DEF IInv, RowsKnown
  <2>5. RowsKnown'
    BY <1>1, <1>3, <2>2, <2>4 DEF RowsKnown
  <2> QED BY <2>3, <2>5
<1> QED BY <1>1, <1>5, <1>6, StepKeeps DEF IInv, TypeOK

LEMMA SaveCategoryKeeps ==
    ASSUME IInv, NEW p \in Opener, SaveCategory(p)
    PROVE  IInv'
<1>1. IsOpen(p) /\ Commit(p, opener[p], TRUE) /\ UNCHANGED <<versions, elements, prices>>
  BY DEF SaveCategory
<1>2. PICK row \in NewCategories : Save(row)
  BY DEF SaveCategory
<1>3. versions = AllVersions /\ 12 \in versions
  BY <1>1, OpenIsComplete DEF AllVersions
<1>4. Unseeded = {}
  BY <1>3 DEF IInv, VersionsEarned
<1>5. Unseeded' = {}
  <2> SUFFICES ASSUME NEW r \in cached'
               PROVE  \E o \in observed' : ObservationKey(o) = ObservationKey(r)
    BY DEF Unseeded, ObservationKey
  <2>1. observed' = observed \cup {row} /\ (r = row \/ r \in cached)
    BY <1>2 DEF Save, WithObservation
  <2>2. r \in cached => \E o \in observed : ObservationKey(o) = ObservationKey(r)
    BY <1>4 DEF Unseeded
  <2> QED BY <2>1, <2>2
<1>6. /\ opener[p] \in Local /\ Grows(TRUE) /\ VersionsEarned'
      /\ Sound(opener[p], versions', elements', Unseeded')
  BY <1>1, <1>5, WriterSound
<1>7. RowsKnown'
  BY <1>1 DEF IInv, RowsKnown
<1> QED BY <1>1, <1>6, <1>7, StepKeeps DEF IInv, TypeOK

-----------------------------------------------------------------------------
(* The theorems.                                                           *)

LEMMA Next_IInv == IInv /\ [Next]_vars => IInv'
<1> SUFFICES ASSUME IInv, [Next]_vars PROVE IInv'
  OBVIOUS
<1>1. CASE UNCHANGED vars
  <2>1. /\ UNCHANGED <<versions, elements, prices, cached, observed, opener>>
        /\ Unseeded' = Unseeded
    BY <1>1 DEF vars, Unseeded
  <2> QED BY <2>1 DEF IInv, TypeOK, VersionsEarned, RowsKnown
<1>2. ASSUME NEW p \in Opener, OpenStep(p) PROVE IInv'
  <2>1. CASE StartOpen(p)        BY <2>1, StartOpenKeeps
  <2>2. CASE CreateTable(p)      BY <2>2, CreateTableKeeps
  <2>3. CASE MarkVersion(p)      BY <2>3, MarkVersionKeeps
  <2>4. CASE InspectColumn(p)    BY <2>4, InspectColumnKeeps
  <2>5. CASE AddColumn(p)        BY <2>5, AddColumnKeeps
  <2>6. CASE ClassifyItems(p)    BY <2>6, ClassifyItemsKeeps
  <2>7. CASE SeedObservations(p) BY <2>7, SeedObservationsKeeps
  <2>8. CASE ReadRebuilt(p)      BY <2>8, ReadRebuiltKeeps
  <2>9. CASE RebuildPrices(p)    BY <2>9, RebuildPricesKeeps
  <2>10. CASE LockedMigration(p) BY <2>10, LockedMigrationKeeps
  <2>11. CASE AbandonOpen(p)     BY <2>11, ToIdle DEF AbandonOpen
  <2>12. CASE CloseLedger(p)     BY <2>12, ToIdle DEF CloseLedger
  <2>13. CASE ObservePrice(p)    BY <2>13, ObservePriceKeeps
  <2>14. CASE SaveCategory(p)    BY <2>14, SaveCategoryKeeps
  <2> QED BY <1>2, <2>1, <2>2, <2>3, <2>4, <2>5, <2>6, <2>7, <2>8, <2>9, <2>10, <2>11,
             <2>12, <2>13, <2>14 DEF OpenStep, MigrationStep
<1> QED BY <1>1, <1>2 DEF Next

THEOREM Invariant == Spec => []IInv
BY Init_IInv, Next_IInv, PTL DEF Spec

(* Every value the statements of migrate leave in the file, and every local of an      *)
(* open, is of its type.                                                               *)
THEOREM TypeCorrect == Spec => []TypeOK
<1>1. IInv => TypeOK
  BY DEF IInv
<1> QED BY <1>1, Invariant, PTL

(* A recorded version keeps its promise and Open only returns a complete schema, for   *)
(* any number of processes that open the file at once and stop anywhere: a step is     *)
(* only passed when what it achieves is in the file, and nothing there is undone.      *)
THEOREM SchemaEarned == Spec => []SchemaIsEarned
<1>1. ASSUME IInv PROVE SchemaIsEarned
  <2>1. ASSUME NEW p \in Opener, IsOpen(p)
        PROVE  /\ versions = AllVersions /\ elements = AllElements
               /\ \A r \in prices : r.provenance # "none"
    <3>1. versions = AllVersions /\ elements = AllElements /\ 14 \in versions
      BY <1>1, <2>1, OpenIsComplete DEF AllVersions
    <3> QED BY <1>1, <3>1 DEF IInv, RowsKnown
  <2> QED BY <1>1, <2>1 DEF IInv, SchemaIsEarned
<1> QED BY <1>1, Invariant, PTL

(* A statement of an open fails only if another process wrote to the file meanwhile.   *)
THEOREM FailureContended == Spec => []FailureMeansContention
<1>1. ASSUME IInv PROVE FailureMeansContention
  BY <1>1 DEF IInv, Sound, FailureMeansContention
<1> QED BY <1>1, Invariant, PTL

(* The rebuild of the price table loses no row and marks none as better known than it  *)
(* was: it runs on rows of before version 14 only, as the lock it takes after its read *)
(* is refused when another process has rebuilt the table in between.                   *)
THEOREM PriceRowsKept == Spec => PriceRowsSurvive
<1> DEFINE Kept == \A r \in prices : \E s \in prices' : SameRow(r, s)
<1>1. ASSUME IInv, [Next]_vars PROVE Kept
  <2>1. CASE prices \subseteq prices'
    BY <2>1 DEF SameRow
  <2>2. ASSUME NEW p \in Opener, RebuildPrices(p), ~(prices \subseteq prices')
        PROVE  Kept
    <3>1. prices' = CopiedRows /\ ~opener[p].stale /\ opener[p].saw = "old table"
      BY <2>2 DEF RebuildPrices
    <3>2. 14 \notin versions
      BY <1>1, <3>1 DEF IInv, Sound
    <3>3. ASSUME NEW r \in prices
          PROVE  \E s \in prices' : SameRow(r, s)
      <4> DEFINE s == [r EXCEPT !.provenance = "unknown_legacy"]
      <4>1. s \in prices'
        BY <3>1 DEF CopiedRows
      <4>2. r.provenance = "none"
        BY <1>1, <3>2 DEF IInv, RowsKnown
      <4>3. r \in [id: LegacyPrices \cup NewPrices, provenance: Provenance]
        BY <1>1 DEF IInv, TypeOK
      <4>4. s.id = r.id /\ s.provenance = "unknown_legacy"
        BY <4>3
      <4> HIDE DEF s
      <4> QED BY <4>1, <4>2, <4>4 DEF SameRow
    <3> QED BY <3>3
  <2>3. \/ prices \subseteq prices'
        \/ \E p \in Opener : RebuildPrices(p)
    BY <1>1 DEF Next, OpenStep, MigrationStep, StartOpen, CreateTable, MarkVersion,
                InspectColumn, AddColumn, ClassifyItems, SeedObservations, ReadRebuilt,
                LockedMigration, AbandonOpen, CloseLedger, ObservePrice, SaveCategory, vars
  <2> QED BY <2>1, <2>2, <2>3
<1>2. IInv /\ [Next]_vars => [Kept]_vars
  BY <1>1
<1> QED BY <1>2, Invariant, PTL DEF Spec, PriceRowsSurvive

-----------------------------------------------------------------------------
(* Ledgers of accounts.                                                    *)

-----------------------------------------------------------------------------
(* The inductive invariant.                                                *)

\* The stages at which a call works with a key.
Keyed == {"mkdir", "look", "initialize", "bind", "publish_ledger", "validate",
          "open", "opened"}

NsOf(c) == [key |-> c.key, subject |-> c.subject]

\* What one call may rely on: the key it holds is the installed one, a first
\* setup that still finds no key has no account beside it, its temporary
\* database is its own, and what it validated stays valid.
CallOK(c) ==
    /\ c.pc \in Keyed => c.key = keyFile /\ keyFile \in Key
    /\ c.pc = "publish_key" /\ keyFile = Missing => dirs = {}
    /\ c.pc = "read_again" => dirs # {}
    /\ c.pc \in {"bind", "publish_ledger"} => c.temp \in Database
    /\ c.pc = "publish_ledger" => c.temp.binding = NsOf(c)
    /\ c.pc \in {"open", "opened"} =>
           ledger[NsOf(c)] \in Database /\ ledger[NsOf(c)].binding = NsOf(c)
    /\ c.outcome = "recovery_required" => lost
    /\ c.outcome \in {"unbound", "mismatch"} => copied

\* What the files satisfy by themselves.
FilesOK ==
    /\ OneKeyNamesAccounts
    /\ keyFile \in Key => \A d \in dirs : d.key = keyFile
    /\ ~lost => keyFile # Damaged /\ (keyFile = Missing => dirs = {})
    /\ WrittenLedgersAreOwn
    /\ ~copied => \A n \in Namespace : ledger[n] # Missing => ledger[n].binding = n

AccountIInv == AccountTypeOK /\ FilesOK /\ \A p \in Caller : CallOK(call[p])

-----------------------------------------------------------------------------
(* Preservation.                                                           *)

LEMMA FreshOK ==
  ASSUME NEW outcome \in Outcome,
         outcome = "recovery_required" => lost,
         outcome \in {"unbound", "mismatch"} => copied
  PROVE  Fresh(outcome) \in Call /\ CallOK(Fresh(outcome))
<1>1. (CHOOSE s \in Subject : TRUE) \in Subject
  BY FileAssumption
<1>2. QED
  BY <1>1 DEF Fresh, Call, CallOK, Keyed

LEMMA InitAccountIInv == AccountInit => AccountIInv
<1> SUFFICES ASSUME AccountInit PROVE AccountIInv
  OBVIOUS
<1>1. Fresh("none") \in Call /\ CallOK(Fresh("none"))
  BY FreshOK DEF Outcome
<1>2. AccountTypeOK
  BY <1>1 DEF AccountInit, AccountTypeOK, Fresh
<1>3. FilesOK
  BY FileAssumption DEF AccountInit, FilesOK, OneKeyNamesAccounts, WrittenLedgersAreOwn
<1>4. QED
  BY <1>1, <1>2, <1>3 DEF AccountInit, AccountIInv

\* A step that changes nothing but one call.
LEMMA LocalStep ==
  ASSUME AccountIInv, NEW p \in Caller, NEW c \in Call, CallOK(c), Becomes(p, c),
         UNCHANGED <<files, lost, copied>>
  PROVE  AccountIInv'
<1>1. \A q \in Caller : call'[q] = IF q = p THEN c ELSE call[q]
  BY DEF AccountIInv, AccountTypeOK, Becomes
<1>2. call' \in [Caller -> Call]
  BY DEF AccountIInv, AccountTypeOK, Becomes
<1>3. \A q \in Caller : CallOK(call'[q])
  BY <1>1 DEF AccountIInv
<1>4. \A q \in Caller : CallOK(call[q])'
  BY <1>3 DEF CallOK, files, NsOf
<1>5. FilesOK'
  BY DEF AccountIInv, FilesOK, OneKeyNamesAccounts, WrittenLedgersAreOwn, files
<1>6. AccountTypeOK'
  <2>1. \A q \in Caller : call'[q].pc \in Keyed => call'[q].key \in Key
    BY <1>3 DEF CallOK
  <2>2. QED
    BY <1>2, <2>1 DEF AccountIInv, AccountTypeOK, files, Keyed
<1>7. QED
  BY <1>4, <1>5, <1>6 DEF AccountIInv

\* A call that ends, for a reason there is.
LEMMA EndStep ==
  ASSUME AccountIInv, NEW p \in Caller, NEW outcome \in Outcome, End(p, outcome),
         outcome = "recovery_required" => lost,
         outcome \in {"unbound", "mismatch"} => copied,
         UNCHANGED <<files, lost, copied>>
  PROVE  AccountIInv'
  BY FreshOK, LocalStep DEF End

LEMMA CallFacts ==
  ASSUME AccountIInv, NEW p \in Caller
  PROVE  /\ call[p] \in Call /\ CallOK(call[p])
         /\ call[p].pc \in Keyed => NsOf(call[p]) \in Namespace
         /\ Ns(p) = NsOf(call[p])
  BY DEF AccountIInv, AccountTypeOK, Call, Keyed, NsOf, Ns, Namespace

\* A key that is read is the installed one.
LEMMA ReadKeyStep ==
  ASSUME AccountIInv, NEW p \in Caller, keyFile \in Key, UNCHANGED <<files, lost, copied>>,
         Becomes(p, [call[p] EXCEPT !.pc = "mkdir", !.key = keyFile])
  PROVE  AccountIInv'
<1> DEFINE c == [call[p] EXCEPT !.pc = "mkdir", !.key = keyFile]
<1>1. call[p] \in Call /\ CallOK(call[p])
  BY CallFacts
<1>2. c \in Call
  BY <1>1 DEF Call
<1>3. c.pc = "mkdir" /\ c.key = keyFile /\ c.outcome = call[p].outcome
  BY <1>1 DEF Call
<1> HIDE DEF c
<1>4. CallOK(c)
  BY <1>1, <1>3 DEF CallOK
<1>5. Becomes(p, c)
  BY DEF c
<1>6. QED
  BY <1>2, <1>4, <1>5, LocalStep

\* A call that moves on with what it holds.
LEMMA GotoStep ==
  ASSUME AccountIInv, NEW p \in Caller, NEW stage, Goto(p, stage),
         UNCHANGED <<files, lost, copied>>,
         \/ stage \in {"list", "read_published"}
         \/ stage = "publish_key" /\ dirs = {}
         \/ stage = "read_again" /\ dirs # {}
         \/ stage \in {"look", "initialize", "validate"} /\ call[p].pc \in Keyed
         \/ /\ stage = "open" /\ call[p].pc \in Keyed
            /\ ledger[Ns(p)] \in Database /\ ledger[Ns(p)].binding = Ns(p)
  PROVE  AccountIInv'
<1> DEFINE c == [call[p] EXCEPT !.pc = stage]
<1>1. call[p] \in Call /\ CallOK(call[p]) /\ Ns(p) = NsOf(call[p])
  BY CallFacts
<1>2. c \in Call
  BY <1>1 DEF Call
<1>3. /\ c.pc = stage /\ c.key = call[p].key /\ c.subject = call[p].subject
      /\ c.outcome = call[p].outcome
  BY <1>1 DEF Call
<1>4. Becomes(p, c)
  BY DEF Goto
<1> HIDE DEF c
<1>5. NsOf(c) = NsOf(call[p])
  BY <1>3 DEF NsOf
<1>6. CallOK(c)
  BY <1>1, <1>3, <1>5 DEF CallOK, Keyed
<1>7. QED
  BY <1>2, <1>4, <1>6, LocalStep

-----------------------------------------------------------------------------
(* Publications.                                                           *)

\* A key is published over no other, so the calls that hold one hold it still.
LEMMA PublishKeyStep ==
  ASSUME AccountIInv, NEW p \in Caller, PublishKey(p)
  PROVE  AccountIInv'
<1> DEFINE c == [call[p] EXCEPT !.pc = "read_published"]
<1>0. call[p] \in Call /\ CallOK(call[p]) /\ AccountTypeOK /\ FilesOK
  BY CallFacts DEF AccountIInv
<1>1. PICK k \in Key \ generated : generated' = generated \cup {k} /\ keyFile' = LinkedKey(k)
  BY DEF PublishKey
<1>2. \/ keyFile = Missing /\ keyFile' = k /\ dirs = {}
      \/ keyFile # Missing /\ keyFile' = keyFile
  BY <1>0, <1>1 DEF LinkedKey, PublishKey, CallOK
<1>3. \A q \in Caller : call'[q] = IF q = p THEN c ELSE call[q]
  BY <1>0 DEF PublishKey, Goto, Becomes, AccountTypeOK
<1>4. c \in Call
  BY <1>0 DEF Call
<1>5. call' \in [Caller -> Call]
  BY <1>0, <1>4 DEF PublishKey, Goto, Becomes, AccountTypeOK
<1>6. UNCHANGED <<dirs, ledger, lost, copied>>
  BY DEF PublishKey
<1>7. ASSUME NEW q \in Caller PROVE CallOK(call[q])'
  <2>1. CASE q = p
    <3>1. call'[q].pc = "read_published" /\ call'[q].outcome = call[p].outcome
      BY <1>0, <1>3, <2>1 DEF Call
    <3>2. QED
      BY <1>0, <1>6, <3>1 DEF CallOK, Keyed
  <2>2. CASE q # p
    <3>1. call'[q] = call[q] /\ CallOK(call[q])
      BY <1>3, <2>2, CallFacts
    <3>2. QED
      BY <1>2, <1>6, <3>1, FileAssumption DEF CallOK, NsOf
  <2>3. QED
    BY <2>1, <2>2
<1>8. FilesOK'
  BY <1>0, <1>2, <1>6, FileAssumption DEF FilesOK, OneKeyNamesAccounts, WrittenLedgersAreOwn
<1>9. keyFile' \in Key \cup {Missing, Damaged} /\ generated' \in SUBSET Key
  BY <1>0, <1>1, <1>2 DEF AccountTypeOK
<1>10. \A q \in Caller : call'[q].pc \in Keyed => call'[q].key \in Key
  BY <1>7 DEF CallOK
<1>11. QED
  BY <1>0, <1>5, <1>6, <1>7, <1>8, <1>9, <1>10 DEF AccountIInv, AccountTypeOK, Keyed

\* A directory is made for the installed key only.
LEMMA MakeDirectoryStep ==
  ASSUME AccountIInv, NEW p \in Caller, MakeDirectory(p)
  PROVE  AccountIInv'
<1> DEFINE c == [call[p] EXCEPT !.pc = "look"]
<1>0. call[p] \in Call /\ CallOK(call[p]) /\ AccountTypeOK /\ FilesOK
  BY CallFacts DEF AccountIInv
<1>1. Ns(p) \in Namespace /\ Ns(p).key = keyFile /\ keyFile \in Key
  <2>1. call[p].pc \in Keyed
    BY DEF MakeDirectory, Keyed
  <2>2. Ns(p) \in Namespace
    BY <2>1, CallFacts
  <2>3. Ns(p).key = call[p].key
    BY DEF Ns
  <2>4. QED
    BY <1>0, <2>1, <2>2, <2>3 DEF CallOK
<1>2. dirs' = dirs \cup {Ns(p)} /\ UNCHANGED <<keyFile, generated, ledger, lost, copied>>
  BY DEF MakeDirectory
<1>3. \A q \in Caller : call'[q] = IF q = p THEN c ELSE call[q]
  BY <1>0 DEF MakeDirectory, Goto, Becomes, AccountTypeOK
<1>4. c \in Call
  BY <1>0 DEF Call
<1>5. call' \in [Caller -> Call]
  BY <1>0, <1>4 DEF MakeDirectory, Goto, Becomes, AccountTypeOK
<1>6. keyFile # Missing /\ keyFile # Damaged
  BY <1>1, FileAssumption
<1>7. ASSUME NEW q \in Caller PROVE CallOK(call[q])'
  <2>1. CASE q = p
    <3>1. call'[q].pc = "look" /\ call'[q].outcome = call[p].outcome /\ call'[q].key = call[p].key
      BY <1>0, <1>3, <2>1 DEF Call
    <3>2. call[p].key = keyFile
      BY <1>0 DEF MakeDirectory, CallOK, Keyed
    <3>3. QED
      BY <1>0, <1>1, <1>2, <3>1, <3>2 DEF CallOK, Keyed
  <2>2. CASE q # p
    <3>1. call'[q] = call[q] /\ CallOK(call[q])
      BY <1>3, <2>2, CallFacts
    <3>2. QED
      BY <1>2, <1>6, <3>1 DEF CallOK, NsOf
  <2>3. QED
    BY <2>1, <2>2
<1>8. FilesOK'
  BY <1>0, <1>1, <1>2, <1>6 DEF FilesOK, OneKeyNamesAccounts, WrittenLedgersAreOwn
<1>9. \A q \in Caller : call'[q].pc \in Keyed => call'[q].key \in Key
  BY <1>7 DEF CallOK
<1>10. QED
  BY <1>0, <1>1, <1>2, <1>5, <1>7, <1>8, <1>9 DEF AccountIInv, AccountTypeOK, Keyed

\* The steps that write the ledger of a call's namespace, with a database bound
\* to it.
LEMMA WriteLedgerStep ==
  ASSUME AccountIInv, NEW p \in Caller, NEW db \in Database, NEW c \in Call,
         db.binding = Ns(p), call[p].pc \in Keyed,
         ledger' = [ledger EXCEPT ![Ns(p)] = db], Becomes(p, c),
         c.pc \in {"validate", "opened"}, c.key = call[p].key,
         c.subject = call[p].subject, c.outcome = call[p].outcome,
         UNCHANGED <<keyFile, generated, dirs, lost, copied>>
  PROVE  AccountIInv'
<1>0. call[p] \in Call /\ CallOK(call[p]) /\ AccountTypeOK /\ FilesOK /\ Ns(p) \in Namespace
      /\ Ns(p) = NsOf(call[p])
  BY CallFacts DEF AccountIInv
<1>1. \A n \in Namespace : ledger'[n] = IF n = Ns(p) THEN db ELSE ledger[n]
  BY <1>0 DEF AccountTypeOK
<1>2. ledger' \in [Namespace -> Database \cup {Missing}]
  BY <1>0 DEF AccountTypeOK
<1>3. \A q \in Caller : call'[q] = IF q = p THEN c ELSE call[q]
  BY <1>0 DEF Becomes, AccountTypeOK
<1>4. call' \in [Caller -> Call]
  BY <1>0 DEF Becomes, AccountTypeOK
<1>5. ASSUME NEW q \in Caller PROVE CallOK(call[q])'
  <2>1. CASE q = p
    <3>1. call'[q] = c /\ NsOf(c) = Ns(p)
      BY <1>0, <1>3, <2>1 DEF NsOf
    <3>2. ledger'[NsOf(c)] = db
      BY <1>0, <1>1, <3>1
    <3>3. QED
      BY <1>0, <3>1, <3>2 DEF CallOK, Keyed
  <2>2. CASE q # p
    <3>1. call'[q] = call[q] /\ CallOK(call[q])
      BY <1>3, <2>2, CallFacts
    <3>2. call[q].pc \in {"open", "opened"} =>
             /\ NsOf(call[q]) \in Namespace
             /\ ledger'[NsOf(call[q])] \in Database
             /\ ledger'[NsOf(call[q])].binding = NsOf(call[q])
      BY <1>1, <3>1, CallFacts DEF CallOK, Keyed
    <3>3. QED
      BY <3>1, <3>2 DEF CallOK, NsOf
  <2>3. QED
    BY <2>1, <2>2
<1>6. FilesOK'
  BY <1>0, <1>1 DEF FilesOK, OneKeyNamesAccounts, WrittenLedgersAreOwn
<1>7. \A q \in Caller : call'[q].pc \in Keyed => call'[q].key \in Key
  BY <1>5 DEF CallOK
<1>8. QED
  BY <1>0, <1>2, <1>4, <1>5, <1>6, <1>7 DEF AccountIInv, AccountTypeOK, Keyed

LEMMA PublishLedgerStep ==
  ASSUME AccountIInv, NEW p \in Caller, PublishLedger(p)
  PROVE  AccountIInv'
<1> DEFINE c == [call[p] EXCEPT !.pc = "validate", !.temp = Missing]
<1>0. call[p] \in Call /\ CallOK(call[p]) /\ AccountTypeOK /\ Ns(p) \in Namespace
      /\ Ns(p) = NsOf(call[p]) /\ call[p].pc \in Keyed
  BY CallFacts DEF AccountIInv, PublishLedger, Keyed
<1>1. /\ c \in Call /\ c.pc = "validate" /\ c.key = call[p].key
      /\ c.subject = call[p].subject /\ c.outcome = call[p].outcome
  BY <1>0 DEF Call
<1>2. Becomes(p, c) /\ UNCHANGED <<keyFile, generated, dirs, lost, copied>>
  BY DEF PublishLedger
<1> HIDE DEF c
<1>3. CASE ledger[Ns(p)] = Missing
  <2>1. call[p].temp \in Database /\ call[p].temp.binding = Ns(p)
    BY <1>0 DEF PublishLedger, CallOK
  <2>2. ledger' = [ledger EXCEPT ![Ns(p)] = call[p].temp]
    BY <1>3 DEF PublishLedger, LinkedLedger
  <2>3. QED
    BY <1>0, <1>1, <1>2, <2>1, <2>2, WriteLedgerStep
<1>4. CASE ledger[Ns(p)] # Missing
  <2>1. ledger' = ledger
    BY <1>0, <1>4 DEF PublishLedger, LinkedLedger, AccountTypeOK
  <2>2. NsOf(c) = NsOf(call[p])
    BY <1>1 DEF NsOf
  <2>3. CallOK(c)
    BY <1>0, <1>1, <2>2 DEF CallOK, Keyed
  <2>4. QED
    BY <1>1, <1>2, <2>1, <2>3, LocalStep DEF files
<1>5. QED
  BY <1>3, <1>4

LEMMA OpenLedgerStep ==
  ASSUME AccountIInv, NEW p \in Caller, OpenLedger(p) \/ UseLedger(p)
  PROVE  AccountIInv'
<1> DEFINE c == [call[p] EXCEPT !.pc = "opened"]
<1>0. call[p] \in Call /\ CallOK(call[p]) /\ AccountTypeOK /\ Ns(p) \in Namespace
      /\ Ns(p) = NsOf(call[p]) /\ call[p].pc \in Keyed
  BY CallFacts DEF AccountIInv, OpenLedger, UseLedger, Keyed
<1>1. /\ c \in Call /\ c.pc = "opened" /\ c.key = call[p].key
      /\ c.subject = call[p].subject /\ c.outcome = call[p].outcome
  BY <1>0 DEF Call
<1>2. ledger[Ns(p)] \in Database /\ ledger[Ns(p)].binding = Ns(p)
  BY <1>0 DEF OpenLedger, UseLedger, CallOK
<1>3. UNCHANGED <<keyFile, generated, dirs, lost, copied>>
  BY DEF OpenLedger, UseLedger
<1>4. Becomes(p, c)
  <2>1. CASE OpenLedger(p)
    BY <2>1 DEF OpenLedger, Goto
  <2>2. CASE UseLedger(p)
    <3>1. c = call[p]
      BY <1>0, <2>2 DEF UseLedger, Call
    <3>2. [call EXCEPT ![p] = call[p]] = call
      BY <1>0 DEF AccountTypeOK
    <3>3. QED
      BY <2>2, <3>1, <3>2 DEF UseLedger, Becomes
  <2>3. QED
    BY <2>1, <2>2
<1> HIDE DEF c
<1>5. PICK db \in Database :
         ledger' = [ledger EXCEPT ![Ns(p)] = db] /\ db.binding = Ns(p)
  <2> DEFINE opened == [ledger[Ns(p)] EXCEPT !.written = TRUE]
             used == [ledger[Ns(p)] EXCEPT !.history = TRUE]
  <2>1. /\ opened \in Database /\ opened.binding = Ns(p)
        /\ used \in Database /\ used.binding = Ns(p)
    BY <1>2 DEF Database
  <2>2. CASE OpenLedger(p)
    <3>1. ledger' = [ledger EXCEPT ![Ns(p)] = opened]
      BY <2>2 DEF OpenLedger
    <3>2. QED
      BY <2>1, <3>1
  <2>3. CASE UseLedger(p)
    <3>1. ledger' = [ledger EXCEPT ![Ns(p)] = used]
      BY <2>3 DEF UseLedger
    <3>2. QED
      BY <2>1, <3>1
  <2>4. QED
    BY <2>2, <2>3
<1>6. QED
  BY <1>0, <1>1, <1>3, <1>4, <1>5, WriteLedgerStep

-----------------------------------------------------------------------------
(* The user, and the step lemma.                                           *)

LEMMA KeyFileStep ==
  ASSUME AccountIInv, LoseKey \/ RestoreKey
  PROVE  AccountIInv'
<1>0. AccountTypeOK /\ FilesOK /\ \A p \in Caller : CallOK(call[p])
  BY DEF AccountIInv
<1>1. UNCHANGED <<generated, dirs, ledger, call, copied>> /\ Quiet
  BY DEF LoseKey, RestoreKey
<1>2. \/ keyFile' \in {Missing, Damaged} /\ lost' = TRUE
      \/ /\ keyFile' \in Key /\ \A d \in dirs : d.key = keyFile'
         /\ lost' = lost
  <2>1. CASE LoseKey
    BY <2>1 DEF LoseKey
  <2>2. CASE RestoreKey
    <3>1. PICK d \in dirs : keyFile' = d.key
      BY <2>2 DEF RestoreKey
    <3>2. d.key \in Key /\ \A e \in dirs : e.key = d.key
      BY <1>0 DEF AccountTypeOK, Namespace, FilesOK, OneKeyNamesAccounts
    <3>3. QED
      BY <2>2, <3>1, <3>2 DEF RestoreKey
  <2>3. QED
    BY <2>1, <2>2
<1>3. ASSUME NEW p \in Caller PROVE CallOK(call[p])'
  <2>1. call[p].pc = "idle" /\ CallOK(call[p])
    BY <1>0, <1>1 DEF Quiet
  <2>2. lost => lost'
    BY <1>0, <1>2 DEF AccountTypeOK
  <2>3. QED
    BY <1>1, <2>1, <2>2 DEF CallOK, Keyed
<1>4. FilesOK'
  BY <1>0, <1>1, <1>2, FileAssumption DEF FilesOK, OneKeyNamesAccounts, WrittenLedgersAreOwn
<1>5. keyFile' \in Key \cup {Missing, Damaged} /\ lost' \in BOOLEAN
  BY <1>0, <1>2 DEF AccountTypeOK
<1>6. QED
  BY <1>0, <1>1, <1>3, <1>4, <1>5 DEF AccountIInv, AccountTypeOK

LEMMA CopyStep ==
  ASSUME AccountIInv, CopyDatabase
  PROVE  AccountIInv'
<1>0. AccountTypeOK /\ FilesOK /\ \A p \in Caller : CallOK(call[p])
  BY DEF AccountIInv
<1>1. UNCHANGED <<keyFile, generated, dirs, call, lost>> /\ Quiet /\ copied' = TRUE
  BY DEF CopyDatabase
<1>2. PICK d \in dirs : \E b \in Namespace \cup {Missing} :
         ledger' = [ledger EXCEPT ![d] = [binding |-> b, written |-> FALSE, history |-> TRUE]]
  BY DEF CopyDatabase
<1>3. PICK b \in Namespace \cup {Missing} :
         ledger' = [ledger EXCEPT ![d] = [binding |-> b, written |-> FALSE, history |-> TRUE]]
  BY <1>2
<1>4. [binding |-> b, written |-> FALSE, history |-> TRUE] \in Database
  BY DEF Database
<1>5. ledger' \in [Namespace -> Database \cup {Missing}]
  BY <1>0, <1>3, <1>4 DEF AccountTypeOK
<1>6. \A n \in Namespace : ledger'[n] = ledger[n] \/ ~ledger'[n].written
  BY <1>0, <1>3 DEF AccountTypeOK
<1>7. ASSUME NEW p \in Caller PROVE CallOK(call[p])'
  <2>1. call[p].pc = "idle" /\ CallOK(call[p])
    BY <1>0, <1>1 DEF Quiet
  <2>2. QED
    BY <1>1, <2>1 DEF CallOK, Keyed
<1>8. FilesOK'
  BY <1>0, <1>1, <1>6 DEF FilesOK, OneKeyNamesAccounts, WrittenLedgersAreOwn
<1>9. QED
  BY <1>0, <1>1, <1>5, <1>7, <1>8 DEF AccountIInv, AccountTypeOK

\* The steps that only look.
LEMMA LookStep ==
  ASSUME AccountIInv, NEW p \in Caller,
         \/ StartAccountOpen(p) \/ FindKey(p) \/ ListAccounts(p) \/ FindKeyAgain(p)
         \/ ReadPublishedKey(p) \/ LookForLedger(p) \/ CloseAccountLedger(p) \/ Fail(p)
  PROVE  AccountIInv'
<1>0. CallOK(call[p]) /\ call[p] \in Call /\ FilesOK
  BY CallFacts DEF AccountIInv
<1>1. CASE StartAccountOpen(p)
  <2>1. PICK s \in Subject :
           Becomes(p, [Fresh("none") EXCEPT !.pc = "read_key", !.subject = s])
    BY <1>1 DEF StartAccountOpen
  <2> DEFINE c == [Fresh("none") EXCEPT !.pc = "read_key", !.subject = s]
  <2>2. Fresh("none") \in Call
    BY FreshOK DEF Outcome
  <2>3. c \in Call /\ c.pc = "read_key" /\ c.outcome = "none"
    BY <2>2 DEF Call, Fresh
  <2> HIDE DEF c
  <2>4. CallOK(c)
    BY <2>3 DEF CallOK, Keyed
  <2>5. QED
    BY <1>1, <2>1, <2>3, <2>4, LocalStep DEF StartAccountOpen, c
<1>2. ASSUME keyFile = Damaged, End(p, "recovery_required"),
             UNCHANGED <<files, lost, copied>>
      PROVE AccountIInv'
  BY <1>0, <1>2, EndStep DEF FilesOK, Outcome
<1>3. CASE FindKey(p)
  <2>1. CASE keyFile = Missing
    BY <1>3, <2>1, GotoStep, FileAssumption DEF FindKey, ReadKey
  <2>2. CASE keyFile # Missing
    BY <1>2, <1>3, <2>2, ReadKeyStep DEF FindKey, ReadKey
  <2>3. QED
    BY <2>1, <2>2
<1>4. CASE ListAccounts(p)
  BY <1>4, GotoStep DEF ListAccounts
<1>5. CASE FindKeyAgain(p)
  <2>1. CASE keyFile = Missing
    <3>1. lost
      BY <1>0, <1>5, <2>1 DEF FilesOK, FindKeyAgain, CallOK
    <3>2. End(p, "recovery_required") /\ UNCHANGED <<files, lost, copied>>
      BY <1>5, <2>1, FileAssumption DEF FindKeyAgain, SecondLook, ReadKey
    <3>3. QED
      BY <3>1, <3>2, EndStep DEF Outcome
  <2>2. CASE keyFile # Missing
    BY <1>2, <1>5, <2>2, ReadKeyStep DEF FindKeyAgain, SecondLook, ReadKey
  <2>3. QED
    BY <2>1, <2>2
<1>6. CASE ReadPublishedKey(p)
  <2>1. CASE keyFile = Missing
    BY <1>6, <2>1, EndStep, FileAssumption DEF ReadPublishedKey, ReadKey, Outcome
  <2>2. CASE keyFile # Missing
    BY <1>2, <1>6, <2>2, ReadKeyStep DEF ReadPublishedKey, ReadKey
  <2>3. QED
    BY <2>1, <2>2
<1>7. CASE LookForLedger(p)
  BY <1>7, GotoStep DEF LookForLedger, Keyed
<1>8. CASE CloseAccountLedger(p) \/ Fail(p)
  BY <1>8, EndStep DEF CloseAccountLedger, Fail, Outcome
<1>9. QED
  BY <1>1, <1>3, <1>4, <1>5, <1>6, <1>7, <1>8

\* The temporary database, and the look at the published one.
LEMMA TempStep ==
  ASSUME AccountIInv, NEW p \in Caller, InitializeTemp(p) \/ BindTemp(p) \/ Validate(p)
  PROVE  AccountIInv'
<1>0. /\ CallOK(call[p]) /\ call[p] \in Call /\ FilesOK /\ AccountTypeOK
      /\ call[p].pc \in Keyed /\ Ns(p) \in Namespace /\ Ns(p) = NsOf(call[p])
  BY CallFacts DEF AccountIInv, InitializeTemp, BindTemp, Validate, Keyed
<1>1. CASE InitializeTemp(p)
  <2> DEFINE temp == [binding |-> Missing, written |-> TRUE, history |-> FALSE]
             c == [call[p] EXCEPT !.pc = "bind", !.temp = temp]
  <2>1. temp \in Database
    BY DEF Database
  <2>2. c \in Call /\ c.pc = "bind" /\ c.temp = temp /\ c.key = call[p].key
        /\ c.outcome = call[p].outcome
    BY <1>0, <2>1 DEF Call
  <2>3. Becomes(p, c) /\ UNCHANGED <<files, lost, copied>>
    BY <1>1 DEF InitializeTemp
  <2> HIDE DEF c, temp
  <2>4. CallOK(c)
    BY <1>0, <2>1, <2>2 DEF CallOK, Keyed
  <2>5. QED
    BY <2>2, <2>3, <2>4, LocalStep
<1>2. CASE BindTemp(p)
  <2> DEFINE c == [call[p] EXCEPT !.pc = "publish_ledger", !.temp = Bound(p)]
  <2>1. Bound(p) \in Database /\ Bound(p).binding = Ns(p)
    <3>1. call[p].temp \in Database
      BY <1>0, <1>2 DEF BindTemp, CallOK
    <3>2. QED
      BY <1>0, <3>1 DEF Bound, Database
  <2>2. /\ c \in Call /\ c.pc = "publish_ledger" /\ c.temp = Bound(p)
        /\ c.key = call[p].key /\ c.subject = call[p].subject
        /\ c.outcome = call[p].outcome
    BY <1>0, <2>1 DEF Call
  <2>3. Becomes(p, c) /\ UNCHANGED <<files, lost, copied>>
    BY <1>2 DEF BindTemp
  <2> HIDE DEF c
  <2>4. NsOf(c) = Ns(p)
    BY <1>0, <2>2 DEF NsOf
  <2>5. CallOK(c)
    BY <1>0, <2>1, <2>2, <2>4 DEF CallOK, Keyed
  <2>6. QED
    BY <2>2, <2>3, <2>5, LocalStep
<1>3. CASE Validate(p)
  <2>1. UNCHANGED <<files, lost, copied>>
    BY <1>3 DEF Validate
  <2>2. CASE ledger[Ns(p)] = Missing
    BY <1>3, <2>1, <2>2, EndStep DEF Validate, Outcome
  <2>3. CASE ledger[Ns(p)] # Missing /\ OwnBinding(p)
    <3>1. ledger[Ns(p)] \in Database
      BY <1>0, <2>3 DEF AccountTypeOK
    <3>2. QED
      BY <1>0, <1>3, <2>1, <2>3, <3>1, GotoStep DEF Validate, OwnBinding
  <2>4. CASE ledger[Ns(p)] # Missing /\ ~OwnBinding(p)
    <3>1. copied
      BY <1>0, <2>4 DEF FilesOK, OwnBinding
    <3>2. QED
      BY <1>3, <2>1, <2>4, <3>1, EndStep DEF Validate, Outcome
  <2>5. QED
    BY <2>2, <2>3, <2>4
<1>4. QED
  BY <1>1, <1>2, <1>3

LEMMA NextAccountIInv == AccountIInv /\ [AccountNext]_accountVars => AccountIInv'
<1> SUFFICES ASSUME AccountIInv, [AccountNext]_accountVars PROVE AccountIInv'
  OBVIOUS
<1>1. ASSUME NEW p \in Caller, Step(p) PROVE AccountIInv'
  BY <1>1, LookStep, TempStep, PublishKeyStep, MakeDirectoryStep, PublishLedgerStep,
     OpenLedgerStep DEF Step
<1>2. CASE UNCHANGED accountVars
  BY <1>2 DEF accountVars, AccountIInv, AccountTypeOK, FilesOK, OneKeyNamesAccounts, WrittenLedgersAreOwn,
              CallOK, NsOf
<1>3. QED
  BY <1>1, <1>2, KeyFileStep, CopyStep DEF AccountNext

-----------------------------------------------------------------------------
(* The theorems.                                                           *)

\* The strengthened invariant holds of every behaviour.
THEOREM AccountInvariance == AccountSpec => []AccountIInv
  BY InitAccountIInv, NextAccountIInv, PTL DEF AccountSpec

\* Files and locals keep their types; a call that works with a key has one.
THEOREM AccountTypeCorrect == AccountSpec => []AccountTypeOK
<1>1. AccountIInv => AccountTypeOK
  BY DEF AccountIInv
<1>2. QED
  BY <1>1, AccountInvariance, PTL

\* However first setups race, every account directory was named with one key.
THEOREM OneKey == AccountSpec => []OneKeyNamesAccounts
<1>1. AccountIInv => OneKeyNamesAccounts
  BY DEF AccountIInv, FilesOK
<1>2. QED
  BY <1>1, AccountInvariance, PTL

\* No ledger of another account, and no unbound one, is ever written.
THEOREM OnlyOwnLedgersWritten == AccountSpec => []WrittenLedgersAreOwn
<1>1. AccountIInv => WrittenLedgersAreOwn
  BY DEF AccountIInv, FilesOK
<1>2. QED
  BY <1>1, AccountInvariance, PTL

\* Calls are refused only for something the user did to the files.
THEOREM RefusalsCaused == AccountSpec => []RefusalsHaveCause
<1>1. AccountIInv => RefusalsHaveCause
  BY DEF AccountIInv, CallOK, RefusalsHaveCause
<1>2. QED
  BY <1>1, AccountInvariance, PTL

\* No initialisation that lost its race replaces a ledger that holds history.
THEOREM HistorySurvivesRaces == AccountSpec => HistoryIsKept
<1> DEFINE Kept == \A n \in Namespace : ledger[n] # Missing /\ ledger[n].history =>
                       ledger'[n] # Missing /\ ledger'[n].history
<1>1. AccountIInv /\ [AccountNext]_accountVars => Kept
  <2> SUFFICES ASSUME AccountIInv, [AccountNext]_accountVars, NEW n \in Namespace,
                      ledger[n] # Missing, ledger[n].history
               PROVE  ledger'[n] # Missing /\ ledger'[n].history
    OBVIOUS
  <2>0. ledger \in [Namespace -> Database \cup {Missing}] /\ ledger[n] \in Database
    BY DEF AccountIInv, AccountTypeOK
  <2>1. CASE ledger' = ledger
    BY <2>0, <2>1
  <2>2. ASSUME NEW p \in Caller, PublishLedger(p) PROVE ledger'[n] # Missing /\ ledger'[n].history
    BY <2>0, <2>2 DEF PublishLedger, LinkedLedger
  <2>3. ASSUME NEW p \in Caller, OpenLedger(p) PROVE ledger'[n] # Missing /\ ledger'[n].history
    <3>1. [ledger[n] EXCEPT !.written = TRUE] \in Database
          /\ [ledger[n] EXCEPT !.written = TRUE].history
      BY <2>0 DEF Database
    <3>2. \/ ledger'[n] = ledger[n]
          \/ ledger'[n] = [ledger[n] EXCEPT !.written = TRUE]
      BY <2>0, <2>3 DEF OpenLedger
    <3>3. QED
      BY <2>0, <3>1, <3>2, FileAssumption
  <2>4. ASSUME NEW p \in Caller, UseLedger(p) PROVE ledger'[n] # Missing /\ ledger'[n].history
    <3>1. [ledger[n] EXCEPT !.history = TRUE] \in Database
          /\ [ledger[n] EXCEPT !.history = TRUE].history
      BY <2>0 DEF Database
    <3>2. \/ ledger'[n] = ledger[n]
          \/ ledger'[n] = [ledger[n] EXCEPT !.history = TRUE]
      BY <2>0, <2>4 DEF UseLedger
    <3>3. QED
      BY <2>0, <3>1, <3>2, FileAssumption
  <2>5. CASE CopyDatabase
    <3>1. PICK d \in dirs, b \in Namespace \cup {Missing} :
             ledger' = [ledger EXCEPT ![d] = [binding |-> b, written |-> FALSE,
                                              history |-> TRUE]]
      BY <2>5 DEF CopyDatabase
    <3>2. [binding |-> b, written |-> FALSE, history |-> TRUE] \in Database
      BY DEF Database
    <3>3. QED
      BY <2>0, <3>1, <3>2, FileAssumption
  <2>6. CASE UNCHANGED accountVars \/ LoseKey \/ RestoreKey
    BY <2>1, <2>6 DEF accountVars, files, LoseKey, RestoreKey
  <2>7. ASSUME NEW p \in Caller, Step(p), ~PublishLedger(p), ~OpenLedger(p), ~UseLedger(p)
        PROVE ledger' = ledger
    BY <2>7 DEF Step, StartAccountOpen, FindKey, ListAccounts, FindKeyAgain, PublishKey,
                ReadPublishedKey, MakeDirectory, LookForLedger, InitializeTemp, BindTemp,
                Validate, CloseAccountLedger, Fail, files
  <2>8. QED
    BY <2>1, <2>2, <2>3, <2>4, <2>5, <2>6, <2>7 DEF AccountNext
<1>2. QED
  BY <1>1, AccountInvariance, PTL DEF AccountSpec, HistoryIsKept

-----------------------------------------------------------------------------
(* The price watchlist.                                                    *)

-----------------------------------------------------------------------------
(* The inductive invariant.                                                *)

\* A refresh that has inspected its entry has an outcome to write.
OutcomeKnown ==
    \A r \in Refresher :
        refresh[r].pc \in {"record", "mark"} => refresh[r].status # "pending"

\* The identities of additions that have passed the limit check.
Promised == {adder[a].key : a \in {b \in Adder : adder[b].pc \in {"evidence", "insert"}}}

\* Watches listed and promised together: an insertion turns a promise into a
\* watch, and only the limit check makes a promise.
PromisesBounded ==
    /\ IsFiniteSet(Listed \cup Promised)
    /\ Cardinality(Listed \cup Promised) <= Limit + Cardinality(Adder) - 1

\* A row says it was checked only with the outcome of a check.
CheckedHasOutcome ==
    \A k \in Listed : watch[k].checked # Never => watch[k].status # "pending"

WatchIInv == WatchTypeOK /\ OutcomeKnown /\ CheckedHasOutcome /\ PromisesBounded

-----------------------------------------------------------------------------
(* Types.                                                                  *)

LEMMA NoCallType == NoCall \in RefreshCall
  BY WatchBoundsAssumption DEF NoCall, RefreshCall, Time, Status

LEMMA NoAddType == NoAdd \in AddCall /\ NoAdd.pc = "idle"
<1>1. (CHOOSE k \in Series : TRUE) \in Series
  BY SeriesAssumption
<1>2. QED
  BY <1>1, WatchBoundsAssumption DEF NoAdd, AddCall, Time

LEMMA InitWatchTypeOK == WatchInit => WatchTypeOK /\ OutcomeKnown
<1> SUFFICES ASSUME WatchInit PROVE WatchTypeOK /\ OutcomeKnown
  OBVIOUS
<1>1. watch \in [Listed -> Row] /\ Listed = {}
  BY DEF WatchInit, Listed
<1>3. adder \in [Adder -> AddCall] /\ clock \in Time /\ adds \in 0..MaxAdds
  BY NoAddType, WatchBoundsAssumption DEF WatchInit, Time
<1>4. refresh \in [Refresher -> RefreshCall]
  BY NoCallType DEF WatchInit
<1>5. \A r \in Refresher : refresh[r].pc = "idle"
  BY DEF WatchInit, NoCall
<1>6. QED
  BY <1>1, <1>3, <1>4, <1>5 DEF WatchInit, WatchTypeOK, OutcomeKnown

\* Steps of an addition that change nothing but where it is.
LEMMA AddGotoTypeOK ==
  ASSUME WatchTypeOK, OutcomeKnown, NEW a \in Adder,
         NEW stage \in {"idle", "count", "evidence", "insert"},
         AddGoto(a, stage), UNCHANGED <<watch, clock, adds, refresh>>
  PROVE  WatchTypeOK' /\ OutcomeKnown'
<1>1. [adder[a] EXCEPT !.pc = stage] \in AddCall
  BY DEF WatchTypeOK, AddCall
<1>2. adder' \in [Adder -> AddCall]
  BY <1>1, NoAddType DEF WatchTypeOK, AddGoto
<1>3. QED
  BY <1>2 DEF WatchTypeOK, OutcomeKnown, Listed

\* A row that a step writes has the type of a row.
LEMMA RowTypes ==
  ASSUME WatchTypeOK
  PROVE  /\ \A a \in Adder : UpsertedRow(a) \in Row
         /\ \A r \in Refresher : Marked(r) \in [Listed -> Row]
<1>1. ASSUME NEW a \in Adder PROVE UpsertedRow(a) \in Row
  <2>1. adder[a] \in AddCall
    BY DEF WatchTypeOK
  <2>2. NewRow(a) \in Row
    BY <2>1 DEF NewRow, Row, Status, AddCall
  <2>3. adder[a].key \in Listed => watch[adder[a].key] \in Row
    BY DEF WatchTypeOK
  <2>4. QED
    BY <2>2, <2>3 DEF UpsertedRow
<1>2. ASSUME NEW r \in Refresher PROVE Marked(r) \in [Listed -> Row]
  <2>1. refresh[r] \in RefreshCall
    BY DEF WatchTypeOK
  <2>2. \A k \in Listed : watch[k] \in Row
    BY DEF WatchTypeOK
  <2>3. \A k \in Listed : CheckedRow(r, watch[k].added) \in Row
    BY <2>1, <2>2 DEF CheckedRow, Row, RefreshCall
  <2>4. QED
    BY <2>2, <2>3 DEF Marked
<1>3. QED
  BY <1>1, <1>2

LEMMA InsertTypeOK ==
  ASSUME WatchTypeOK, OutcomeKnown, NEW a \in Adder, InsertRow(a)
  PROVE  WatchTypeOK' /\ OutcomeKnown'
<1>1. adder[a].key \in Series
  BY DEF WatchTypeOK, AddCall
<1>2. Listed' = Listed \cup {adder[a].key}
  BY DEF InsertRow, Listed
<1>3. watch' \in [Listed' -> Row]
  <2>1. \A k \in Listed : watch[k] \in Row
    BY DEF WatchTypeOK
  <2>2. UpsertedRow(a) \in Row
    BY RowTypes
  <2>3. QED
    BY <1>2, <2>1, <2>2 DEF InsertRow
<1>4. adder' \in [Adder -> AddCall]
  BY NoAddType DEF InsertRow, AddGoto, WatchTypeOK
<1>5. QED
  BY <1>1, <1>2, <1>3, <1>4 DEF InsertRow, WatchTypeOK, OutcomeKnown

\* Steps that give one refresh new locals and leave the watchlist alone.
LEMMA RefreshGotoTypeOK ==
  ASSUME WatchTypeOK, OutcomeKnown, NEW r \in Refresher, NEW next \in RefreshCall,
         RefreshGoto(r, next), UNCHANGED <<watch, clock, adds, adder>>,
         next.pc \in {"inspect", "record", "mark"} => next.entries # <<>>,
         next.pc \in {"record", "mark"} => next.status # "pending"
  PROVE  WatchTypeOK' /\ OutcomeKnown'
<1>1. refresh' \in [Refresher -> RefreshCall]
  BY DEF WatchTypeOK, RefreshGoto
<1>2. \A q \in Refresher : refresh'[q] = IF q = r THEN next ELSE refresh[q]
  BY DEF WatchTypeOK, RefreshGoto
<1>3. QED
  BY <1>1, <1>2 DEF WatchTypeOK, OutcomeKnown, Listed

LEMMA MarkTypeOK ==
  ASSUME WatchTypeOK, OutcomeKnown, NEW r \in Refresher, MarkChecked(r)
  PROVE  WatchTypeOK' /\ OutcomeKnown'
<1>1. refresh[r] \in RefreshCall /\ refresh[r].entries # <<>>
  BY DEF WatchTypeOK, MarkChecked
<1>2. Listed' = Listed /\ watch' \in [Listed' -> Row]
  <2>1. watch' = Marked(r) /\ DOMAIN Marked(r) = Listed
    BY DEF MarkChecked, Marked
  <2>2. Marked(r) \in [Listed -> Row]
    BY RowTypes
  <2>3. QED
    BY <2>1, <2>2 DEF Listed
<1> DEFINE next == IF Head(refresh[r].entries) \in Listed
                   THEN [refresh[r] EXCEPT !.pc = "next", !.entries = Tail(@)]
                   ELSE NoCall
<1>3. next \in RefreshCall /\ next.pc \in {"next", "idle"}
  <2>1. refresh[r].entries \in Seq(Series) /\ Tail(refresh[r].entries) \in Seq(Series)
    BY <1>1 DEF RefreshCall
  <2>2. QED
    BY <1>1, <2>1, NoCallType DEF RefreshCall, NoCall
<1>4. refresh' = [refresh EXCEPT ![r] = next]
  BY DEF MarkChecked, RefreshGoto
<1> HIDE DEF next
<1>5. refresh' \in [Refresher -> RefreshCall]
  BY <1>3, <1>4 DEF WatchTypeOK
<1>6. \A q \in Refresher : refresh'[q] = IF q = r THEN next ELSE refresh[q]
  BY <1>4 DEF WatchTypeOK
<1>7. UNCHANGED <<clock, adds, adder>>
  BY DEF MarkChecked
<1>8. QED
  BY <1>2, <1>3, <1>5, <1>6, <1>7 DEF WatchTypeOK, OutcomeKnown

\* The due list is a sequence of listed identities.
LEMMA DueListType ==
  ASSUME WatchTypeOK, NEW n \in 1..Batch, NEW before, NEW list \in DueLists(n, before)
  PROVE  list \in Seq(Series)
<1>1. PICK m \in 0..n : list \in [1..m -> {k \in Listed : Due(k, before)}]
  BY DEF DueLists
<1>2. list \in [1..m -> Series] /\ m \in Nat
  BY <1>1 DEF WatchTypeOK
<1>3. QED
  BY <1>2

LEMMA NextWatchTypeOK == WatchTypeOK /\ OutcomeKnown /\ [WatchNext]_watchVars => WatchTypeOK' /\ OutcomeKnown'
<1> SUFFICES ASSUME WatchTypeOK, OutcomeKnown, [WatchNext]_watchVars PROVE WatchTypeOK' /\ OutcomeKnown'
  OBVIOUS
<1>1. ASSUME NEW a \in Adder, AddStep(a) PROVE WatchTypeOK' /\ OutcomeKnown'
  <2>1. CASE StartAdd(a)
    <3>1. PICK k \in Series :
             adder' = [adder EXCEPT ![a] = [pc |-> "exists", key |-> k, at |-> clock]]
      BY <2>1 DEF StartAdd
    <3>2. [pc |-> "exists", key |-> k, at |-> clock] \in AddCall
      BY DEF WatchTypeOK, AddCall
    <3>3. adder' \in [Adder -> AddCall]
      BY <3>1, <3>2 DEF WatchTypeOK
    <3>4. adds' \in 0..MaxAdds
      BY <2>1, WatchBoundsAssumption DEF StartAdd, WatchTypeOK
    <3>5. QED
      BY <2>1, <3>3, <3>4 DEF StartAdd, WatchTypeOK, OutcomeKnown, Listed
  <2>2. CASE LookUp(a)
    BY <2>2, AddGotoTypeOK DEF LookUp
  <2>3. CASE CountRows(a)
    BY <2>3, AddGotoTypeOK DEF CountRows
  <2>4. CASE ReadEvidence(a)
    BY <2>4, AddGotoTypeOK DEF ReadEvidence
  <2>5. CASE InsertRow(a)
    BY <2>5, InsertTypeOK
  <2>6. CASE AbandonAdd(a)
    BY <2>6, AddGotoTypeOK DEF AbandonAdd
  <2>7. QED
    BY <1>1, <2>1, <2>2, <2>3, <2>4, <2>5, <2>6 DEF AddStep
<1>2. ASSUME NEW r \in Refresher, RefreshStep(r) \/ CancelRefresh(r) \/ CrashRefresh(r)
      PROVE WatchTypeOK' /\ OutcomeKnown'
  <2>0. refresh[r] \in RefreshCall
    BY DEF WatchTypeOK
  <2>1. CASE StartRefresh(r)
    <3>0. PICK n \in 1..Batch : \E list \in DueLists(n, clock - Stale) :
             RefreshGoto(r, [NoCall EXCEPT !.pc = "next", !.entries = list])
      BY <2>1 DEF StartRefresh
    <3>1. PICK list \in DueLists(n, clock - Stale) :
             RefreshGoto(r, [NoCall EXCEPT !.pc = "next", !.entries = list])
      BY <3>0
    <3>2. list \in Seq(Series)
      BY DueListType
    <3>3. [NoCall EXCEPT !.pc = "next", !.entries = list] \in RefreshCall
      BY <3>2, NoCallType DEF NoCall, RefreshCall
    <3>4. QED
      BY <2>1, <3>1, <3>3, RefreshGotoTypeOK DEF StartRefresh, WatchTypeOK, NoCall
  <2>2. CASE TakeEntry(r)
    <3>1. [refresh[r] EXCEPT !.pc = "inspect", !.stamp = clock] \in RefreshCall
      BY <2>0 DEF RefreshCall, WatchTypeOK
    <3>2. QED
      BY <2>0, <2>2, <3>1, RefreshGotoTypeOK DEF TakeEntry, RefreshCall, WatchTypeOK
  <2>3. CASE Inspect(r)
    <3>1. PICK stage \in {"record", "mark"}, status \in {"unavailable", "failed"} :
             RefreshGoto(r, [refresh[r] EXCEPT !.pc = stage, !.status = status])
      BY <2>3 DEF Inspect
    <3>2. [refresh[r] EXCEPT !.pc = stage, !.status = status] \in RefreshCall
      BY <2>0 DEF RefreshCall, Status
    <3>3. refresh[r].entries # <<>>
      BY <2>3 DEF Inspect, WatchTypeOK
    <3>4. QED
      BY <2>0, <2>3, <3>1, <3>2, <3>3, RefreshGotoTypeOK DEF Inspect, RefreshCall, WatchTypeOK
  <2>4. CASE Record(r)
    <3>1. refresh[r].entries # <<>> /\ Head(refresh[r].entries) \in Series
      BY <2>0, <2>4 DEF Record, WatchTypeOK, RefreshCall
    <3>2. CASE RefreshGoto(r, [refresh[r] EXCEPT !.pc = "mark", !.status = "observed"])
      <4>1. [refresh[r] EXCEPT !.pc = "mark", !.status = "observed"] \in RefreshCall
        BY <2>0 DEF RefreshCall, Status
      <4>2. QED
        BY <2>0, <2>4, <3>1, <3>2, <4>1, RefreshGotoTypeOK DEF Record, RefreshCall, WatchTypeOK
    <3>3. CASE RefreshGoto(r, [refresh[r] EXCEPT !.pc = "mark"])
      <4>1. [refresh[r] EXCEPT !.pc = "mark"] \in RefreshCall
        BY <2>0 DEF RefreshCall
      <4>3. refresh[r].status # "pending"
        BY <2>4 DEF Record, OutcomeKnown
      <4>2. QED
        BY <2>0, <2>4, <3>1, <3>3, <4>1, <4>3, RefreshGotoTypeOK DEF Record, RefreshCall, WatchTypeOK
    <3>4. QED
      BY <2>4, <3>2, <3>3 DEF Record
  <2>5. CASE MarkChecked(r)
    BY <2>5, MarkTypeOK
  <2>6. CASE MarkRefused(r) \/ FinishRefresh(r) \/ CrashRefresh(r)
    BY <2>6, NoCallType, RefreshGotoTypeOK
       DEF MarkRefused, FinishRefresh, CrashRefresh, WatchTypeOK, NoCall
  <2>7. CASE CancelRefresh(r)
    <3>1. [refresh[r] EXCEPT !.live = FALSE] \in RefreshCall
      BY <2>0 DEF RefreshCall
    <3>2. QED
      BY <2>0, <2>7, <3>1, RefreshGotoTypeOK
         DEF CancelRefresh, RefreshCall, WatchTypeOK, OutcomeKnown
  <2>8. QED
    BY <1>2, <2>1, <2>2, <2>3, <2>4, <2>5, <2>6, <2>7 DEF RefreshStep
<1>4. CASE RemovePriceWatch \/ PurgePriceWatches
  <2>1. DOMAIN watch' \subseteq Listed /\ watch' \in [DOMAIN watch' -> Row]
    <3>1. CASE RemovePriceWatch
      <4>1. PICK k \in Listed : watch' = [j \in Listed \ {k} |-> watch[j]]
        BY <3>1 DEF RemovePriceWatch
      <4>2. QED
        BY <4>1 DEF WatchTypeOK
    <3>2. CASE PurgePriceWatches
      BY <3>2 DEF PurgePriceWatches
    <3>3. QED
      BY <1>4, <3>1, <3>2
  <2>2. QED
    BY <1>4, <2>1 DEF RemovePriceWatch, PurgePriceWatches, WatchTypeOK, OutcomeKnown, Listed
<1>5. CASE Tick
  BY <1>5, WatchBoundsAssumption DEF Tick, WatchTypeOK, OutcomeKnown, Listed, Time
<1>6. CASE UNCHANGED watchVars
  BY <1>6 DEF watchVars, WatchTypeOK, OutcomeKnown, Listed
<1>7. QED
  BY <1>1, <1>2, <1>4, <1>5, <1>6 DEF WatchNext

-----------------------------------------------------------------------------
(* The limit.                                                              *)

\* The keys held by some members of a finite set are no more than its members.
LEMMA KeysBounded ==
  ASSUME NEW S, IsFiniteSet(S), NEW T \in SUBSET S, NEW f
  PROVE  /\ IsFiniteSet({f[x].key : x \in T})
         /\ Cardinality({f[x].key : x \in T}) <= Cardinality(S)
<1> DEFINE g == [x \in T |-> f[x].key]
           keys == {f[x].key : x \in T}
<1>1. IsFiniteSet(T) /\ Cardinality(T) <= Cardinality(S)
  BY FS_Subset
<1>2. g \in Surjection(T, keys)
  BY DEF Surjection
<1>3. IsFiniteSet(keys) /\ Cardinality(keys) <= Cardinality(T)
  BY <1>1, <1>2, FS_Surjection
<1>4. Cardinality(keys) \in Nat /\ Cardinality(T) \in Nat /\ Cardinality(S) \in Nat
  BY <1>1, <1>3, FS_CardinalityType
<1>5. QED
  BY <1>1, <1>3, <1>4

\* Steps that list or promise nothing new keep the bound.
LEMMA NothingNewPromised ==
  ASSUME PromisesBounded, (Listed \cup Promised)' \subseteq Listed \cup Promised
  PROVE  PromisesBounded'
<1> DEFINE all == Listed \cup Promised
           all2 == (Listed \cup Promised)'
<1>1. IsFiniteSet(all2) /\ Cardinality(all2) <= Cardinality(all)
  BY FS_Subset DEF PromisesBounded
<1>2. Cardinality(all) \in Nat /\ Cardinality(all2) \in Nat /\ Cardinality(Adder) \in Nat
  BY <1>1, FS_CardinalityType, AdderAssumption DEF PromisesBounded
<1>3. QED
  BY <1>1, <1>2, WatchBoundsAssumption DEF PromisesBounded

\* The step the limit check lets through: what is listed is below the limit, and
\* there is at most one promise for each caller.
LEMMA CountKeepsBound ==
  ASSUME PromisesBounded, BelowLimit, watch' = watch
  PROVE  PromisesBounded'
<1>1. IsFiniteSet(Listed) /\ Cardinality(Listed) \in Nat
  BY FS_Subset, FS_CardinalityType DEF PromisesBounded
<1>2. IsFiniteSet(Promised') /\ Cardinality(Promised') <= Cardinality(Adder)
  <2> DEFINE past == {b \in Adder : adder'[b].pc \in {"evidence", "insert"}}
  <2>1. Promised' = {adder'[x].key : x \in past}
    BY DEF Promised
  <2>2. past \in SUBSET Adder
    OBVIOUS
  <2> HIDE DEF past
  <2>3. /\ IsFiniteSet({adder'[x].key : x \in past})
        /\ Cardinality({adder'[x].key : x \in past}) <= Cardinality(Adder)
    BY <2>2, KeysBounded, AdderAssumption
  <2>4. QED
    BY <2>1, <2>3
<1>3. Cardinality(Promised') \in Nat /\ Cardinality(Adder) \in Nat
  BY <1>2, FS_CardinalityType, AdderAssumption
<1>4. /\ IsFiniteSet(Listed \cup Promised')
      /\ Cardinality(Listed \cup Promised') =
             Cardinality(Listed) + Cardinality(Promised')
                 - Cardinality(Listed \cap Promised')
  BY <1>1, <1>2, FS_Union
<1>5. Cardinality(Listed \cap Promised') \in Nat
  BY <1>1, FS_Intersection, FS_CardinalityType
<1>6. Cardinality(Listed) <= Limit - 1
  BY <1>1, WatchBoundsAssumption DEF BelowLimit
<1>7. Cardinality(Listed \cup Promised') <= Limit + Cardinality(Adder) - 1
  BY <1>1, <1>2, <1>3, <1>4, <1>5, <1>6, WatchBoundsAssumption
<1>8. (Listed \cup Promised)' = Listed \cup Promised'
  BY DEF Listed
<1>9. QED
  BY <1>4, <1>7, <1>8 DEF PromisesBounded

LEMMA NextPromisesBounded == WatchIInv /\ [WatchNext]_watchVars => PromisesBounded'
<1> SUFFICES ASSUME WatchIInv, [WatchNext]_watchVars PROVE PromisesBounded'
  OBVIOUS
<1>0. PromisesBounded /\ WatchTypeOK
  BY DEF WatchIInv
<1>1. ASSUME NEW a \in Adder, AddStep(a) PROVE PromisesBounded'
  <2> DEFINE past(b) == adder[b].pc \in {"evidence", "insert"}
             past2(b) == adder'[b].pc \in {"evidence", "insert"}
  <2>1. \A b \in Adder : b # a => adder'[b] = adder[b]
    BY <1>0, <1>1 DEF AddStep, StartAdd, LookUp, CountRows, ReadEvidence, InsertRow,
                      AbandonAdd, AddGoto, WatchTypeOK
  <2>2. CASE StartAdd(a) \/ AbandonAdd(a)
    <3>0. adder'[a].pc \in {"idle", "exists"}
      <4>1. CASE StartAdd(a)
        BY <1>0, <4>1 DEF StartAdd, WatchTypeOK
      <4>2. CASE AbandonAdd(a)
        BY <1>0, <4>2, NoAddType DEF AbandonAdd, AddGoto, WatchTypeOK
      <4>3. QED
        BY <2>2, <4>1, <4>2
    <3>1. ~past2(a) /\ Listed' = Listed
      BY <2>2, <3>0 DEF StartAdd, AbandonAdd, Listed
    <3>2. QED
      BY <1>0, <2>1, <3>1, NothingNewPromised DEF Promised
  <2>3. CASE LookUp(a)
    <3>1. adder'[a].key = adder[a].key /\ Listed' = Listed
      BY <1>0, <2>3 DEF LookUp, AddGoto, WatchTypeOK, Listed
    <3>2. past2(a) => adder[a].key \in Listed
      BY <1>0, <2>3 DEF LookUp, AddGoto, WatchTypeOK
    <3>3. QED
      BY <1>0, <2>1, <3>1, <3>2, NothingNewPromised DEF Promised
  <2>4. CASE CountRows(a) /\ BelowLimit
    BY <1>0, <2>4, CountKeepsBound DEF CountRows
  <2>5. CASE CountRows(a) /\ ~BelowLimit
    <3>1. ~past2(a) /\ Listed' = Listed
      BY <1>0, <2>5, NoAddType DEF CountRows, AddGoto, WatchTypeOK, Listed
    <3>2. QED
      BY <1>0, <2>1, <3>1, NothingNewPromised DEF Promised
  <2>6. CASE ReadEvidence(a)
    <3>1. past(a) /\ (past2(a) => adder'[a].key = adder[a].key) /\ Listed' = Listed
      BY <1>0, <2>6, NoAddType DEF ReadEvidence, AddGoto, WatchTypeOK, Listed
    <3>2. QED
      BY <1>0, <2>1, <3>1, NothingNewPromised DEF Promised
  <2>7. CASE InsertRow(a)
    <3>1. past(a) /\ ~past2(a) /\ Listed' = Listed \cup {adder[a].key}
      BY <1>0, <2>7, NoAddType DEF InsertRow, AddGoto, WatchTypeOK, Listed
    <3>2. QED
      BY <1>0, <2>1, <3>1, NothingNewPromised DEF Promised
  <2>8. QED
    BY <1>1, <2>2, <2>3, <2>4, <2>5, <2>6, <2>7 DEF AddStep
<1>2. CASE adder' = adder /\ Listed' \subseteq Listed
  BY <1>0, <1>2, NothingNewPromised DEF Promised
<1>3. ASSUME NEW r \in Refresher, RefreshStep(r) \/ CancelRefresh(r) \/ CrashRefresh(r)
      PROVE adder' = adder /\ Listed' \subseteq Listed
  <2>1. CASE MarkChecked(r)
    BY <2>1 DEF MarkChecked, Marked, Listed
  <2>2. CASE ~MarkChecked(r)
    BY <1>3, <2>2 DEF RefreshStep, StartRefresh, TakeEntry, Inspect, Record, MarkRefused,
                      FinishRefresh, CancelRefresh, CrashRefresh, Listed
  <2>3. QED
    BY <2>1, <2>2
<1>4. CASE Tick \/ UNCHANGED watchVars
  <2>1. adder' = adder /\ watch' = watch
    BY <1>4 DEF Tick, watchVars
  <2>2. QED
    BY <1>2, <2>1 DEF Listed
<1>5. CASE RemovePriceWatch \/ PurgePriceWatches
  <2>1. adder' = adder
    BY <1>5 DEF RemovePriceWatch, PurgePriceWatches
  <2>2. DOMAIN watch' \subseteq Listed
    <3>1. CASE RemovePriceWatch
      BY <3>1 DEF RemovePriceWatch
    <3>2. CASE PurgePriceWatches
      BY <3>2 DEF PurgePriceWatches
    <3>3. QED
      BY <1>5, <3>1, <3>2
  <2>3. QED
    BY <1>2, <2>1, <2>2 DEF Listed
<1>6. QED
  BY <1>1, <1>2, <1>3, <1>4, <1>5 DEF WatchNext

-----------------------------------------------------------------------------
(* What a step may do to the rows.                                         *)

\* The steps that do not write a row leave each surviving row as it is.
LEMMA OtherStepsKeepRows ==
  ASSUME [WatchNext]_watchVars, \A a \in Adder : ~InsertRow(a), \A r \in Refresher : ~MarkChecked(r)
  PROVE  /\ DOMAIN watch' \subseteq Listed
         /\ \A k \in DOMAIN watch' : watch'[k] = watch[k]
<1>1. CASE UNCHANGED watchVars
  BY <1>1 DEF watchVars, Listed
<1>2. CASE \E a \in Adder : AddStep(a)
  <2>1. watch' = watch
    BY <1>2 DEF AddStep, StartAdd, LookUp, CountRows, ReadEvidence, AbandonAdd
  <2>2. QED
    BY <2>1 DEF Listed
<1>3. CASE \E r \in Refresher : RefreshStep(r) \/ CancelRefresh(r) \/ CrashRefresh(r)
  <2>1. watch' = watch
    BY <1>3 DEF RefreshStep, StartRefresh, TakeEntry, Inspect, Record, MarkRefused,
                FinishRefresh, CancelRefresh, CrashRefresh
  <2>2. QED
    BY <2>1 DEF Listed
<1>4. CASE Tick
  <2>1. watch' = watch
    BY <1>4 DEF Tick
  <2>2. QED
    BY <2>1 DEF Listed
<1>5. CASE RemovePriceWatch
  BY <1>5 DEF RemovePriceWatch
<1>6. CASE PurgePriceWatches
  BY <1>6 DEF PurgePriceWatches
<1>7. QED
  BY <1>1, <1>2, <1>3, <1>4, <1>5, <1>6 DEF WatchNext

LEMMA MarkKeepsRows ==
  ASSUME WatchTypeOK, OutcomeKnown, NEW r \in Refresher, MarkChecked(r)
  PROVE  /\ DOMAIN watch' = Listed
         /\ \A k \in Listed : \/ watch'[k] = watch[k]
                              \/ /\ watch'[k].added = watch[k].added
                                 /\ watch'[k].checked # Never
                                 /\ watch'[k].status # "pending"
<1>1. refresh[r].stamp \in Time /\ refresh[r].status # "pending"
  BY DEF WatchTypeOK, RefreshCall, OutcomeKnown, MarkChecked
<1>2. refresh[r].stamp # Never
  BY <1>1, WatchBoundsAssumption DEF Time, Never
<1>3. QED
  BY <1>1, <1>2 DEF MarkChecked, Marked, CheckedRow

\* A row InsertRow adds has not been checked; the others stay as they are.
LEMMA InsertKeepsRows ==
  ASSUME NEW a \in Adder, InsertRow(a)
  PROVE  /\ DOMAIN watch' = Listed \cup {adder[a].key}
         /\ \A k \in Listed : watch'[k] = watch[k]
         /\ \A k \in DOMAIN watch' \ Listed : watch'[k].checked = Never
  BY DEF InsertRow, UpsertedRow, NewRow

LEMMA NextCheckedHasOutcome == WatchIInv /\ [WatchNext]_watchVars => CheckedHasOutcome'
<1> SUFFICES ASSUME WatchIInv, [WatchNext]_watchVars PROVE CheckedHasOutcome'
  OBVIOUS
<1>1. WatchTypeOK /\ OutcomeKnown /\ CheckedHasOutcome
  BY DEF WatchIInv
<1>2. CASE \E a \in Adder : InsertRow(a)
  BY <1>1, <1>2, InsertKeepsRows DEF CheckedHasOutcome, Listed
<1>3. CASE \E r \in Refresher : MarkChecked(r)
  BY <1>1, <1>3, MarkKeepsRows DEF CheckedHasOutcome, Listed
<1>4. CASE (\A a \in Adder : ~InsertRow(a)) /\ (\A r \in Refresher : ~MarkChecked(r))
  BY <1>1, <1>4, OtherStepsKeepRows DEF CheckedHasOutcome, Listed
<1>5. QED
  BY <1>2, <1>3, <1>4

-----------------------------------------------------------------------------
(* The theorems.                                                           *)

LEMMA InitWatchIInv == WatchInit => WatchIInv
<1> SUFFICES ASSUME WatchInit PROVE WatchIInv
  OBVIOUS
<1>1. Listed = {} /\ Promised = {}
  BY NoAddType DEF WatchInit, Listed, Promised
<1>2. Cardinality(Adder) \in Nat
  BY FS_CardinalityType, AdderAssumption
<1>3. PromisesBounded
  BY <1>1, <1>2, FS_EmptySet, WatchBoundsAssumption DEF PromisesBounded
<1>4. CheckedHasOutcome
  BY <1>1 DEF CheckedHasOutcome
<1>5. QED
  BY <1>3, <1>4, InitWatchTypeOK DEF WatchIInv

\* The strengthened invariant holds of every behaviour.
THEOREM WatchInvariance == WatchSpec => []WatchIInv
<1>1. WatchIInv /\ [WatchNext]_watchVars => WatchIInv'
  BY NextWatchTypeOK, NextCheckedHasOutcome, NextPromisesBounded DEF WatchIInv
<1>2. QED
  BY InitWatchIInv, <1>1, PTL DEF WatchSpec

\* Tables and locals keep their types, and a refresh that marks a watch has one.
THEOREM WatchTypeCorrect == WatchSpec => []WatchTypeOK
<1>1. WatchIInv => WatchTypeOK
  BY DEF WatchIInv
<1>2. QED
  BY <1>1, WatchInvariance, PTL

\* However many callers add watches at once and whatever they interleave with,
\* the watchlist exceeds its limit by less than the number of callers.
THEOREM LimitOverrunBounded == WatchSpec => []WatchlistBounded
<1>1. WatchIInv => WatchlistBounded
  <2> SUFFICES ASSUME WatchIInv PROVE WatchlistBounded
    OBVIOUS
  <2>1. Cardinality(Listed) <= Cardinality(Listed \cup Promised)
    BY FS_Subset DEF WatchIInv, PromisesBounded
  <2>2. /\ Cardinality(Listed) \in Nat /\ Cardinality(Listed \cup Promised) \in Nat
        /\ Cardinality(Adder) \in Nat
    BY FS_Subset, FS_CardinalityType, AdderAssumption DEF WatchIInv, PromisesBounded
  <2>3. QED
    BY <2>1, <2>2, WatchBoundsAssumption DEF WatchIInv, PromisesBounded, WatchlistBounded
<1>2. QED
  BY <1>1, WatchInvariance, PTL

\* A watch that was removed is listed again by an insertion only.
THEOREM OnlyInsertionsList == WatchSpec => RemovedStaysRemoved
<1> DEFINE Listing == \A k \in DOMAIN watch' \ Listed :
                          \E a \in Adder : adder[a].pc = "insert" /\ adder[a].key = k
<1>1. WatchIInv /\ [WatchNext]_watchVars => Listing
  <2> SUFFICES ASSUME WatchIInv, [WatchNext]_watchVars PROVE Listing
    OBVIOUS
  <2>1. CASE \E a \in Adder : InsertRow(a)
    BY <2>1, InsertKeepsRows DEF InsertRow
  <2>2. CASE \E r \in Refresher : MarkChecked(r)
    BY <2>2, MarkKeepsRows DEF WatchIInv
  <2>3. CASE (\A a \in Adder : ~InsertRow(a)) /\ (\A r \in Refresher : ~MarkChecked(r))
    BY <2>3, OtherStepsKeepRows
  <2>4. QED
    BY <2>1, <2>2, <2>3
<1>2. QED
  BY <1>1, WatchInvariance, PTL DEF WatchSpec, RemovedStaysRemoved

\* No addition, refresh, removal or purge resets when a surviving watch was added
\* or makes a checked watch look unchecked.
THEOREM HistorySurvivesAdds == WatchSpec => CheckHistoryKept
<1> DEFINE Keeping ==
        \A k \in Listed \cap DOMAIN watch' :
            /\ watch'[k].added = watch[k].added
            /\ watch[k].checked # Never =>
                   watch'[k].checked # Never /\ watch'[k].status # "pending"
<1>1. WatchIInv /\ [WatchNext]_watchVars => Keeping
  <2> SUFFICES ASSUME WatchIInv, [WatchNext]_watchVars PROVE Keeping
    OBVIOUS
  <2>0. CheckedHasOutcome
    BY DEF WatchIInv
  <2>1. CASE \E a \in Adder : InsertRow(a)
    BY <2>0, <2>1, InsertKeepsRows DEF CheckedHasOutcome
  <2>2. CASE \E r \in Refresher : MarkChecked(r)
    BY <2>0, <2>2, MarkKeepsRows DEF WatchIInv, CheckedHasOutcome
  <2>3. CASE (\A a \in Adder : ~InsertRow(a)) /\ (\A r \in Refresher : ~MarkChecked(r))
    BY <2>0, <2>3, OtherStepsKeepRows DEF CheckedHasOutcome
  <2>4. QED
    BY <2>1, <2>2, <2>3
<1>2. QED
  BY <1>1, WatchInvariance, PTL DEF WatchSpec, CheckHistoryKept

=============================================================================

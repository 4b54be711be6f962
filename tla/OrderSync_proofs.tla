-------------------------- MODULE OrderSync_proofs --------------------------
(***************************************************************************)
(* Theorems about OrderSync, for every set of attempts, cursors, orders    *)
(* and sources and every bound.                                            *)
(***************************************************************************)
EXTENDS OrderSync, FiniteSetLemmas

-----------------------------------------------------------------------------
(* Types.                                                                  *)

\* The stages between a committed begin transaction and FinishSync.
Working == {"loop", "fetch", "apply", "left", "finish"}

\* A working attempt knows its run, and that run its scan.
Assigned ==
    \A p \in Attempt : att[p].pc \in Working =>
        att[p].run \in RunId /\ runs[att[p].run].scan \in ScanId

\* The placeholder source of empty rows is a source.
LEMMA AnySourceType == AnySource \in Source
  BY SourceAssumption DEF AnySource

\* Fresh locals and fresh rows have their types.
LEMMA NewCallType ==
  ASSUME NEW stage \in Stage, NEW budget \in 1..MaxBudget,
         NEW restart \in BOOLEAN, NEW source \in Source
  PROVE  NewCall(stage, budget, restart, source) \in Local
  BY BoundsAssumption DEF NewCall, Local, ErrorCode, Key, Page, NoPage

LEMMA IdleType == Idle \in Local /\ Returning \in Local
<1>1. "idle" \in Stage /\ "unlock" \in Stage /\ 1 \in 1..MaxBudget
  BY BoundsAssumption DEF Stage
<1>2. QED
  BY <1>1, NewCallType, AnySourceType DEF Idle, Returning

LEMMA RunRowType ==
  ASSUME NEW status \in {"none", "running"}, NEW s \in 0..MaxScans,
         NEW src \in Source
  PROVE  RunRow(status, s, src) \in Run
  BY DEF RunRow, Run, ErrorCode

\* The codes fail() can store are error codes.
LEMMA FailCodeType ==
  ASSUME TypeOK, NEW p \in Attempt, NEW code \in ErrorCode
  PROVE  FailCode(p, code) \in ErrorCode
<1>1. att[p].ctx \in StopCause \cup {"live"}
  BY DEF TypeOK, Local
<1>2. QED
  BY <1>1 DEF FailCode, ErrorCode

LEMMA InitTypeOK == Init => TypeOK
<1> SUFFICES ASSUME Init PROVE TypeOK
  OBVIOUS
<1>1. NoRun \in Run /\ LegacyRun \in Run
  BY RunRowType, AnySourceType, BoundsAssumption DEF NoRun, LegacyRun
<1>2. NoScan(AnySource) \in Scan
  BY AnySourceType DEF NoScan, Scan, Key
<1>3. pages \in [ScanId -> Seq(PageRow)]
  BY DEF Init
<1>4. QED
  BY <1>1, <1>2, <1>3, IdleType DEF Init, TypeOK

\* Steps that leave the ledger alone and change only the locals of one attempt.
LEMMA LocalStepTypeOK ==
  ASSUME TypeOK, NEW p \in Attempt, NEW l \in Local, Becomes(p, l),
         UNCHANGED ledgerVars, lock' \in Attempt \cup {NoOne}
  PROVE  TypeOK'
  BY DEF TypeOK, Becomes, ledgerVars

LEMMA FailTypeOK ==
  ASSUME TypeOK, NEW p \in Attempt, NEW code \in ErrorCode, Fail(p, code),
         UNCHANGED <<ledgerVars, lock>>
  PROVE  TypeOK'
<1>1. [att[p] EXCEPT !.pc = "finish", !.code = FailCode(p, code)] \in Local
  <2>1. att[p] \in Local
    BY DEF TypeOK
  <2>2. FailCode(p, code) \in ErrorCode
    BY FailCodeType
  <2>3. QED
    BY <2>1, <2>2 DEF Local, Stage
<1>2. QED
  BY <1>1, LocalStepTypeOK DEF Fail, TypeOK, ledgerVars

\* The context of an attempt that refuses a cursor because it has ended names
\* the cause: the code given to fail() is not the one stored.
LEMMA LoopFailTypeOK ==
  ASSUME TypeOK, NEW p \in Attempt, NEW code \in {"canceled", "cursor_loop", "storage"},
         Fail(p, code), UNCHANGED <<ledgerVars, lock>>,
         code = "canceled" => att[p].ctx # "live"
  PROVE  TypeOK'
<1>1. FailCode(p, code) \in ErrorCode
  BY DEF FailCode, ErrorCode, TypeOK, Local
<1>2. [att[p] EXCEPT !.pc = "finish", !.code = FailCode(p, code)] \in Local
  BY <1>1 DEF TypeOK, Local, Stage
<1>3. QED
  BY <1>2, LocalStepTypeOK DEF Fail, TypeOK, ledgerVars

LEMMA GotoType ==
  ASSUME TypeOK, NEW p \in Attempt, NEW stage \in Stage
  PROVE  [att[p] EXCEPT !.pc = stage] \in Local
  BY DEF TypeOK, Local

\* The rows a begin transaction leaves in sync_runs.
LEMMA OpenRunTypes ==
  ASSUME TypeOK, NEW p \in Attempt, NEW s \in ScanId, OpenRun(p, s)
  PROVE  /\ runs' \in [RunId -> Run]
         /\ att' \in [Attempt -> Local]
<1>1. PICK r \in RunId :
         /\ runs' = [Interrupted EXCEPT ![r] = RunRow("running", s, att[p].source)]
         /\ Becomes(p, [att[p] EXCEPT !.pc = "loop", !.run = r,
                                      !.cursor = FirstCursor(p)])
  BY DEF OpenRun
<1>2. att[p] \in Local /\ att[p].source \in Source /\ att[p].cursor \in Key
  BY DEF TypeOK, Local
<1>3. FirstCursor(p) \in Key
  BY <1>2 DEF FirstCursor, Key
<1>4. r \in 0..MaxRuns /\ s \in 0..MaxScans
  BY BoundsAssumption DEF RunId, ScanId
<1>5. [att[p] EXCEPT !.pc = "loop", !.run = r, !.cursor = FirstCursor(p)] \in Local
  BY <1>2, <1>3, <1>4 DEF Local, Stage
<1>6. att' \in [Attempt -> Local]
  BY <1>1, <1>5 DEF Becomes, TypeOK
<1>7. Interrupted \in [RunId -> Run]
  <2> SUFFICES ASSUME NEW q \in RunId PROVE Interrupted[q] \in Run
    BY DEF Interrupted
  <2>1. runs[q] \in Run
    BY DEF TypeOK
  <2>2. [runs[q] EXCEPT !.status = "failed", !.code = "interrupted"] \in Run
    BY <2>1 DEF Run, ErrorCode
  <2>3. QED
    BY <2>1, <2>2 DEF Interrupted
<1>8. RunRow("running", s, att[p].source) \in Run
  BY <1>2, <1>4, RunRowType
<1>9. QED
  BY <1>1, <1>6, <1>7, <1>8

LEMMA StartScanTypeOK ==
  ASSUME TypeOK, NEW p \in Attempt, StartScan(p) PROVE TypeOK'
<1> DEFINE first == FirstCursor(p)
           retired == [s \in ScanId |->
                          IF Live(s) THEN [scans[s] EXCEPT !.superseded = TRUE]
                          ELSE scans[s]]
           row == [state |-> "active", superseded |-> FALSE,
                   source |-> att[p].source,
                   fromStart |-> first = Nil, next |-> first]
<1>1. PICK s \in ScanId : /\ scans' = [retired EXCEPT ![s] = row]
                          /\ OpenRun(p, s)
                          /\ checkpoint' = CheckpointAtBegin(p)
  BY DEF StartScan
<1>2. att[p].source \in Source /\ att[p].cursor \in Key
  BY DEF TypeOK, Local
<1>3. row \in Scan
  BY <1>2 DEF Scan, FirstCursor, Key
<1>4. retired \in [ScanId -> Scan]
  <2> SUFFICES ASSUME NEW t \in ScanId PROVE retired[t] \in Scan
    OBVIOUS
  <2>1. scans[t] \in Scan
    BY DEF TypeOK
  <2>2. [scans[t] EXCEPT !.superseded = TRUE] \in Scan
    BY <2>1 DEF Scan
  <2>3. QED
    BY <2>1, <2>2
<1>5. scans' \in [ScanId -> Scan]
  BY <1>1, <1>3, <1>4
<1>6. checkpoint' \in Key
  BY <1>1 DEF CheckpointAtBegin, Key, TypeOK
<1>7. QED
  BY <1>1, <1>5, <1>6, OpenRunTypes DEF StartScan, TypeOK

LEMMA ResumeScanTypeOK ==
  ASSUME TypeOK, NEW p \in Attempt, ResumeScan(p) PROVE TypeOK'
<1>1. PICK s \in ScanId : OpenRun(p, s)
  BY DEF ResumeScan
<1>2. QED
  BY <1>1, OpenRunTypes DEF ResumeScan, TypeOK

LEMMA ApplyPageTypeOK ==
  ASSUME TypeOK, Assigned, NEW p \in Attempt, ApplyPage(p) PROVE TypeOK'
<1> DEFINE r == att[p].run
           s == runs[r].scan
           page == att[p].page
           last == page.next = Nil
           size == Cardinality(page.orders)
<1>1. /\ att[p] \in Local /\ r \in 0..MaxRuns /\ att[p].cursor \in Key
      /\ page \in Page /\ page.next \in Key /\ page.orders \in SUBSET Order
  BY DEF TypeOK, Local, Page
<1>2. size \in Nat
  BY <1>1, OrderAssumption, FS_Subset, FS_CardinalityType
<1>7. r \in RunId /\ s \in ScanId
  BY DEF Assigned, Working, ApplyPage
<1>3. runs' \in [RunId -> Run]
  <2> DEFINE row == [runs[r] EXCEPT !.pages = runs[r].pages + 1,
                                    !.records = runs[r].records + size,
                                    !.exhausted = IF last THEN "true" ELSE "false"]
  <2>1. runs[r] \in Run
    BY <1>7 DEF TypeOK
  <2>2. runs[r].pages + 1 \in Nat /\ runs[r].records + size \in Nat
    BY <2>1, <1>2 DEF Run
  <2>3. (IF last THEN "true" ELSE "false") \in {"null", "false", "true"}
    OBVIOUS
  <2>4. row \in Run
    <3> HIDE DEF last, size
    <3> QED BY <2>1, <2>2, <2>3 DEF Run
  <2>5. runs' = [runs EXCEPT ![r] = row]
    BY <2>1 DEF ApplyPage, ProgressedRun, Run
  <2>6. QED
    BY <2>4, <2>5 DEF TypeOK
<1>4. Append(pages[s], [cursor |-> att[p].cursor, run |-> r,
                        next |-> page.next]) \in Seq(PageRow)
  <2>1. [cursor |-> att[p].cursor, run |-> r, next |-> page.next] \in PageRow
    BY <1>1, <1>7 DEF PageRow
  <2>2. pages[s] \in Seq(PageRow)
    BY <1>7 DEF TypeOK
  <2>3. QED
    BY <2>1, <2>2
<1>5. scans' \in [ScanId -> Scan]
  <2> DEFINE row == [scans[s] EXCEPT !.next = page.next,
                        !.state = IF last THEN "exhausted" ELSE scans[s].state]
  <2>1. scans[s] \in Scan
    BY <1>7 DEF TypeOK
  <2>2. (IF last THEN "exhausted" ELSE scans[s].state) \in {"none", "active", "exhausted"}
    BY <2>1 DEF Scan
  <2>3. row \in Scan
    <3> HIDE DEF last
    <3> QED BY <2>1, <2>2, <1>1 DEF Scan
  <2>4. scans' = [scans EXCEPT ![s] = row]
    BY <2>1 DEF ApplyPage, MovedScan, Scan
  <2>5. QED
    BY <2>3, <2>4 DEF TypeOK
<1>6. Advanced(p) \in Local
  <2> DEFINE stage == IF last THEN "left" ELSE "loop"
  <2>1. stage \in Stage
    BY DEF Stage
  <2>2. att[p].pages + 1 \in Nat /\ att[p].records + size \in Nat
    BY <1>1, <1>2 DEF Local
  <2>3. NoPage \in Page
    BY DEF NoPage, Page, Key
  <2>4. Advanced(p) = [att[p] EXCEPT !.pc = stage, !.cursor = page.next,
                          !.page = NoPage, !.pages = att[p].pages + 1,
                          !.records = att[p].records + size]
    BY <1>1 DEF Advanced, Local
  <2>5. QED
    <3> HIDE DEF stage, size
    <3> QED BY <1>1, <2>1, <2>2, <2>3, <2>4 DEF Local
<1>8. checkpoint' \in Key /\ lock' \in Attempt \cup {NoOne}
  BY <1>1 DEF ApplyPage, TypeOK
<1>9. orders' \in SUBSET Order /\ observed' \in SUBSET (RunId \X Order)
  BY <1>1, <1>7 DEF ApplyPage, TypeOK
<1>10. pages' \in [ScanId -> Seq(PageRow)]
  BY <1>4 DEF ApplyPage, TypeOK
<1>11. att' \in [Attempt -> Local]
  BY <1>6 DEF ApplyPage, Becomes, TypeOK
<1>12. QED
  BY <1>3, <1>5, <1>8, <1>9, <1>10, <1>11 DEF ApplyPage, TypeOK

LEMMA FinishRunTypeOK ==
  ASSUME TypeOK, NEW p \in Attempt, FinishRun(p) PROVE TypeOK'
<1> DEFINE r == att[p].run
<1>1. att[p] \in Local
  BY DEF TypeOK
<1>2. ASSUME r \in RunId
      PROVE  [runs[r] EXCEPT !.status = IF att[p].code = "" THEN "completed"
                                        ELSE "failed",
                             !.code = att[p].code, !.pages = att[p].pages,
                             !.records = att[p].records] \in Run
  <2>1. runs[r] \in Run
    BY <1>2 DEF TypeOK
  <2>2. /\ att[p].code \in ErrorCode /\ att[p].pages \in Nat
        /\ att[p].records \in Nat
    BY <1>1 DEF Local
  <2>3. QED
    BY <2>1, <2>2 DEF Run
<1>3. runs' \in [RunId -> Run]
  BY <1>2 DEF FinishRun, TypeOK
<1>4. att' \in [Attempt -> Local]
  BY IdleType DEF FinishRun, Return, Becomes, TypeOK
<1>5. QED
  BY <1>3, <1>4 DEF FinishRun, TypeOK

\* Every action keeps the types.
LEMMA NextTypeOK == TypeOK /\ Assigned /\ [Next]_vars => TypeOK'
<1> SUFFICES ASSUME TypeOK, Assigned, [Next]_vars PROVE TypeOK'
  OBVIOUS
<1>1. ASSUME NEW p \in Attempt, Acquire(p) PROVE TypeOK'
  <2>1. PICK l \in Local : Becomes(p, l)
    BY <1>1, NewCallType DEF Acquire, Stage
  <2>2. QED
    BY <1>1, <2>1, LocalStepTypeOK DEF Acquire
<1>2. ASSUME NEW p \in Attempt, LoadCursor(p) PROVE TypeOK'
  <2>1. [att[p] EXCEPT !.pc = "begin", !.cursor = checkpoint] \in Local
    <3>1. att[p] \in Local /\ checkpoint \in Key
      BY DEF TypeOK
    <3>2. QED
      BY <3>1 DEF Local, Stage
  <2>2. QED
    BY <1>2, <2>1, LocalStepTypeOK DEF LoadCursor, TypeOK
<1>3. ASSUME NEW p \in Attempt,
             GiveUp(p) \/ RefuseBegin(p) \/ FinishFails(p) PROVE TypeOK'
  BY <1>3, IdleType, LocalStepTypeOK
     DEF GiveUp, RefuseBegin, FinishFails, Return, TypeOK
<1>4. ASSUME NEW p \in Attempt, TakeCursor(p) PROVE TypeOK'
  <2>1. [att[p] EXCEPT !.pc = "fetch", !.seen = @ \cup {att[p].cursor}] \in Local
    <3>1. /\ att[p] \in Local /\ att[p].seen \in SUBSET Key
          /\ att[p].cursor \in Key
      BY DEF TypeOK, Local
    <3>2. att[p].seen \cup {att[p].cursor} \in SUBSET Key
      BY <3>1
    <3>3. QED
      BY <3>1, <3>2 DEF Local, Stage
  <2>2. QED
    BY <1>4, <2>1, LocalStepTypeOK DEF TakeCursor, TypeOK
<1>5. ASSUME NEW p \in Attempt, RefuseCursor(p) PROVE TypeOK'
  <2>1. PICK code \in {"canceled", "cursor_loop", "storage"} :
           Fail(p, code) /\ (code = "canceled" => att[p].ctx # "live")
    BY <1>5 DEF RefuseCursor
  <2>2. QED
    BY <1>5, <2>1, LoopFailTypeOK DEF RefuseCursor
<1>6. ASSUME NEW p \in Attempt, SpendBudget(p) PROVE TypeOK'
  BY <1>6, GotoType, LocalStepTypeOK DEF SpendBudget, Goto, Stage, TypeOK
<1>7. ASSUME NEW p \in Attempt, FetchPage(p) PROVE TypeOK'
  <2>1. ASSUME NEW page \in Page
        PROVE  [att[p] EXCEPT !.pc = "apply", !.page = page] \in Local
    <3>1. att[p] \in Local
      BY DEF TypeOK
    <3>2. QED
      BY <3>1 DEF Local, Stage
  <2>2. QED
    BY <1>7, <2>1, LocalStepTypeOK DEF FetchPage, TypeOK
<1>8. ASSUME NEW p \in Attempt,
             FetchFails(p) \/ ApplyFails(p) \/ LeaveLoop(p) PROVE TypeOK'
  <2>1. PICK code \in ErrorCode : Fail(p, code)
    <3>1. CASE FetchFails(p)
      BY <3>1 DEF FetchFails, ErrorCode
    <3>2. CASE ApplyFails(p)
      <4>1. PICK code \in {"storage", "page_deadline_exceeded"} : Fail(p, code)
        BY <3>2 DEF ApplyFails
      <4>2. code \in ErrorCode
        BY <4>1 DEF ErrorCode
      <4>3. QED
        BY <4>1, <4>2
    <3>3. CASE LeaveLoop(p)
      BY <3>3 DEF LeaveLoop, ErrorCode
    <3>4. QED
      BY <1>8, <3>1, <3>2, <3>3
  <2>2. QED
    BY <1>8, <2>1, FailTypeOK DEF FetchFails, ApplyFails, LeaveLoop
<1>9. ASSUME NEW p \in Attempt, Unlock(p) \/ Crash(p) PROVE TypeOK'
  BY <1>9, IdleType, LocalStepTypeOK DEF Unlock, Crash
<1>10. ASSUME NEW p \in Attempt, EndContext(p) PROVE TypeOK'
  <2>1. ASSUME NEW cause \in StopCause
        PROVE  [att[p] EXCEPT !.ctx = cause] \in Local
    BY DEF TypeOK, Local
  <2>2. QED
    BY <1>10, <2>1, LocalStepTypeOK DEF EndContext, TypeOK
<1>11. CASE Purge
  BY <1>11 DEF Purge, Cascade, TypeOK
<1>12. CASE Import
  BY <1>12 DEF Import, TypeOK
<1>13. CASE UNCHANGED vars
  BY <1>13 DEF vars, TypeOK
<1>14. QED
  BY <1>1, <1>2, <1>3, <1>4, <1>5, <1>6, <1>7, <1>8, <1>9, <1>10, <1>11, <1>12,
     <1>13, ResumeScanTypeOK, StartScanTypeOK, ApplyPageTypeOK, FinishRunTypeOK
     DEF Next, Step

-----------------------------------------------------------------------------
(* The inductive invariant.                                                *)

\* The advisory lock: exactly the call that is not idle holds it.
Exclusive == \A p \in Attempt : att[p].pc # "idle" <=> lock = p

\* The unique index sync_one_active_scan.
OneLive == \A s, t \in ScanId : Live(s) /\ Live(t) => s = t

Reading == {"loop", "fetch", "apply"}

\* What the begin transaction established still holds while the call works:
\* its run is open, its cursor is the head of the pending scan, and the cursor
\* it is fetching or applying was checked not to be visited.
OwnerState ==
    \A p \in Attempt :
        /\ att[p].pc \in Working => runs[att[p].run].status = "running"
        /\ att[p].pc \in Reading =>
              /\ Live(runs[att[p].run].scan)
              /\ scans[runs[att[p].run].scan].next = att[p].cursor
        /\ att[p].pc \in {"fetch", "apply"} => ~CursorVisited(p)

IInv ==
    /\ TypeOK
    /\ Assigned
    /\ Exclusive
    /\ OneLive
    /\ CheckpointIsHead
    /\ OneOpenRun
    /\ OwnerState

LEMMA InitIInv == Init => IInv
<1> SUFFICES ASSUME Init PROVE IInv
  OBVIOUS
<1>1. TypeOK
  BY InitTypeOK
<1>2. \A p \in Attempt : att[p].pc = "idle"
  BY DEF Init, Idle, NewCall
<1>3. \A s \in ScanId : ~Live(s) /\ scans[s].state = "none"
  BY DEF Init, Live, NoScan
<1>4. \A r \in RunId : ~Managed(r)
  <2>1. ASSUME NEW r \in RunId PROVE runs[r].scan = 0
    <3>1. NoRun.scan = 0 /\ LegacyRun.scan = 0
      BY DEF NoRun, LegacyRun, RunRow
    <3>2. runs[r] = NoRun \/ runs[r] = LegacyRun
      BY DEF Init
    <3>3. QED
      BY <3>1, <3>2
  <2>2. QED
    BY <2>1 DEF Managed
<1>5. Assigned /\ OwnerState
  BY <1>2 DEF Assigned, OwnerState, Working, Reading
<1>6. Exclusive
  BY <1>2, SentinelAssumption DEF Exclusive, Init
<1>7. OneLive /\ CheckpointIsHead /\ OneOpenRun
  BY <1>3, <1>4 DEF OneLive, CheckpointIsHead, OneOpenRun
<1>8. QED
  BY <1>1, <1>5, <1>6, <1>7 DEF IInv

\* A step of the lock holder that leaves the ledger alone.
LEMMA LocalStepIInv ==
  ASSUME IInv, TypeOK', NEW p \in Attempt, NEW l, Becomes(p, l),
         UNCHANGED <<ledgerVars, lock>>,
         att[p].pc # "idle", l.pc # "idle",
         l.pc \in Working => att[p].pc \in Working /\ l.run = att[p].run,
         l.pc \in Reading => att[p].pc \in Reading /\ l.cursor = att[p].cursor,
         l.pc \in {"fetch", "apply"} =>
            att[p].pc \in {"fetch", "apply"} \/ ~CursorVisited(p)
  PROVE  IInv'
<1> USE DEF IInv
<1>1. /\ att'[p] = l
      /\ \A q \in Attempt : q # p => att'[q] = att[q] /\ att[q].pc = "idle"
      /\ UNCHANGED <<checkpoint, scans, pages, runs, orders, observed, lock>>
  BY DEF Becomes, TypeOK, Exclusive, ledgerVars
<1>2. Assigned'
  BY <1>1 DEF Assigned, Working
<1>3. Exclusive'
  BY <1>1 DEF Exclusive
<1>4. OneLive' /\ CheckpointIsHead' /\ OneOpenRun'
  BY <1>1 DEF OneLive, CheckpointIsHead, OneOpenRun, Live, Managed
<1>5. OwnerState'
  <2> SUFFICES ASSUME NEW q \in Attempt
               PROVE  /\ att'[q].pc \in Working => runs[att'[q].run].status = "running"
                      /\ att'[q].pc \in Reading =>
                            /\ Live(runs[att'[q].run].scan)
                            /\ scans[runs[att'[q].run].scan].next = att'[q].cursor
                      /\ att'[q].pc \in {"fetch", "apply"} => ~CursorVisited(q)'
    BY <1>1 DEF OwnerState, Live
  <2>1. CASE q # p
    BY <1>1, <2>1 DEF Working, Reading
  <2>2. CASE q = p
    <3>1. l.pc \in Working => runs[l.run].status = "running"
      BY DEF OwnerState
    <3>2. l.pc \in Reading => l.pc \in Working
      BY DEF Reading, Working
    <3>3. l.pc \in Reading => /\ Live(runs[l.run].scan)
                             /\ scans[runs[l.run].scan].next = l.cursor
      BY <3>2 DEF OwnerState
    <3>4. ASSUME l.pc \in {"fetch", "apply"} PROVE ~CursorVisited(p)'
      <4>1. l.pc \in Reading /\ l.pc \in Working
        BY <3>4 DEF Reading, Working
      <4>2. ~CursorVisited(p)
        BY <3>4 DEF OwnerState
      <4>3. CursorVisited(p)' = CursorVisited(p)
        BY <1>1, <4>1 DEF CursorVisited, Visited
      <4>4. QED
        BY <4>2, <4>3
    <3>5. QED
      BY <1>1, <2>2, <3>1, <3>3, <3>4
  <2>3. QED
    BY <2>1, <2>2
<1>6. QED
  BY <1>2, <1>3, <1>4, <1>5

\* A call that starts, and a call that returns or dies: the ledger stays.
LEMMA AcquireIInv ==
  ASSUME IInv, TypeOK', NEW p \in Attempt, Acquire(p) PROVE IInv'
<1> USE DEF IInv
<1>1. /\ att'[p].pc = "load"
      /\ \A q \in Attempt : q # p => att'[q] = att[q] /\ att[q].pc = "idle"
      /\ lock = NoOne /\ lock' = p
      /\ UNCHANGED <<checkpoint, scans, pages, runs, orders, observed>>
  <2>1. att'[p].pc = "load" /\ \A q \in Attempt : q # p => att'[q] = att[q]
    <3>1. PICK budget \in 1..MaxBudget, restart \in BOOLEAN, source \in Source :
             att' = [att EXCEPT ![p] = NewCall("load", budget, restart, source)]
      BY DEF Acquire, Becomes
    <3>2. NewCall("load", budget, restart, source).pc = "load"
      BY DEF NewCall
    <3>3. QED
      BY <3>1, <3>2 DEF TypeOK
  <2>2. lock = NoOne /\ lock' = p
    BY DEF Acquire, LockFree
  <2>3. \A q \in Attempt : att[q].pc = "idle"
    BY <2>2, SentinelAssumption DEF Exclusive
  <2>4. QED
    BY <2>1, <2>2, <2>3 DEF Acquire, ledgerVars
<1>2. Assigned' /\ OwnerState'
  BY <1>1 DEF Assigned, OwnerState, Working, Reading
<1>3. Exclusive'
  BY <1>1 DEF Exclusive
<1>4. OneLive' /\ CheckpointIsHead' /\ OneOpenRun'
  BY <1>1 DEF OneLive, CheckpointIsHead, OneOpenRun, Live, Managed
<1>5. QED
  BY <1>2, <1>3, <1>4

LEMMA ReturnIInv ==
  ASSUME IInv, TypeOK', NEW p \in Attempt, Unlock(p) \/ Crash(p) PROVE IInv'
<1> USE DEF IInv
<1>1. /\ att'[p].pc = "idle"
      /\ \A q \in Attempt : q # p => att'[q] = att[q] /\ att[q].pc = "idle"
      /\ lock' = NoOne
      /\ UNCHANGED <<checkpoint, scans, pages, runs, orders, observed>>
  <2>1. att' = [att EXCEPT ![p] = Idle] /\ att[p].pc # "idle"
    BY DEF Unlock, Crash, Becomes
  <2>2. Idle.pc = "idle"
    BY DEF Idle, NewCall
  <2>3. att'[p].pc = "idle" /\ \A q \in Attempt : q # p => att'[q] = att[q]
    BY <2>1, <2>2 DEF TypeOK
  <2>4. \A q \in Attempt : q # p => att[q].pc = "idle"
    BY <2>1 DEF Exclusive
  <2>5. QED
    BY <2>3, <2>4 DEF Unlock, Crash, ledgerVars
<1>2. Assigned' /\ OwnerState'
  BY <1>1 DEF Assigned, OwnerState, Working, Reading
<1>3. Exclusive'
  BY <1>1, SentinelAssumption DEF Exclusive
<1>4. OneLive' /\ CheckpointIsHead' /\ OneOpenRun'
  BY <1>1 DEF OneLive, CheckpointIsHead, OneOpenRun, Live, Managed
<1>5. QED
  BY <1>2, <1>3, <1>4

\* The begin transaction leaves the new run as the only open managed run and
\* the caller at the head of the live scan.
LEMMA OpenRunEffect ==
  ASSUME IInv, TypeOK', NEW p \in Attempt, att[p].pc = "begin",
         NEW s \in ScanId, OpenRun(p, s), UNCHANGED lock,
         Live(s)', scans'[s].next = FirstCursor(p)
  PROVE  Assigned' /\ Exclusive' /\ OneOpenRun' /\ OwnerState'
<1> USE DEF IInv
<1>1. PICK r \in RunId :
         /\ NextRunId(r)
         /\ runs' = [Interrupted EXCEPT ![r] = RunRow("running", s, att[p].source)]
         /\ Becomes(p, [att[p] EXCEPT !.pc = "loop", !.run = r,
                                      !.cursor = FirstCursor(p)])
  BY DEF OpenRun
<1>2. /\ att'[p].pc = "loop" /\ att'[p].run = r /\ att'[p].cursor = FirstCursor(p)
      /\ \A q \in Attempt : q # p => att'[q] = att[q] /\ att[q].pc = "idle"
  <2>1. att[p] \in Local
    BY DEF TypeOK
  <2>2. QED
    BY <1>1, <2>1 DEF Becomes, TypeOK, Exclusive, Local
<1>3. runs'[r].status = "running" /\ runs'[r].scan = s
  BY <1>1 DEF RunRow, Interrupted
<1>4. \A q \in RunId : q # r => runs'[q] = Interrupted[q]
  BY <1>1 DEF Interrupted
<1>5. \A q \in RunId :
         /\ q # r /\ runs'[q].scan # 0 => runs'[q].status # "running"
         /\ q > r => runs'[q].status = "none"
  <2> SUFFICES ASSUME NEW q \in RunId, q # r
               PROVE  /\ runs'[q].scan # 0 => runs'[q].status # "running"
                      /\ q > r => runs'[q].status = "none"
    BY <1>1 DEF RunId
  <2>1. runs[q] \in Run
    BY DEF TypeOK
  <2>2. CASE runs[q].status = "running" /\ runs[q].scan # 0
    <3>1. runs'[q] = [runs[q] EXCEPT !.status = "failed", !.code = "interrupted"]
      BY <1>4, <2>2 DEF Interrupted
    <3>2. runs'[q].status = "failed"
      BY <2>1, <3>1 DEF Run
    <3>3. q < r
      BY <1>1, <2>2 DEF NextRunId
    <3>4. QED
      BY <3>2, <3>3 DEF RunId
  <2>3. CASE ~(runs[q].status = "running" /\ runs[q].scan # 0)
    <3>1. runs'[q] = runs[q]
      BY <1>4, <2>3 DEF Interrupted
    <3>2. q > r => runs[q].status = "none"
      BY <1>1 DEF NextRunId, RunId
    <3>3. QED
      BY <2>3, <3>1, <3>2
  <2>4. QED
    BY <2>2, <2>3
<1>6. Assigned'
  BY <1>2, <1>3 DEF Assigned, Working
<1>7. Exclusive'
  BY <1>2 DEF Exclusive
<1>8. OneOpenRun'
  BY <1>5 DEF OneOpenRun, Managed
<1>9. OwnerState'
  <2>1. ASSUME NEW q \in Attempt, q # p PROVE att'[q].pc \notin Working
    BY <1>2, <2>1 DEF Working
  <2>2. \A q \in Attempt : att'[q].pc \in Reading \cup {"fetch", "apply"} =>
           att'[q].pc \in Working
    BY DEF Reading, Working
  <2>3. att'[p].pc \notin {"fetch", "apply"}
    BY <1>2
  <2>4. /\ Live(s)' /\ scans'[s].next = att'[p].cursor
    BY <1>2
  <2>5. Live(runs[att[p].run].scan)'
    BY <1>2, <1>3
  <2>6. QED
    BY <1>2, <1>3, <2>1, <2>2, <2>3, <2>4, <2>5 DEF OwnerState
<1>10. QED
  BY <1>6, <1>7, <1>8, <1>9

LEMMA ResumeScanIInv ==
  ASSUME IInv, TypeOK', NEW p \in Attempt, ResumeScan(p) PROVE IInv'
<1> USE DEF IInv
<1>1. PICK s \in ScanId : /\ Live(s)
                          /\ scans[s].next = att[p].cursor
                          /\ OpenRun(p, s)
  BY DEF ResumeScan
<1>2. UNCHANGED <<checkpoint, scans, pages, orders, observed, lock>>
  BY DEF ResumeScan
<1>3. Live(s)' /\ scans'[s].next = FirstCursor(p)
  BY <1>1, <1>2 DEF Live, FirstCursor, ResumeScan
<1>4. Assigned' /\ Exclusive' /\ OneOpenRun' /\ OwnerState'
  BY <1>1, <1>2, <1>3, OpenRunEffect DEF ResumeScan
<1>5. OneLive' /\ CheckpointIsHead'
  BY <1>2 DEF OneLive, CheckpointIsHead, Live
<1>6. QED
  BY <1>4, <1>5

LEMMA StartScanIInv ==
  ASSUME IInv, TypeOK', NEW p \in Attempt, StartScan(p) PROVE IInv'
<1> USE DEF IInv
<1> DEFINE retired == [s \in ScanId |->
                          IF Live(s) THEN [scans[s] EXCEPT !.superseded = TRUE]
                          ELSE scans[s]]
           row == [state |-> "active", superseded |-> FALSE,
                   source |-> att[p].source,
                   fromStart |-> FirstCursor(p) = Nil, next |-> FirstCursor(p)]
<1>1. PICK s \in ScanId : /\ scans' = [retired EXCEPT ![s] = row]
                          /\ OpenRun(p, s)
                          /\ checkpoint' = CheckpointAtBegin(p)
  BY DEF StartScan
<1>2. Live(s)' /\ scans'[s].next = FirstCursor(p)
  BY <1>1 DEF Live
<1>3. \A t \in ScanId : t # s => ~Live(t)'
  <2> SUFFICES ASSUME NEW t \in ScanId, t # s PROVE ~Live(t)'
    OBVIOUS
  <2>1. scans'[t] = retired[t] /\ scans[t] \in Scan
    BY <1>1 DEF TypeOK
  <2>2. CASE Live(t)
    BY <2>1, <2>2 DEF Live, Scan
  <2>3. CASE ~Live(t)
    BY <2>1, <2>3 DEF Live
  <2>4. QED
    BY <2>2, <2>3
<1>4. checkpoint' = FirstCursor(p)
  BY <1>1 DEF CheckpointAtBegin, FirstCursor, StartScan
<1>5. Assigned' /\ Exclusive' /\ OneOpenRun' /\ OwnerState'
  BY <1>1, <1>2, OpenRunEffect DEF StartScan
<1>6. OneLive'
  BY <1>3 DEF OneLive
<1>7. CheckpointIsHead'
  BY <1>2, <1>3, <1>4 DEF CheckpointIsHead
<1>8. QED
  BY <1>5, <1>6, <1>7

LEMMA ApplyPageIInv ==
  ASSUME IInv, TypeOK', NEW p \in Attempt, ApplyPage(p) PROVE IInv'
<1> USE DEF IInv
<1> DEFINE r == att[p].run
           s == runs[r].scan
           page == att[p].page
<1>1. /\ r \in RunId /\ s \in ScanId
      /\ runs[r] \in Run /\ scans[s] \in Scan /\ att[p] \in Local
      /\ page.next \in Key
  <2>1. r \in RunId /\ s \in ScanId
    BY DEF Assigned, Working, ApplyPage
  <2>2. QED
    BY <2>1 DEF TypeOK, Local, Page
<1>2. /\ runs[r].status = "running" /\ Live(s)
      /\ \A q \in Attempt : q # p => att[q].pc = "idle"
  BY DEF ApplyPage, PageAdmitted, Exclusive
<1>3. /\ runs'[r].status = "running" /\ runs'[r].scan = s
      /\ \A q \in RunId : q # r => runs'[q] = runs[q]
  <2>1. runs' = [runs EXCEPT ![r] = ProgressedRun(r, page)]
    BY DEF ApplyPage
  <2>2. ProgressedRun(r, page).status = "running" /\ ProgressedRun(r, page).scan = s
    BY <1>1, <1>2 DEF ProgressedRun, Run
  <2>3. QED
    BY <1>1, <2>1, <2>2 DEF TypeOK
<1>4. /\ \A t \in ScanId : t # s => scans'[t] = scans[t]
      /\ scans'[s].next = page.next /\ scans'[s].superseded = scans[s].superseded
      /\ scans'[s].state = IF page.next = Nil THEN "exhausted" ELSE scans[s].state
  <2>1. scans' = [scans EXCEPT ![s] = MovedScan(s, page)]
    BY DEF ApplyPage
  <2>2. QED
    BY <1>1, <2>1 DEF MovedScan, Scan, TypeOK
<1>5. /\ att'[p].run = r /\ att'[p].cursor = page.next
      /\ att'[p].pc = IF page.next = Nil THEN "left" ELSE "loop"
      /\ \A q \in Attempt : q # p => att'[q] = att[q]
  <2>1. att' = [att EXCEPT ![p] = Advanced(p)]
    BY DEF ApplyPage, Becomes
  <2>2. QED
    BY <1>1, <2>1 DEF Advanced, Local, TypeOK
<1>6. \A t \in ScanId : t = s => (Live(t)' <=> page.next # Nil)
  BY <1>2, <1>4 DEF Live
<1>7. \A t \in ScanId : t # s => ~Live(t)' /\ ~Live(t)
  BY <1>1, <1>2, <1>4 DEF Live, OneLive
<1>8. Assigned'
  BY <1>1, <1>2, <1>3, <1>5 DEF Assigned, Working
<1>9. Exclusive'
  BY <1>2, <1>5 DEF Exclusive, ApplyPage
<1>10. OneLive'
  BY <1>7 DEF OneLive
<1>11. CheckpointIsHead'
  <2>1. checkpoint' = page.next
    BY DEF ApplyPage
  <2>2. \A t \in ScanId : Live(t)' => scans'[t].next = checkpoint'
    BY <1>4, <1>7, <2>1
  <2>3. (\A t \in ScanId : ~Live(t)') => checkpoint' = Nil
    BY <1>1, <1>6, <2>1
  <2>4. QED
    BY <2>2, <2>3 DEF CheckpointIsHead
<1>12. OneOpenRun'
  <2>1. \A q \in RunId : runs'[q].status = runs[q].status /\ runs'[q].scan = runs[q].scan
    BY <1>2, <1>3
  <2>2. QED
    BY <2>1 DEF OneOpenRun, Managed
<1>13. OwnerState'
  <2>1. \A q \in Attempt : q # p => att'[q].pc = "idle"
    BY <1>2, <1>5
  <2>2. att'[p].pc \in Reading => page.next # Nil
    BY <1>5 DEF Reading
  <2>3. Live(runs[att[p].run].scan)' <=> page.next # Nil
    BY <1>2, <1>3, <1>4, <1>5 DEF Live
  <2>4. scans'[runs'[att'[p].run].scan].next = att'[p].cursor
    BY <1>3, <1>4, <1>5
  <2>5. att'[p].pc \notin {"fetch", "apply"}
    BY <1>5
  <2>6. QED
    BY <1>3, <1>5, <2>1, <2>2, <2>3, <2>4, <2>5 DEF OwnerState, Working, Reading
<1>14. QED
  BY <1>8, <1>9, <1>10, <1>11, <1>12, <1>13

LEMMA FinishRunIInv ==
  ASSUME IInv, TypeOK', NEW p \in Attempt, FinishRun(p) PROVE IInv'
<1> USE DEF IInv
<1> DEFINE r == att[p].run
<1>1. r \in RunId /\ runs[r] \in Run
  BY DEF FinishRun, Assigned, Working, TypeOK
<1>2. /\ att'[p].pc = "unlock"
      /\ \A q \in Attempt : q # p => att'[q] = att[q] /\ att[q].pc = "idle"
  BY DEF FinishRun, Return, Becomes, Returning, NewCall, TypeOK, Exclusive
<1>3. UNCHANGED <<checkpoint, scans, pages, orders, observed, lock>>
  BY DEF FinishRun
<1>4. /\ \A q \in RunId : q # r => runs'[q] = runs[q]
      /\ runs'[r].status \in {"completed", "failed"}
      /\ runs[r].status = "running"
  BY <1>1 DEF FinishRun, TypeOK, Run
<1>5. Assigned' /\ OwnerState'
  BY <1>2 DEF Assigned, OwnerState, Working, Reading
<1>6. Exclusive'
  BY <1>2, <1>3 DEF Exclusive, FinishRun
<1>7. OneLive' /\ CheckpointIsHead'
  BY <1>3 DEF OneLive, CheckpointIsHead, Live
<1>8. OneOpenRun'
  BY <1>1, <1>4 DEF OneOpenRun, Managed
<1>9. QED
  BY <1>5, <1>6, <1>7, <1>8

\* Steps that touch no variable the invariant speaks of.
LEMMA OrdersStepIInv ==
  ASSUME IInv, TypeOK',
         UNCHANGED <<checkpoint, scans, pages, runs, lock, att>>
  PROVE  IInv'
<1>1. Assigned' /\ Exclusive'
  BY DEF IInv, Assigned, Exclusive
<1>2. OneLive' /\ CheckpointIsHead' /\ OneOpenRun'
  BY DEF IInv, OneLive, CheckpointIsHead, OneOpenRun, Live, Managed
<1>3. OwnerState'
  BY DEF IInv, OwnerState, Live, CursorVisited, Visited
<1>4. QED
  BY <1>1, <1>2, <1>3 DEF IInv

\* A step that sends the lock holder to FinishSync with a code.
LEMMA FailIInv ==
  ASSUME IInv, TypeOK', NEW p \in Attempt, NEW code, Fail(p, code),
         att[p].pc \in Working, UNCHANGED <<ledgerVars, lock>>
  PROVE  IInv'
<1> DEFINE l == [att[p] EXCEPT !.pc = "finish", !.code = FailCode(p, code)]
<1>1. att[p] \in Local
  BY DEF IInv, TypeOK
<1>2. l.pc = "finish" /\ l.run = att[p].run
  BY <1>1 DEF Local
<1>3. Becomes(p, l)
  BY DEF Fail
<1>4. att[p].pc # "idle"
  BY DEF Working
<1>5. l.pc \notin Reading /\ l.pc \notin {"idle", "fetch", "apply"}
  BY <1>2 DEF Reading
<1>6. QED
  <2> HIDE DEF l
  <2> QED BY <1>2, <1>3, <1>4, <1>5, LocalStepIInv

\* A step that sends the lock holder to its deferred unlock.
LEMMA GiveUpIInv ==
  ASSUME IInv, TypeOK', NEW p \in Attempt, Return(p), att[p].pc # "idle",
         UNCHANGED <<ledgerVars, lock>>
  PROVE  IInv'
<1>1. Returning.pc = "unlock"
  BY DEF Returning, NewCall
<1>2. Returning.pc \notin Working /\ Returning.pc \notin Reading
  BY <1>1 DEF Working, Reading
<1>3. QED
  BY <1>1, <1>2, LocalStepIInv DEF Return

\* A step that only changes the stage of the lock holder, or its context.
LEMMA StageIInv ==
  ASSUME IInv, TypeOK', NEW p \in Attempt, NEW l \in Local, Becomes(p, l),
         UNCHANGED <<ledgerVars, lock>>,
         att[p].pc # "idle", l.pc # "idle",
         l.run = att[p].run, l.cursor = att[p].cursor,
         \/ l.pc = att[p].pc
         \/ l.pc = "begin"
         \/ att[p].pc \in Working /\ l.pc = "left"
         \/ att[p].pc = "loop" /\ l.pc = "fetch" /\ ~CursorVisited(p)
         \/ att[p].pc = "fetch" /\ l.pc = "apply"
  PROVE  IInv'
<1>1. l.pc \in Working => att[p].pc \in Working
  BY DEF Working
<1>2. l.pc \in Reading => att[p].pc \in Reading
  BY DEF Reading
<1>3. l.pc \in {"fetch", "apply"} =>
        att[p].pc \in {"fetch", "apply"} \/ ~CursorVisited(p)
  OBVIOUS
<1>4. QED
  BY <1>1, <1>2, <1>3, LocalStepIInv

LEMMA NextIInv == IInv /\ [Next]_vars => IInv'
<1> SUFFICES ASSUME IInv, [Next]_vars PROVE IInv'
  OBVIOUS
<1>0. TypeOK' /\ \A p \in Attempt : att[p] \in Local
  BY NextTypeOK DEF IInv, TypeOK
<1>1. ASSUME NEW p \in Attempt, LoadCursor(p) PROVE IInv'
  <2> DEFINE l == [att[p] EXCEPT !.pc = "begin", !.cursor = checkpoint]
  <2>1. l.pc = "begin"
    BY <1>0 DEF Local
  <2>2. l.pc \notin Working /\ l.pc \notin Reading
    BY <2>1 DEF Working, Reading
  <2>3. Becomes(p, l) /\ att[p].pc # "idle" /\ UNCHANGED <<ledgerVars, lock>>
    BY <1>1 DEF LoadCursor
  <2>4. QED
    <3> HIDE DEF l
    <3> QED BY <1>0, <2>1, <2>2, <2>3, LocalStepIInv
<1>2. ASSUME NEW p \in Attempt,
             GiveUp(p) \/ RefuseBegin(p) \/ FinishFails(p) PROVE IInv'
  BY <1>0, <1>2, GiveUpIInv DEF GiveUp, RefuseBegin, FinishFails
<1>3. ASSUME NEW p \in Attempt, TakeCursor(p) PROVE IInv'
  <2> DEFINE l == [att[p] EXCEPT !.pc = "fetch", !.seen = @ \cup {att[p].cursor}]
  <2>1. l.pc = "fetch" /\ l.run = att[p].run /\ l.cursor = att[p].cursor
    BY <1>0 DEF Local
  <2>2. l \in Local
    <3>1. /\ att[p] \in Local /\ att[p].seen \in SUBSET Key
          /\ att[p].cursor \in Key
      BY <1>0 DEF Local
    <3>2. att[p].seen \cup {att[p].cursor} \in SUBSET Key
      BY <3>1
    <3>3. QED
      BY <3>1, <3>2 DEF Local, Stage
  <2>3. Becomes(p, l) /\ att[p].pc = "loop" /\ UNCHANGED <<ledgerVars, lock>>
        /\ ~CursorVisited(p)
    BY <1>3 DEF TakeCursor
  <2>4. QED
    <3> HIDE DEF l
    <3> QED BY <1>0, <2>1, <2>2, <2>3, StageIInv
<1>4. ASSUME NEW p \in Attempt,
             RefuseCursor(p) \/ FetchFails(p) \/ ApplyFails(p) \/ LeaveLoop(p)
      PROVE  IInv'
  <2>1. PICK code : Fail(p, code)
    <3>1. CASE RefuseCursor(p)
      BY <3>1 DEF RefuseCursor
    <3>2. CASE FetchFails(p)
      BY <3>2 DEF FetchFails
    <3>3. CASE ApplyFails(p)
      BY <3>3 DEF ApplyFails
    <3>4. CASE LeaveLoop(p)
      BY <3>4 DEF LeaveLoop
    <3>5. QED
      BY <1>4, <3>1, <3>2, <3>3, <3>4
  <2>2. att[p].pc \in Working /\ UNCHANGED <<ledgerVars, lock>>
    BY <1>4 DEF RefuseCursor, FetchFails, ApplyFails, LeaveLoop, Working
  <2>3. QED
    BY <1>0, <2>1, <2>2, FailIInv
<1>5. ASSUME NEW p \in Attempt, SpendBudget(p) PROVE IInv'
  <2> DEFINE l == [att[p] EXCEPT !.pc = "left"]
  <2>1. l.pc = "left" /\ l.run = att[p].run /\ l.cursor = att[p].cursor
    BY <1>0 DEF Local
  <2>2. l \in Local
    BY <1>0, GotoType DEF Stage, IInv
  <2>3. Becomes(p, l) /\ att[p].pc = "loop" /\ UNCHANGED <<ledgerVars, lock>>
    BY <1>5 DEF SpendBudget, Goto
  <2>4. QED
    <3> HIDE DEF l
    <3> QED BY <1>0, <2>1, <2>2, <2>3, StageIInv DEF Working
<1>6. ASSUME NEW p \in Attempt, FetchPage(p) PROVE IInv'
  <2>1. PICK page \in Page : Becomes(p, [att[p] EXCEPT !.pc = "apply", !.page = page])
    BY <1>6 DEF FetchPage
  <2> DEFINE l == [att[p] EXCEPT !.pc = "apply", !.page = page]
  <2>2. l.pc = "apply" /\ l.run = att[p].run /\ l.cursor = att[p].cursor
    BY <1>0 DEF Local
  <2>3. l \in Local
    BY <1>0, <2>1 DEF Local, Stage
  <2>4. att[p].pc = "fetch" /\ UNCHANGED <<ledgerVars, lock>>
    BY <1>6 DEF FetchPage
  <2>5. QED
    <3>1. Becomes(p, l)
      BY <2>1
    <3> HIDE DEF l
    <3> QED BY <1>0, <2>2, <2>3, <2>4, <3>1, StageIInv
<1>7. ASSUME NEW p \in Attempt, EndContext(p) PROVE IInv'
  <2>1. PICK cause \in StopCause : Becomes(p, [att[p] EXCEPT !.ctx = cause])
    BY <1>7 DEF EndContext
  <2> DEFINE l == [att[p] EXCEPT !.ctx = cause]
  <2>2. l.pc = att[p].pc /\ l.run = att[p].run /\ l.cursor = att[p].cursor
    BY <1>0 DEF Local
  <2>3. l \in Local
    BY <1>0, <2>1 DEF Local
  <2>4. att[p].pc # "idle" /\ UNCHANGED <<ledgerVars, lock>>
    BY <1>7 DEF EndContext
  <2>5. QED
    <3>1. Becomes(p, l)
      BY <2>1
    <3> HIDE DEF l
    <3> QED BY <1>0, <2>2, <2>3, <2>4, <3>1, StageIInv
<1>8. CASE Purge \/ Import \/ UNCHANGED vars
  BY <1>0, <1>8, OrdersStepIInv DEF Purge, Import, vars
<1>9. QED
  BY <1>0, <1>1, <1>2, <1>3, <1>4, <1>5, <1>6, <1>7, <1>8, AcquireIInv, ReturnIInv,
     ResumeScanIInv, StartScanIInv, ApplyPageIInv, FinishRunIInv DEF Next, Step

-----------------------------------------------------------------------------
(* What each step writes of the tables.                                    *)

\* Only four steps of an attempt write the sync tables; purges and imports
\* write the orders.
LEMMA StepKinds ==
  ASSUME [Next]_vars
  PROVE  \/ \E p \in Attempt :
                ResumeScan(p) \/ StartScan(p) \/ ApplyPage(p) \/ FinishRun(p)
         \/ Purge
         \/ Import
         \/ UNCHANGED ledgerVars
<1>1. ASSUME NEW p \in Attempt, LoadCursor(p) \/ GiveUp(p) \/ RefuseBegin(p)
      PROVE  UNCHANGED ledgerVars
  BY <1>1 DEF LoadCursor, GiveUp, RefuseBegin
<1>2. ASSUME NEW p \in Attempt, TakeCursor(p) \/ RefuseCursor(p) \/ SpendBudget(p)
      PROVE  UNCHANGED ledgerVars
  BY <1>2 DEF TakeCursor, RefuseCursor, SpendBudget
<1>3. ASSUME NEW p \in Attempt, FetchPage(p) \/ FetchFails(p) \/ ApplyFails(p)
      PROVE  UNCHANGED ledgerVars
  BY <1>3 DEF FetchPage, FetchFails, ApplyFails
<1>4. ASSUME NEW p \in Attempt, LeaveLoop(p) \/ FinishFails(p) \/ Unlock(p)
      PROVE  UNCHANGED ledgerVars
  BY <1>4 DEF LeaveLoop, FinishFails, Unlock
<1>5. ASSUME NEW p \in Attempt, Acquire(p) \/ EndContext(p) \/ Crash(p)
      PROVE  UNCHANGED ledgerVars
  BY <1>5 DEF Acquire, EndContext, Crash
<1>6. CASE UNCHANGED vars
  BY <1>6 DEF vars, ledgerVars
<1>7. QED
  BY <1>1, <1>2, <1>3, <1>4, <1>5, <1>6 DEF Next, Step

\* The begin transaction inserts a run and interrupts open managed runs.
LEMMA OpenRunWrites ==
  ASSUME IInv, NEW p \in Attempt, NEW s \in ScanId, OpenRun(p, s)
  PROVE  \E r \in RunId :
            /\ runs[r].status = "none"
            /\ runs'[r] = RunRow("running", s, att[p].source)
            /\ att'[p].run = r /\ att'[p].pages = att[p].pages
            /\ \A q \in Attempt : q # p => att'[q] = att[q]
            /\ \A q \in RunId \ {r} :
                  runs'[q] = IF runs[q].status = "running" /\ runs[q].scan # 0
                             THEN [runs[q] EXCEPT !.status = "failed", !.code = "interrupted"]
                             ELSE runs[q]
<1>1. PICK r \in RunId :
         /\ NextRunId(r)
         /\ runs' = [Interrupted EXCEPT ![r] = RunRow("running", s, att[p].source)]
         /\ Becomes(p, [att[p] EXCEPT !.pc = "loop", !.run = r,
                                      !.cursor = FirstCursor(p)])
  BY DEF OpenRun
<1>2. runs[r].status = "none"
  BY <1>1 DEF NextRunId, RunId
<1>3. att[p] \in Local /\ att \in [Attempt -> Local]
  BY DEF IInv, TypeOK
<1>4. /\ att'[p].run = r /\ att'[p].pages = att[p].pages
      /\ \A q \in Attempt : q # p => att'[q] = att[q]
  BY <1>1, <1>3 DEF Becomes, Local
<1>5. /\ runs'[r] = RunRow("running", s, att[p].source)
      /\ \A q \in RunId \ {r} : runs'[q] = Interrupted[q]
  BY <1>1 DEF Interrupted
<1>6. QED
  BY <1>2, <1>4, <1>5 DEF Interrupted

LEMMA StartScanWrites ==
  ASSUME IInv, NEW p \in Attempt, StartScan(p)
  PROVE  /\ UNCHANGED <<pages, orders, observed>>
         /\ checkpoint' = FirstCursor(p)
         /\ att[p].pc = "begin"
         /\ att[p].restart \/ \A t \in ScanId : ~Live(t)
         /\ \E s \in ScanId :
               /\ scans[s].state = "none"
               /\ scans'[s] = [state |-> "active", superseded |-> FALSE,
                               source |-> att[p].source,
                               fromStart |-> FirstCursor(p) = Nil,
                               next |-> FirstCursor(p)]
               /\ \A t \in ScanId \ {s} :
                     scans'[t] = IF Live(t) THEN [scans[t] EXCEPT !.superseded = TRUE]
                                 ELSE scans[t]
               /\ OpenRun(p, s)
<1> DEFINE retired == [s \in ScanId |->
                          IF Live(s) THEN [scans[s] EXCEPT !.superseded = TRUE]
                          ELSE scans[s]]
           row == [state |-> "active", superseded |-> FALSE,
                   source |-> att[p].source,
                   fromStart |-> FirstCursor(p) = Nil, next |-> FirstCursor(p)]
<1>1. PICK s \in ScanId : /\ NextScanId(s)
                          /\ scans' = [retired EXCEPT ![s] = row]
                          /\ OpenRun(p, s)
                          /\ checkpoint' = CheckpointAtBegin(p)
  BY DEF StartScan
<1>2. scans[s].state = "none"
  BY <1>1 DEF NextScanId, ScanId
<1>3. scans'[s] = row /\ \A t \in ScanId \ {s} : scans'[t] = retired[t]
  BY <1>1
<1>4. checkpoint' = FirstCursor(p)
  BY <1>1 DEF CheckpointAtBegin, FirstCursor, StartScan
<1>5. QED
  BY <1>1, <1>2, <1>3, <1>4 DEF StartScan

LEMMA ApplyPageWrites ==
  ASSUME IInv, NEW p \in Attempt, ApplyPage(p)
  PROVE  LET r == att[p].run
             s == runs[r].scan
             page == att[p].page
         IN  /\ r \in RunId /\ s \in ScanId /\ page.next \in Key /\ page.orders \in SUBSET Order
             /\ runs[r].status = "running" /\ Live(s)
             /\ att[p].cursor = checkpoint /\ scans[s].next = checkpoint
             /\ att[p].cursor \notin Visited(s)
             /\ runs'[r].status = "running" /\ runs'[r].scan = s
             /\ runs'[r].source = runs[r].source
             /\ runs'[r].pages = runs[r].pages + 1
             /\ \A q \in RunId \ {r} : runs'[q] = runs[q]
             /\ pages'[s] = Append(pages[s], [cursor |-> att[p].cursor, run |-> r,
                                              next |-> page.next])
             /\ \A t \in ScanId \ {s} : pages'[t] = pages[t]
             /\ scans'[s] = [scans[s] EXCEPT !.next = page.next,
                                !.state = IF page.next = Nil THEN "exhausted" ELSE @]
             /\ \A t \in ScanId \ {s} : scans'[t] = scans[t]
             /\ orders' = orders \cup page.orders
             /\ checkpoint' = page.next
             /\ att'[p].run = r /\ att'[p].pages = att[p].pages + 1
             /\ \A q \in Attempt : q # p => att'[q] = att[q]
<1> DEFINE r == att[p].run
           s == runs[r].scan
           page == att[p].page
<1>1. /\ r \in RunId /\ s \in ScanId
      /\ runs[r] \in Run /\ scans[s] \in Scan /\ att[p] \in Local
      /\ page.next \in Key /\ page.orders \in SUBSET Order
  <2>1. r \in RunId /\ s \in ScanId
    BY DEF Assigned, Working, ApplyPage, IInv
  <2>2. QED
    BY <2>1 DEF IInv, TypeOK, Local, Page
<1>2. /\ runs[r].status = "running" /\ Live(s)
      /\ att[p].cursor = checkpoint /\ scans[s].next = checkpoint
      /\ att[p].cursor \notin Visited(s)
  BY DEF ApplyPage, PageAdmitted, CursorVisited
<1>3. /\ runs' = [runs EXCEPT ![r] = ProgressedRun(r, page)]
      /\ pages' = [pages EXCEPT ![s] = Append(@, [cursor |-> att[p].cursor, run |-> r,
                                                  next |-> page.next])]
      /\ scans' = [scans EXCEPT ![s] = MovedScan(s, page)]
      /\ orders' = orders \cup page.orders
      /\ checkpoint' = page.next
      /\ att' = [att EXCEPT ![p] = Advanced(p)]
  BY DEF ApplyPage, Becomes
<1>4. /\ ProgressedRun(r, page).status = "running" /\ ProgressedRun(r, page).scan = s
      /\ ProgressedRun(r, page).source = runs[r].source
      /\ ProgressedRun(r, page).pages = runs[r].pages + 1
  BY <1>1, <1>2 DEF ProgressedRun, Run
<1>5. /\ runs'[r] = ProgressedRun(r, page)
      /\ \A q \in RunId \ {r} : runs'[q] = runs[q]
  BY <1>1, <1>3 DEF IInv, TypeOK
<1>6. /\ pages'[s] = Append(pages[s], [cursor |-> att[p].cursor, run |-> r,
                                       next |-> page.next])
      /\ \A t \in ScanId \ {s} : pages'[t] = pages[t]
  BY <1>1, <1>3 DEF IInv, TypeOK
<1>7. /\ scans'[s] = MovedScan(s, page)
      /\ \A t \in ScanId \ {s} : scans'[t] = scans[t]
  BY <1>1, <1>3 DEF IInv, TypeOK
<1>8. Advanced(p).run = r /\ Advanced(p).pages = att[p].pages + 1
  BY <1>1 DEF Advanced, Local
<1>9. /\ att'[p].run = r /\ att'[p].pages = att[p].pages + 1
      /\ \A q \in Attempt : q # p => att'[q] = att[q]
  BY <1>3, <1>8 DEF IInv, TypeOK
<1>10. QED
  BY <1>1, <1>2, <1>3, <1>4, <1>5, <1>6, <1>7, <1>9 DEF MovedScan

LEMMA FinishRunWrites ==
  ASSUME IInv, NEW p \in Attempt, FinishRun(p)
  PROVE  LET r == att[p].run
         IN  /\ r \in RunId /\ runs[r].status = "running" /\ runs[r].scan \in ScanId
             /\ runs'[r].status \in {"completed", "failed"}
             /\ runs'[r].scan = runs[r].scan /\ runs'[r].source = runs[r].source
             /\ runs'[r].pages = att[p].pages
             /\ \A q \in RunId \ {r} : runs'[q] = runs[q]
             /\ att'[p].pc \notin Working
             /\ \A q \in Attempt : q # p => att'[q] = att[q]
             /\ UNCHANGED <<checkpoint, scans, pages, orders, observed>>
<1> DEFINE r == att[p].run
<1>1. r \in RunId /\ runs[r] \in Run /\ runs[r].scan \in ScanId
  BY DEF FinishRun, Assigned, Working, IInv, TypeOK
<1>2. /\ att'[p].pc = "unlock"
      /\ \A q \in Attempt : q # p => att'[q] = att[q]
  BY DEF FinishRun, Return, Becomes, Returning, NewCall, IInv, TypeOK
<1>3. /\ runs[r].status = "running"
      /\ runs' = [runs EXCEPT ![r] =
                    [@ EXCEPT !.status = IF att[p].code = "" THEN "completed" ELSE "failed",
                              !.code = att[p].code, !.pages = att[p].pages,
                              !.records = att[p].records]]
      /\ UNCHANGED <<checkpoint, scans, pages, orders, observed>>
  BY DEF FinishRun
<1>4. \A q \in RunId \ {r} : runs'[q] = runs[q]
  BY <1>3 DEF IInv, TypeOK
<1>5. /\ runs'[r].status \in {"completed", "failed"}
      /\ runs'[r].scan = runs[r].scan /\ runs'[r].source = runs[r].source
      /\ runs'[r].pages = att[p].pages
  BY <1>1, <1>3 DEF IInv, TypeOK, Run
<1>6. QED
  BY <1>1, <1>2, <1>3, <1>4, <1>5 DEF Working

-----------------------------------------------------------------------------
(* The walk of a scan.                                                     *)

\* An id not allocated yet has nothing that a later scan would inherit.
Blank == \A s \in ScanId :
             scans[s].state = "none" => ~scans[s].superseded /\ pages[s] = <<>>

WalkInv == Blank /\ ScanIsOneWalk

\* A row is appended behind the others.
LEMMA Appended ==
  ASSUME NEW S, NEW walk \in Seq(S), NEW row \in S
  PROVE  /\ Append(walk, row) # <<>>
         /\ Len(Append(walk, row)) = Len(walk) + 1
         /\ Len(walk) \in Nat /\ DOMAIN walk = 1..Len(walk)
         /\ DOMAIN Append(walk, row) = 1..(Len(walk) + 1)
         /\ Append(walk, row)[Len(walk) + 1] = row
         /\ \A i \in 1..Len(walk) : Append(walk, row)[i] = walk[i]
         /\ walk # <<>> => 1 \in 1..Len(walk)
         /\ walk = <<>> => Len(walk) = 0
<1>1. Append(walk, row) # <<>> /\ Len(Append(walk, row)) = Len(walk) + 1
  <2>1. Append(walk, row) \in Seq(S) /\ Len(walk) \in Nat
    OBVIOUS
  <2>2. Len(Append(walk, row)) = Len(walk) + 1
    OBVIOUS
  <2>3. Len(Append(walk, row)) # 0
    BY <2>1, <2>2
  <2>4. Len(<<>>) = 0
    OBVIOUS
  <2>5. Append(walk, row) = <<>> => Len(Append(walk, row)) = Len(<<>>)
    OBVIOUS
  <2>6. Append(walk, row) # <<>>
    BY <2>3, <2>4, <2>5, Zenon
  <2>7. QED
    BY <2>2, <2>6
<1>2. Len(walk) \in Nat /\ DOMAIN walk = 1..Len(walk)
  OBVIOUS
<1>3. DOMAIN Append(walk, row) = 1..(Len(walk) + 1)
  OBVIOUS
<1>4. /\ Append(walk, row)[Len(walk) + 1] = row
      /\ \A i \in 1..Len(walk) : Append(walk, row)[i] = walk[i]
  OBVIOUS
<1>5. walk # <<>> => 1 \in 1..Len(walk)
  OBVIOUS
<1>6. walk = <<>> => Len(walk) = 0
  OBVIOUS
<1>7. QED
  BY <1>1, <1>2, <1>3, <1>4, <1>5, <1>6

\* One scan of ScanIsOneWalk, as a predicate of its pages and its row.
OneWalk(walk, scan) ==
    /\ \A i, j \in DOMAIN walk : walk[i].cursor = walk[j].cursor => i = j
    /\ \A i \in DOMAIN walk :
           i + 1 \in DOMAIN walk => walk[i + 1].cursor = walk[i].next
    /\ walk # <<>> => scan.next = walk[Len(walk)].next
    /\ scan.fromStart =>
           Nil = IF walk = <<>> THEN scan.next ELSE walk[1].cursor

LEMMA WalkByScan == ScanIsOneWalk <=> \A s \in ScanId : OneWalk(pages[s], scans[s])
  BY DEF ScanIsOneWalk, OneWalk

\* A page requested with the head of the scan, which no page has used, goes on
\* with the walk.
LEMMA WalkGoesOn ==
  ASSUME NEW walk \in Seq(PageRow), NEW scan \in Scan, OneWalk(walk, scan),
         NEW row \in PageRow, row.cursor = scan.next,
         \A i \in DOMAIN walk : walk[i].cursor # row.cursor,
         NEW new \in Scan, new.next = row.next, new.fromStart = scan.fromStart
  PROVE  OneWalk(Append(walk, row), new)
<1> DEFINE longer == Append(walk, row)
           n == Len(walk)
<1>1. /\ longer # <<>> /\ Len(longer) = n + 1
      /\ n \in Nat /\ DOMAIN walk = 1..n /\ DOMAIN longer = 1..(n + 1)
      /\ longer[n + 1] = row
      /\ \A i \in 1..n : longer[i] = walk[i]
      /\ walk # <<>> => 1 \in 1..n
      /\ walk = <<>> => n = 0
  BY Appended
<1> HIDE DEF longer, n
<1>2. \A i, j \in DOMAIN longer : longer[i].cursor = longer[j].cursor => i = j
  <2> SUFFICES ASSUME NEW i \in 1..(n + 1), NEW j \in 1..(n + 1),
                      longer[i].cursor = longer[j].cursor
               PROVE  i = j
    BY <1>1
  <2>1. CASE i \in 1..n /\ j \in 1..n
    <3>1. i \in DOMAIN walk /\ j \in DOMAIN walk
      BY <1>1, <2>1
    <3>2. walk[i].cursor = walk[j].cursor
      BY <1>1, <2>1
    <3>3. \A k, l \in DOMAIN walk : walk[k].cursor = walk[l].cursor => k = l
      BY DEF OneWalk
    <3>4. QED
      BY <3>1, <3>2, <3>3
  <2>2. CASE i = n + 1 /\ j \in 1..n
    BY <1>1, <2>2
  <2>3. CASE i \in 1..n /\ j = n + 1
    BY <1>1, <2>3
  <2>4. QED
    BY <1>1, <2>1, <2>2, <2>3
<1>3. \A i \in DOMAIN longer :
         i + 1 \in DOMAIN longer => longer[i + 1].cursor = longer[i].next
  <2> SUFFICES ASSUME NEW i \in 1..(n + 1), i + 1 \in 1..(n + 1)
               PROVE  longer[i + 1].cursor = longer[i].next
    BY <1>1
  <2>1. i \in 1..n
    BY <1>1
  <2>2. CASE i + 1 \in 1..n
    BY <1>1, <2>1, <2>2 DEF OneWalk
  <2>3. CASE i = n
    <3>1. walk # <<>> => scan.next = walk[n].next
      BY DEF OneWalk, n
    <3>2. walk # <<>>
      BY <1>1, <2>1
    <3>3. QED
      BY <1>1, <2>1, <2>3, <3>1, <3>2
  <2>4. QED
    BY <1>1, <2>1, <2>2, <2>3
<1>4. longer # <<>> => new.next = longer[Len(longer)].next
  BY <1>1
<1>5. new.fromStart => Nil = IF longer = <<>> THEN new.next ELSE longer[1].cursor
  <2>1. CASE walk = <<>>
    BY <1>1, <2>1 DEF OneWalk
  <2>2. CASE walk # <<>>
    BY <1>1, <2>2 DEF OneWalk
  <2>3. QED
    BY <2>1, <2>2
<1>6. QED
  BY <1>2, <1>3, <1>4, <1>5 DEF OneWalk, longer

LEMMA InitWalk == Init => WalkInv
  BY DEF Init, WalkInv, Blank, ScanIsOneWalk, NoScan

LEMMA StartScanWalk ==
  ASSUME IInv, WalkInv, NEW p \in Attempt, StartScan(p) PROVE WalkInv'
<1>1. PICK s \in ScanId :
         /\ UNCHANGED pages
         /\ scans[s].state = "none"
         /\ scans'[s] = [state |-> "active", superseded |-> FALSE,
                         source |-> att[p].source,
                         fromStart |-> FirstCursor(p) = Nil,
                         next |-> FirstCursor(p)]
         /\ \A t \in ScanId \ {s} :
               scans'[t] = IF Live(t) THEN [scans[t] EXCEPT !.superseded = TRUE]
                           ELSE scans[t]
  BY StartScanWrites
<1>2. \A t \in ScanId : scans[t] \in Scan
  BY DEF IInv, TypeOK
<1>3. \A t \in ScanId \ {s} : /\ scans'[t].state = scans[t].state
                              /\ scans'[t].next = scans[t].next
                              /\ scans'[t].fromStart = scans[t].fromStart
                              /\ scans[t].state = "none" => scans'[t] = scans[t]
  BY <1>1, <1>2 DEF Live, Scan
<1>4. pages[s] = <<>>
  BY <1>1 DEF WalkInv, Blank
<1>5. Blank'
  BY <1>1, <1>3 DEF WalkInv, Blank
<1>6. ASSUME NEW t \in ScanId PROVE OneWalk(pages'[t], scans'[t])
  <2>1. CASE t = s
    <3>1. pages'[s] = <<>>
      BY <1>1, <1>4
    <3>2. DOMAIN pages'[s] = {}
      BY <3>1
    <3>3. /\ scans'[s].fromStart = (FirstCursor(p) = Nil)
          /\ scans'[s].next = FirstCursor(p)
      <4> DEFINE first == FirstCursor(p)
                 started == first = Nil
                 fresh == [state |-> "active", superseded |-> FALSE,
                           source |-> att[p].source, fromStart |-> started,
                           next |-> first]
      <4>1. scans'[s] = fresh
        BY <1>1
      <4> HIDE DEF first, started
      <4>2. fresh.fromStart = started /\ fresh.next = first
        OBVIOUS
      <4> HIDE DEF fresh
      <4>3. scans'[s].fromStart = started /\ scans'[s].next = first
        BY <4>1, <4>2
      <4>4. QED
        BY <4>3 DEF started, first
    <3>4. scans'[s].fromStart => Nil = scans'[s].next
      BY <3>3, Zenon
    <3>5. QED
      BY <2>1, <3>1, <3>2, <3>4 DEF OneWalk
  <2>2. CASE t # s
    <3>1. OneWalk(pages[t], scans[t])
      BY WalkByScan DEF WalkInv
    <3>2. QED
      BY <1>1, <1>3, <2>2, <3>1 DEF OneWalk
  <2>3. QED
    BY <2>1, <2>2
<1>7. ScanIsOneWalk'
  BY <1>6 DEF ScanIsOneWalk, OneWalk
<1>8. QED
  BY <1>5, <1>7 DEF WalkInv

LEMMA ApplyPageWalk ==
  ASSUME IInv, WalkInv, TypeOK', NEW p \in Attempt, ApplyPage(p) PROVE WalkInv'
<1> DEFINE r == att[p].run
           s == runs[r].scan
           row == [cursor |-> att[p].cursor, run |-> r, next |-> att[p].page.next]
<1>1. /\ r \in RunId /\ s \in ScanId /\ att[p].page.next \in Key
      /\ Live(s) /\ att[p].cursor = scans[s].next
      /\ att[p].cursor \notin Visited(s)
      /\ pages'[s] = Append(pages[s], row)
      /\ \A t \in ScanId \ {s} : pages'[t] = pages[t] /\ scans'[t] = scans[t]
      /\ scans'[s] = [scans[s] EXCEPT !.next = att[p].page.next,
                         !.state = IF att[p].page.next = Nil THEN "exhausted" ELSE @]
  BY ApplyPageWrites
<1>2. /\ pages[s] \in Seq(PageRow) /\ scans[s] \in Scan /\ scans'[s] \in Scan
      /\ att[p].cursor \in Key
  BY <1>1 DEF IInv, TypeOK, Local
<1>3. row \in PageRow /\ row.cursor = scans[s].next /\ row.next = att[p].page.next
  BY <1>1, <1>2 DEF PageRow
<1>4. /\ scans'[s].next = row.next /\ scans'[s].fromStart = scans[s].fromStart
      /\ scans'[s].state # "none"
  BY <1>1, <1>2 DEF Live, Scan
<1>5. \A i \in DOMAIN pages[s] : pages[s][i].cursor # row.cursor
  BY <1>1 DEF Visited
<1>6. \A t \in ScanId : OneWalk(pages[t], scans[t])
  BY WalkByScan DEF WalkInv
<1>7. OneWalk(pages'[s], scans'[s])
  <2>1. OneWalk(pages[s], scans[s])
    BY <1>1, <1>6
  <2>2. OneWalk(Append(pages[s], row), scans'[s])
    <3> HIDE DEF row, s, r
    <3> QED BY <1>2, <1>3, <1>4, <1>5, <2>1, WalkGoesOn
  <2>3. QED
    BY <1>1, <2>2
<1>8. \A t \in ScanId : OneWalk(pages'[t], scans'[t])
  BY <1>1, <1>6, <1>7
<1>9. Blank'
  BY <1>1, <1>4 DEF WalkInv, Blank
<1>10. ScanIsOneWalk'
  BY <1>8 DEF ScanIsOneWalk, OneWalk
<1>11. QED
  BY <1>9, <1>10 DEF WalkInv

LEMMA WalkUnchanged ==
  ASSUME WalkInv, UNCHANGED <<scans, pages>> PROVE WalkInv'
  BY DEF WalkInv, Blank, ScanIsOneWalk

LEMMA NextWalk == IInv /\ IInv' /\ WalkInv /\ [Next]_vars => WalkInv'
<1> SUFFICES ASSUME IInv, IInv', WalkInv, [Next]_vars PROVE WalkInv'
  OBVIOUS
<1>1. ASSUME NEW p \in Attempt, ResumeScan(p) \/ FinishRun(p) PROVE WalkInv'
  BY <1>1, WalkUnchanged DEF ResumeScan, FinishRun
<1>2. ASSUME NEW p \in Attempt, StartScan(p) PROVE WalkInv'
  BY <1>2, StartScanWalk
<1>3. ASSUME NEW p \in Attempt, ApplyPage(p) PROVE WalkInv'
  BY <1>3, ApplyPageWalk DEF IInv
<1>4. CASE Purge \/ Import \/ UNCHANGED ledgerVars
  BY <1>4, WalkUnchanged DEF Purge, Import, ledgerVars
<1>5. QED
  BY <1>1, <1>2, <1>3, <1>4, StepKinds

-----------------------------------------------------------------------------
(* What no step may do.                                                    *)

\* The step EndedEvidenceFrozen speaks of.
Frozen ==
    /\ \A s \in ScanId : scans[s].superseded \/ scans[s].state = "exhausted" =>
          scans'[s] = scans[s] /\ pages'[s] = pages[s]
    /\ \A r \in RunId : runs[r].status \in {"completed", "failed"} =>
          runs'[r] = runs[r]
    /\ \A r \in RunId : runs[r].status = "running" /\ runs[r].scan = 0 =>
          runs'[r] = runs[r]

\* A begin transaction writes a fresh run and the managed runs still open.
LEMMA OpenRunFrozen ==
  ASSUME IInv, NEW p \in Attempt, NEW s \in ScanId, OpenRun(p, s)
  PROVE  /\ \A r \in RunId : runs[r].status \in {"completed", "failed"} =>
               runs'[r] = runs[r]
         /\ \A r \in RunId : runs[r].status = "running" /\ runs[r].scan = 0 =>
               runs'[r] = runs[r]
<1>1. PICK r \in RunId :
         /\ runs[r].status = "none"
         /\ \A q \in RunId \ {r} :
               runs'[q] = IF runs[q].status = "running" /\ runs[q].scan # 0
                          THEN [runs[q] EXCEPT !.status = "failed", !.code = "interrupted"]
                          ELSE runs[q]
  BY OpenRunWrites
<1>2. QED
  BY <1>1

LEMMA StartScanFrozen ==
  ASSUME IInv, WalkInv, NEW p \in Attempt, StartScan(p) PROVE Frozen
<1>1. PICK s \in ScanId :
         /\ UNCHANGED pages
         /\ scans[s].state = "none"
         /\ \A t \in ScanId \ {s} :
               scans'[t] = IF Live(t) THEN [scans[t] EXCEPT !.superseded = TRUE]
                           ELSE scans[t]
         /\ OpenRun(p, s)
  BY StartScanWrites
<1>2. ~scans[s].superseded
  BY <1>1 DEF WalkInv, Blank
<1>3. \A t \in ScanId \ {s} :
         scans[t].superseded \/ scans[t].state = "exhausted" => scans'[t] = scans[t]
  BY <1>1 DEF Live
<1>4. QED
  BY <1>1, <1>2, <1>3, OpenRunFrozen DEF Frozen

LEMMA NextFrozen ==
  ASSUME IInv, WalkInv, [Next]_vars PROVE Frozen
<1>1. ASSUME NEW p \in Attempt, ResumeScan(p) PROVE Frozen
  <2>1. PICK s \in ScanId : OpenRun(p, s)
    BY <1>1 DEF ResumeScan
  <2>2. UNCHANGED <<scans, pages>>
    BY <1>1 DEF ResumeScan
  <2>3. QED
    BY <2>1, <2>2, OpenRunFrozen DEF Frozen
<1>2. ASSUME NEW p \in Attempt, ApplyPage(p) PROVE Frozen
  <2> DEFINE r == att[p].run
             s == runs[r].scan
  <2>1. /\ r \in RunId /\ s \in ScanId /\ runs[r].status = "running" /\ Live(s)
        /\ \A q \in RunId \ {r} : runs'[q] = runs[q]
        /\ \A t \in ScanId \ {s} : pages'[t] = pages[t] /\ scans'[t] = scans[t]
    BY <1>2, ApplyPageWrites
  <2>2. s # 0
    BY <2>1, BoundsAssumption DEF ScanId
  <2>3. QED
    BY <2>1, <2>2 DEF Frozen, Live
<1>3. ASSUME NEW p \in Attempt, FinishRun(p) PROVE Frozen
  <2> DEFINE r == att[p].run
  <2>1. /\ r \in RunId /\ runs[r].status = "running" /\ runs[r].scan \in ScanId
        /\ \A q \in RunId \ {r} : runs'[q] = runs[q]
        /\ UNCHANGED <<scans, pages>>
    BY <1>3, FinishRunWrites
  <2>2. runs[r].scan # 0
    BY <2>1, BoundsAssumption DEF ScanId
  <2>3. QED
    BY <2>1, <2>2 DEF Frozen
<1>4. CASE Purge \/ Import \/ UNCHANGED ledgerVars
  BY <1>4 DEF Purge, Import, ledgerVars, Frozen
<1>5. QED
  BY <1>1, <1>2, <1>3, <1>4, StepKinds, StartScanFrozen

\* The step LoopedScanWaitsForRestart speaks of.
LoopHeld ==
    \A s \in ScanId : Live(s) /\ scans[s].next \in Visited(s) =>
        /\ pages'[s] = pages[s]
        /\ \/ scans'[s] = scans[s] /\ checkpoint' = checkpoint
           \/ scans'[s].superseded /\ checkpoint' = Nil
                 /\ \E p \in Attempt : att[p].pc = "begin" /\ att[p].restart

LEMMA NextLoopHeld ==
  ASSUME IInv, [Next]_vars PROVE LoopHeld
<1> SUFFICES ASSUME NEW s \in ScanId, Live(s), scans[s].next \in Visited(s)
             PROVE  /\ pages'[s] = pages[s]
                    /\ \/ scans'[s] = scans[s] /\ checkpoint' = checkpoint
                       \/ scans'[s].superseded /\ checkpoint' = Nil
                             /\ \E p \in Attempt : att[p].pc = "begin" /\ att[p].restart
  BY DEF LoopHeld
<1>1. CASE UNCHANGED <<checkpoint, scans, pages>>
  BY <1>1
<1>2. ASSUME NEW p \in Attempt, StartScan(p)
      PROVE  /\ pages'[s] = pages[s]
             /\ scans'[s].superseded /\ checkpoint' = Nil
             /\ att[p].pc = "begin" /\ att[p].restart
  <2>1. /\ UNCHANGED pages /\ checkpoint' = FirstCursor(p)
        /\ att[p].pc = "begin" /\ att[p].restart
    BY <1>2, StartScanWrites
  <2>2. PICK new \in ScanId :
           /\ scans[new].state = "none"
           /\ \A t \in ScanId \ {new} :
                 scans'[t] = IF Live(t) THEN [scans[t] EXCEPT !.superseded = TRUE]
                             ELSE scans[t]
    BY <1>2, StartScanWrites
  <2>3. s # new /\ scans[s] \in Scan
    BY <2>2 DEF Live, IInv, TypeOK
  <2>4. scans'[s] = [scans[s] EXCEPT !.superseded = TRUE]
    BY <2>2, <2>3
  <2>5. scans'[s].superseded
    BY <2>3, <2>4 DEF Scan
  <2>6. QED
    BY <2>1, <2>5 DEF FirstCursor
<1>3. ASSUME NEW p \in Attempt, ApplyPage(p) PROVE FALSE
  <2>1. /\ runs[att[p].run].scan \in ScanId /\ Live(runs[att[p].run].scan)
        /\ scans[runs[att[p].run].scan].next \notin Visited(runs[att[p].run].scan)
    BY <1>3, ApplyPageWrites
  <2>2. QED
    BY <2>1 DEF IInv, OneLive
<1>4. QED
  <2>1. ASSUME NEW p \in Attempt, ResumeScan(p) \/ FinishRun(p)
        PROVE  UNCHANGED <<checkpoint, scans, pages>>
    BY <2>1 DEF ResumeScan, FinishRun
  <2>2. ASSUME Purge \/ Import \/ UNCHANGED ledgerVars
        PROVE  UNCHANGED <<checkpoint, scans, pages>>
    BY <2>2 DEF Purge, Import, ledgerVars
  <2>3. QED
    BY <1>1, <1>2, <1>3, <2>1, <2>2, StepKinds

-----------------------------------------------------------------------------
(* The refinement of ScanLedger.                                           *)

\* The pending scan of the tables, seen as the open walk of ScanLedger.
Open == \E s \in ScanId : Live(s)
Walked == UNION {Visited(s) : s \in {t \in ScanId : Live(t)}}

\* With one pending scan, the walk of the ledger is the walk of that scan.
LEMMA WalkedIs ==
  ASSUME NEW s \in ScanId, Live(s), \A t \in ScanId : Live(t) => t = s
  PROVE  Open /\ Walked = Visited(s)
<1>1. {t \in ScanId : Live(t)} = {s}
  OBVIOUS
<1>2. QED
  BY <1>1 DEF Open, Walked

LEMMA WalkedNone ==
  ASSUME \A t \in ScanId : ~Live(t)
  PROVE  Open = FALSE /\ Walked = {}
<1>1. {t \in ScanId : Live(t)} = {}
  OBVIOUS
<1>2. QED
  BY <1>1 DEF Open, Walked

LEMMA InitRefines == Init => Ledger!Init
<1> SUFFICES ASSUME Init PROVE Ledger!Init
  OBVIOUS
<1>1. \A t \in ScanId : ~Live(t)
  BY DEF Init, Live, NoScan
<1>2. checkpoint \in Cursor \cup {Nil} /\ orders = {}
  BY DEF Init, Key
<1>3. QED
  BY <1>1, <1>2, WalkedNone DEF Ledger!Init, Open, Walked

\* A begin transaction opens the walk, or starts it over on request.
LEMMA StartScanRefines ==
  ASSUME IInv, WalkInv, NEW p \in Attempt, StartScan(p)
  PROVE  Ledger!Begin \/ Ledger!StartOver
<1>1. /\ UNCHANGED <<pages, orders>>
      /\ checkpoint' = FirstCursor(p)
      /\ att[p].restart \/ \A t \in ScanId : ~Live(t)
  BY StartScanWrites
<1>2. PICK s \in ScanId :
         /\ scans[s].state = "none"
         /\ scans'[s] = [state |-> "active", superseded |-> FALSE,
                         source |-> att[p].source,
                         fromStart |-> FirstCursor(p) = Nil,
                         next |-> FirstCursor(p)]
         /\ \A t \in ScanId \ {s} :
               scans'[t] = IF Live(t) THEN [scans[t] EXCEPT !.superseded = TRUE]
                           ELSE scans[t]
  BY StartScanWrites
<1>3. Live(s)'
  BY <1>2 DEF Live
<1>4. IInv'
  BY NextIInv DEF Next, Step
<1>5. \A t \in ScanId : Live(t)' => t = s
  BY <1>3, <1>4 DEF IInv, OneLive
<1>6. (Visited(s))' = {}
  <2>1. pages'[s] = <<>>
    BY <1>1, <1>2 DEF WalkInv, Blank
  <2>2. DOMAIN pages'[s] = {}
    BY <2>1
  <2>3. QED
    BY <2>2 DEF Visited
<1>7. Open' /\ Walked' = {}
  <2>1. {t \in ScanId : Live(t)'} = {s}
    BY <1>3, <1>5
  <2>2. QED
    BY <1>3, <1>6, <2>1 DEF Open, Walked
<1>8. CASE att[p].restart
  <2>1. checkpoint' = Nil
    BY <1>1, <1>8 DEF FirstCursor
  <2>2. QED
    BY <1>1, <1>7, <2>1 DEF Ledger!StartOver, Open, Walked
<1>9. CASE ~att[p].restart
  <2>1. Open = FALSE /\ Walked = {}
    BY <1>1, <1>9, WalkedNone
  <2>2. checkpoint' = checkpoint
    BY <1>1, <1>9 DEF FirstCursor, StartScan
  <2>3. QED
    BY <1>1, <1>7, <2>1, <2>2 DEF Ledger!Begin, Open, Walked
<1>10. QED
  BY <1>8, <1>9

\* A page transaction takes the position at the head, and moves the head.
LEMMA ApplyPageRefines ==
  ASSUME IInv, NEW p \in Attempt, ApplyPage(p)
  PROVE  \E batch \in SUBSET Order : Ledger!Commit(batch)
<1> DEFINE page == att[p].page
           row == [cursor |-> att[p].cursor, run |-> att[p].run, next |-> page.next]
<1>1. PICK s \in ScanId :
      /\ page.next \in Key /\ page.orders \in SUBSET Order
      /\ Live(s) /\ att[p].cursor = checkpoint
      /\ att[p].cursor \notin Visited(s)
      /\ pages'[s] = Append(pages[s], row)
      /\ scans'[s] = [scans[s] EXCEPT !.next = page.next,
                         !.state = IF page.next = Nil THEN "exhausted" ELSE @]
      /\ \A t \in ScanId \ {s} : scans'[t] = scans[t]
      /\ orders' = orders \cup page.orders
      /\ checkpoint' = page.next
  BY ApplyPageWrites
<1>2. \A t \in ScanId : Live(t) => t = s
  BY <1>1 DEF IInv, OneLive
<1>3. Open /\ Walked = Visited(s)
  BY <1>1, <1>2, WalkedIs
<1>4. scans[s] \in Scan /\ pages[s] \in Seq(PageRow) /\ row \in PageRow
  <2>1. att[p].run \in RunId /\ att[p].cursor \in Key
    BY ApplyPageWrites DEF IInv, TypeOK, Local
  <2>2. QED
    BY <1>1, <2>1 DEF IInv, TypeOK, PageRow
<1>5. /\ scans'[s].superseded = scans[s].superseded
      /\ scans'[s].state = IF page.next = Nil THEN "exhausted" ELSE scans[s].state
  BY <1>1, <1>4 DEF Scan
<1>6. \A t \in ScanId : Live(t)' <=> t = s /\ page.next # Nil
  <2>1. Live(s)' <=> page.next # Nil
    BY <1>1, <1>5 DEF Live
  <2>2. \A t \in ScanId \ {s} : ~Live(t)'
    BY <1>1, <1>2 DEF Live
  <2>3. QED
    BY <2>1, <2>2
<1>7. Visited(s)' = Visited(s) \cup {checkpoint}
  <2> DEFINE walk == pages[s]
             longer == Append(walk, row)
             n == Len(walk)
  <2>1. /\ n \in Nat /\ DOMAIN walk = 1..n /\ DOMAIN longer = 1..(n + 1)
        /\ longer[n + 1] = row /\ \A i \in 1..n : longer[i] = walk[i]
    BY <1>4, Appended
  <2>2. row.cursor = checkpoint
    BY <1>1
  <2>3. pages'[s] = longer
    BY <1>1
  <2> HIDE DEF longer, row, n
  <2>4. {longer[i].cursor : i \in 1..(n + 1)} = {walk[i].cursor : i \in 1..n} \cup {row.cursor}
    <3>1. 1..(n + 1) = (1..n) \cup {n + 1}
      BY <2>1
    <3>2. QED
      BY <2>1, <3>1
  <2>5. QED
    BY <2>1, <2>2, <2>3, <2>4 DEF Visited
<1>8. CASE page.next # Nil
  <2>1. {t \in ScanId : Live(t)'} = {s}
    BY <1>1, <1>6, <1>8
  <2>2. Open' /\ Walked' = Visited(s)'
    BY <1>1, <1>6, <1>8, <2>1 DEF Open, Walked
  <2>3. checkpoint' \in Cursor
    BY <1>1, <1>8 DEF Key
  <2>4. Ledger!Commit(page.orders)
    BY <1>1, <1>3, <1>7, <2>2, <2>3 DEF Ledger!Commit, Open, Walked
  <2>5. QED
    BY <1>1, <2>4
<1>9. CASE page.next = Nil
  <2>1. {t \in ScanId : Live(t)'} = {}
    BY <1>6, <1>9
  <2>2. Open' = FALSE /\ Walked' = {}
    BY <1>6, <1>9, <2>1 DEF Open, Walked
  <2>3. Ledger!Commit(page.orders)
    BY <1>1, <1>3, <1>9, <2>2 DEF Ledger!Commit, Open, Walked
  <2>4. QED
    BY <1>1, <2>3
<1>10. QED
  BY <1>8, <1>9

\* Every other step moves no page and no head.
LEMMA NextRefines ==
  ASSUME IInv, WalkInv, [Next]_vars PROVE [Ledger!Next]_(Ledger!vars)
<1>1. ASSUME UNCHANGED <<checkpoint, scans, pages, orders>>
      PROVE  UNCHANGED Ledger!vars
  BY <1>1 DEF Ledger!vars, Live, Visited
<1>2. ASSUME NEW p \in Attempt, ResumeScan(p) \/ FinishRun(p)
      PROVE  UNCHANGED <<checkpoint, scans, pages, orders>>
  BY <1>2 DEF ResumeScan, FinishRun
<1>3. ASSUME NEW p \in Attempt, StartScan(p) PROVE Ledger!Next
  BY <1>3, StartScanRefines DEF Ledger!Next
<1>4. ASSUME NEW p \in Attempt, ApplyPage(p) PROVE Ledger!Next
  BY <1>4, ApplyPageRefines DEF Ledger!Next
<1>5. CASE Purge
  <2>1. UNCHANGED <<checkpoint, scans, pages>> /\ orders' = {}
    BY <1>5 DEF Purge
  <2>2. Ledger!Purge
    BY <2>1 DEF Ledger!Purge, Live, Visited
  <2>3. QED
    BY <2>2 DEF Ledger!Next
<1>6. CASE Import
  <2>1. PICK batch \in SUBSET Order : orders' = orders \cup batch
    BY <1>6 DEF Import
  <2>2. UNCHANGED <<checkpoint, scans, pages>>
    BY <1>6 DEF Import
  <2>3. Ledger!Import(batch)
    BY <2>1, <2>2 DEF Ledger!Import, Live, Visited
  <2>4. QED
    BY <2>3 DEF Ledger!Next
<1>7. CASE UNCHANGED ledgerVars
  BY <1>1, <1>7 DEF ledgerVars
<1>8. QED
  BY <1>1, <1>2, <1>3, <1>4, <1>5, <1>6, <1>7, StepKinds

-----------------------------------------------------------------------------
(* What the rows of sync_runs say of the scans.                            *)

\* The pages a run committed to the scan its attempt row names.
Contributed(r) ==
    {i \in DOMAIN pages[runs[r].scan] : pages[runs[r].scan][i].run = r}

\* What one run that the resumable API created says of its scan.
RunGrounded(r) ==
    LET s == runs[r].scan
        walk == pages[s]
    IN  /\ scans[s].state # "none"
        /\ runs[r].source = scans[s].source
        /\ runs[r].pages = Cardinality(Contributed(r))
        /\ runs[r].status = "completed" => runs[r].pages > 0 /\ runs[r].code = ""
        /\ runs[r].status = "failed" => runs[r].code # ""
        /\ runs[r].exhausted = "true" =>
              /\ scans[s].state = "exhausted"
              /\ walk # <<>> /\ walk[Len(walk)].run = r
              /\ walk[Len(walk)].next = Nil

\* The orders a run saw: at most as many as it counted.
SeenBy(r) == {o \in Order : <<r, o>> \in observed}

RowsInv ==
    /\ \A r \in RunId : Managed(r) => RunGrounded(r)
    /\ \A r \in RunId : Cardinality(SeenBy(r)) <= runs[r].records
    /\ \A s \in ScanId : \A i \in DOMAIN pages[s] :
          Managed(pages[s][i].run) /\ runs[pages[s][i].run].scan = s
    /\ \A s \in ScanId : scans[s].state = "exhausted" =>
          /\ scans[s].next = Nil /\ ~scans[s].superseded
          /\ \E q \in Members(s) : runs[q].exhausted = "true"
    /\ \A x \in observed : x[2] \in orders /\ runs[x[1]].status # "none"

\* The rows of sync_runs are numbered without gaps, and the newest is about the
\* pending or finished scan, never about one that another has superseded.
NewestInv ==
    \E k \in 0..MaxRuns :
        /\ \A r \in RunId : runs[r].status # "none" <=> r <= k
        /\ \A r \in RunId : r = k /\ Managed(r) =>
              /\ ~scans[runs[r].scan].superseded
              /\ scans[runs[r].scan].state = "exhausted" => runs[r].exhausted = "true"

\* The counters of a call are those of its run, and a call that ends without an
\* error has committed a page.
CountersInv ==
    \A p \in Attempt :
        /\ att[p].pc \in {"load", "begin"} => att[p].pages = 0 /\ att[p].records = 0
        /\ att[p].pc \in Working =>
              /\ att[p].pages = runs[att[p].run].pages
              /\ att[p].records = runs[att[p].run].records
        /\ att[p].pc = "left" => att[p].pages > 0
        /\ att[p].pc = "finish" /\ att[p].code = "" => att[p].pages > 0

LEMMA InitRows == Init => RowsInv /\ NewestInv /\ CountersInv
<1> SUFFICES ASSUME Init PROVE RowsInv /\ NewestInv /\ CountersInv
  OBVIOUS
<1>1. ASSUME NEW r \in RunId
      PROVE  runs[r].scan = 0 /\ runs[r].records = 0
  <2>1. /\ NoRun.scan = 0 /\ NoRun.records = 0
        /\ LegacyRun.scan = 0 /\ LegacyRun.records = 0
    BY DEF NoRun, LegacyRun, RunRow
  <2>2. runs[r] = NoRun \/ runs[r] = LegacyRun
    BY DEF Init
  <2>3. QED
    BY <2>1, <2>2
<1>2. ASSUME NEW r \in RunId PROVE SeenBy(r) = {}
  BY DEF Init, SeenBy
<1>3. \A s \in ScanId : scans[s].state = "none" /\ pages[s] = <<>>
  BY DEF Init, NoScan
<1>4. RowsInv
  <2>1. \A r \in RunId : ~Managed(r) /\ Cardinality(SeenBy(r)) <= runs[r].records
    BY <1>1, <1>2, FS_EmptySet DEF Managed
  <2>2. observed = {} /\ \A s \in ScanId : DOMAIN pages[s] = {}
    BY <1>3 DEF Init
  <2>3. QED
    BY <1>3, <2>1, <2>2 DEF RowsInv
<1>5. NewestInv
  <2>1. \A r \in RunId : ~Managed(r)
    BY <1>1 DEF Managed
  <2>2. 0 \in 0..MaxRuns /\ 1 \in 0..MaxRuns /\ RunId = 1..MaxRuns
    BY BoundsAssumption DEF RunId
  <2>3. NoRun.status = "none" /\ LegacyRun.status = "running"
    BY DEF NoRun, LegacyRun, RunRow
  <2>4. CASE runs = [r \in RunId |-> NoRun]
    <3>1. \A r \in RunId : runs[r].status # "none" <=> r <= 0
      BY <2>2, <2>3, <2>4
    <3>2. QED
      BY <2>1, <2>2, <3>1 DEF NewestInv
  <2>5. CASE runs = [r \in RunId |-> IF r = 1 THEN LegacyRun ELSE NoRun]
    <3>1. \A r \in RunId : runs[r].status # "none" <=> r <= 1
      BY <2>2, <2>3, <2>5
    <3>2. QED
      BY <2>1, <2>2, <3>1 DEF NewestInv
  <2>6. QED
    BY <2>4, <2>5 DEF Init
<1>6. CountersInv
  <2>1. \A p \in Attempt : att[p].pc = "idle"
    BY DEF Init, Idle, NewCall
  <2>2. QED
    BY <2>1 DEF CountersInv, Working
<1>7. QED
  BY <1>4, <1>5, <1>6

LEMMA RunRowFields ==
  ASSUME NEW status, NEW s, NEW src
  PROVE  LET row == RunRow(status, s, src)
         IN  /\ row.status = status /\ row.scan = s /\ row.source = src
             /\ row.pages = 0 /\ row.records = 0 /\ row.exhausted = "null"
  BY DEF RunRow

\* A row of sync_scan_pages names a run.
LEMMA PageRowType ==
  ASSUME TypeOK, NEW t \in ScanId, NEW i \in DOMAIN pages[t]
  PROVE  pages[t][i] \in PageRow /\ pages[t][i].run \in RunId
<1>1. pages[t] \in Seq(PageRow)
  BY DEF TypeOK
<1>2. pages[t][i] \in PageRow
  BY <1>1
<1>3. QED
  BY <1>2 DEF PageRow

\* The run a begin transaction inserts, on the scan it leaves pending.
LEMMA OpenRunRow ==
  ASSUME IInv, NEW p \in Attempt, NEW s \in ScanId, OpenRun(p, s)
  PROVE  \E r \in RunId :
            /\ NextRunId(r) /\ runs[r].status = "none"
            /\ runs'[r].status = "running" /\ runs'[r].scan = s
            /\ runs'[r].source = att[p].source /\ runs'[r].pages = 0
            /\ runs'[r].records = 0 /\ runs'[r].exhausted = "null"
            /\ \A q \in RunId \ {r} :
                  /\ runs'[q].scan = runs[q].scan /\ runs'[q].source = runs[q].source
                  /\ runs'[q].pages = runs[q].pages
                  /\ runs'[q].records = runs[q].records
                  /\ runs'[q].exhausted = runs[q].exhausted
                  /\ \/ runs'[q].status = runs[q].status /\ runs'[q].code = runs[q].code
                     \/ /\ runs[q].status = "running"
                        /\ runs'[q].status = "failed" /\ runs'[q].code = "interrupted"
            /\ att'[p].pc = "loop" /\ att'[p].run = r
            /\ att'[p].pages = att[p].pages /\ att'[p].records = att[p].records
            /\ \A q \in Attempt : q # p => att'[q] = att[q]
<1>1. PICK r \in RunId :
         /\ NextRunId(r)
         /\ runs' = [Interrupted EXCEPT ![r] = RunRow("running", s, att[p].source)]
         /\ Becomes(p, [att[p] EXCEPT !.pc = "loop", !.run = r,
                                      !.cursor = FirstCursor(p)])
  BY DEF OpenRun
<1>2. runs[r].status = "none"
  BY <1>1 DEF NextRunId, RunId
<1>3. att[p] \in Local /\ att \in [Attempt -> Local]
  BY DEF IInv, TypeOK
<1>4. /\ att'[p].pc = "loop" /\ att'[p].run = r
      /\ att'[p].pages = att[p].pages /\ att'[p].records = att[p].records
      /\ \A q \in Attempt : q # p => att'[q] = att[q]
  BY <1>1, <1>3 DEF Becomes, Local
<1>5. /\ runs'[r] = RunRow("running", s, att[p].source)
      /\ \A q \in RunId \ {r} : runs'[q] = Interrupted[q]
  BY <1>1 DEF Interrupted
<1>6. /\ runs'[r].status = "running" /\ runs'[r].scan = s
      /\ runs'[r].source = att[p].source /\ runs'[r].pages = 0
      /\ runs'[r].records = 0 /\ runs'[r].exhausted = "null"
  BY <1>5, RunRowFields
<1>7. ASSUME NEW q \in RunId \ {r}
      PROVE  /\ runs'[q].scan = runs[q].scan /\ runs'[q].source = runs[q].source
             /\ runs'[q].pages = runs[q].pages
             /\ runs'[q].records = runs[q].records
             /\ runs'[q].exhausted = runs[q].exhausted
             /\ \/ runs'[q].status = runs[q].status /\ runs'[q].code = runs[q].code
                \/ /\ runs[q].status = "running"
                   /\ runs'[q].status = "failed" /\ runs'[q].code = "interrupted"
  <2>1. runs[q] \in Run
    BY DEF IInv, TypeOK
  <2>2. CASE runs[q].status = "running" /\ runs[q].scan # 0
    <3>1. runs'[q] = [runs[q] EXCEPT !.status = "failed", !.code = "interrupted"]
      BY <1>5, <2>2 DEF Interrupted
    <3>2. QED
      BY <2>1, <2>2, <3>1 DEF Run
  <2>3. CASE ~(runs[q].status = "running" /\ runs[q].scan # 0)
    BY <1>5, <2>3 DEF Interrupted
  <2>4. QED
    BY <2>2, <2>3
<1>8. QED
  BY <1>1, <1>2, <1>4, <1>6, <1>7

\* A begin transaction, whether it resumes a scan or starts one.
LEMMA OpenRunRows ==
  ASSUME IInv, RowsInv, NewestInv, NEW p \in Attempt, NEW s \in ScanId, OpenRun(p, s),
         UNCHANGED <<pages, orders, observed>>,
         scans'[s].state = "active", ~scans'[s].superseded,
         scans'[s].source = att[p].source,
         scans[s].state # "none" => scans'[s] = scans[s],
         \A t \in ScanId \ {s} :
            /\ scans'[t].state = scans[t].state /\ scans'[t].source = scans[t].source
            /\ scans[t].state = "exhausted" => scans'[t] = scans[t]
  PROVE  RowsInv' /\ NewestInv'
<1>1. PICK r \in RunId :
            /\ NextRunId(r) /\ runs[r].status = "none"
            /\ runs'[r].status = "running" /\ runs'[r].scan = s
            /\ runs'[r].source = att[p].source /\ runs'[r].pages = 0
            /\ runs'[r].records = 0 /\ runs'[r].exhausted = "null"
            /\ \A q \in RunId \ {r} :
                  /\ runs'[q].scan = runs[q].scan /\ runs'[q].source = runs[q].source
                  /\ runs'[q].pages = runs[q].pages
                  /\ runs'[q].records = runs[q].records
                  /\ runs'[q].exhausted = runs[q].exhausted
                  /\ \/ runs'[q].status = runs[q].status /\ runs'[q].code = runs[q].code
                     \/ /\ runs[q].status = "running"
                        /\ runs'[q].status = "failed" /\ runs'[q].code = "interrupted"
  BY OpenRunRow
<1>2. ~Managed(r) /\ \A q \in RunId \ {r} : Managed(q)' <=> Managed(q)
  BY <1>1 DEF Managed
<1>3. \A t \in ScanId : \A i \in DOMAIN pages[t] : pages[t][i].run # r
  BY <1>2 DEF RowsInv
<1>4. \A q \in RunId : Managed(q) => runs[q].scan \in ScanId
  BY BoundsAssumption DEF IInv, TypeOK, Run, Managed, ScanId
<1>5. ASSUME NEW q \in RunId, Managed(q)' PROVE RunGrounded(q)'
  <2>1. CASE q = r
    <3>1. Contributed(r)' = {}
      BY <1>1, <1>3 DEF Contributed
    <3>2. QED
      BY <1>1, <2>1, <3>1, FS_EmptySet DEF RunGrounded
  <2>2. CASE q # r
    <3>1. Managed(q) /\ RunGrounded(q) /\ runs[q].scan \in ScanId
      BY <1>2, <1>4, <1>5, <2>2 DEF RowsInv
    <3>2. Contributed(q)' = Contributed(q)
      BY <1>1, <2>2 DEF Contributed
    <3>3. PICK t \in ScanId : t = runs[q].scan
      BY <3>1
    <3>4. /\ scans[t].state # "none" /\ runs[q].source = scans[t].source
          /\ runs[q].exhausted = "true" => scans[t].state = "exhausted"
      BY <3>1, <3>3 DEF RunGrounded
    <3>5. /\ scans'[t].state # "none" /\ scans'[t].source = scans[t].source
          /\ scans[t].state = "exhausted" => scans'[t] = scans[t]
      BY <3>4
    <3>6. /\ runs'[q].scan = t /\ runs'[q].source = runs[q].source
          /\ runs'[q].pages = runs[q].pages /\ runs'[q].exhausted = runs[q].exhausted
          /\ \/ runs'[q].status = runs[q].status /\ runs'[q].code = runs[q].code
             \/ /\ runs[q].status = "running"
                /\ runs'[q].status = "failed" /\ runs'[q].code = "interrupted"
      BY <1>1, <2>2, <3>3
    <3>7. QED
      BY <3>1, <3>2, <3>3, <3>4, <3>5, <3>6 DEF RunGrounded
  <2>3. QED
    BY <2>1, <2>2
<1>6. ASSUME NEW q \in RunId PROVE Cardinality(SeenBy(q)') <= runs'[q].records
  <2>1. SeenBy(q)' = SeenBy(q)
    BY DEF SeenBy
  <2>2. CASE q = r
    <3>1. SeenBy(r) = {}
      BY <1>1 DEF RowsInv, SeenBy
    <3>2. QED
      BY <1>1, <2>1, <2>2, <3>1, FS_EmptySet
  <2>3. CASE q # r
    BY <1>1, <2>1, <2>3 DEF RowsInv
  <2>4. QED
    BY <2>2, <2>3
<1>7. ASSUME NEW t \in ScanId, NEW i \in DOMAIN pages[t]
      PROVE  (Managed(pages[t][i].run) /\ runs[pages[t][i].run].scan = t)'
  <2>1. PICK q \in RunId : q = pages[t][i].run
    BY PageRowType DEF IInv
  <2>2. Managed(q) /\ runs[q].scan = t /\ q # r
    BY <1>3, <2>1 DEF RowsInv
  <2>3. Managed(q)' /\ runs'[q].scan = t
    BY <1>1, <1>2, <2>2
  <2>4. QED
    BY <2>1, <2>3
<1>8. ASSUME NEW t \in ScanId, scans'[t].state = "exhausted"
      PROVE  /\ scans'[t].next = Nil /\ ~scans'[t].superseded
             /\ \E q \in Members(t)' : runs'[q].exhausted = "true"
  <2>1. t # s /\ scans'[t] = scans[t]
    BY <1>8
  <2>2. PICK q \in Members(t) : runs[q].exhausted = "true"
    BY <1>8, <2>1 DEF RowsInv
  <2>3. q \in RunId \ {r} /\ Managed(q) /\ runs[q].scan = t
    BY <1>2, <2>2 DEF Members
  <2>4. q \in Members(t)' /\ runs'[q].exhausted = "true"
    BY <1>1, <1>2, <2>2, <2>3 DEF Members
  <2>5. QED
    BY <1>8, <2>1, <2>4 DEF RowsInv
<1>9. ASSUME NEW x \in observed PROVE x[2] \in orders /\ runs'[x[1]].status # "none"
  <2>1. x[2] \in orders /\ runs[x[1]].status # "none" /\ x[1] \in RunId
    BY DEF RowsInv, IInv, TypeOK
  <2>2. x[1] # r
    BY <1>1, <2>1
  <2>3. QED
    BY <1>1, <2>1, <2>2
<1>10. RowsInv'
  BY <1>5, <1>6, <1>7, <1>8, <1>9 DEF RowsInv
<1>11. NewestInv'
  <2>1. PICK k \in 0..MaxRuns : \A q \in RunId : runs[q].status # "none" <=> q <= k
    BY DEF NewestInv
  <2>2. \A q \in RunId : q < r <=> runs[q].status # "none"
    BY <1>1 DEF NextRunId
  <2>3. r \in 0..MaxRuns
    BY BoundsAssumption DEF RunId
  <2>4. \A q \in RunId : runs'[q].status # "none" <=> q <= r
    BY <1>1, <2>2 DEF RunId
  <2>5. ~scans'[runs'[r].scan].superseded /\ scans'[runs'[r].scan].state # "exhausted"
    BY <1>1
  <2>6. QED
    BY <2>3, <2>4, <2>5 DEF NewestInv
<1>12. QED
  BY <1>10, <1>11

\* What the page transaction writes of its run, and of the attempt's counters.
LEMMA ApplyPageRow ==
  ASSUME IInv, NEW p \in Attempt, ApplyPage(p)
  PROVE  LET r == att[p].run
             page == att[p].page
         IN  /\ Cardinality(page.orders) \in Nat /\ IsFiniteSet(page.orders)
             /\ runs'[r].records = runs[r].records + Cardinality(page.orders)
             /\ runs'[r].exhausted = IF page.next = Nil THEN "true" ELSE "false"
             /\ observed' = observed \cup ({r} \X page.orders)
             /\ att'[p].records = att[p].records + Cardinality(page.orders)
             /\ att'[p].pc = IF page.next = Nil THEN "left" ELSE "loop"
<1> DEFINE r == att[p].run
           page == att[p].page
           size == Cardinality(page.orders)
           ended == IF page.next = Nil THEN "true" ELSE "false"
           stage == IF page.next = Nil THEN "left" ELSE "loop"
<1>1. /\ r \in RunId /\ page.orders \in SUBSET Order
      /\ runs[r] \in Run /\ att[p] \in Local
  BY ApplyPageWrites DEF IInv, TypeOK
<1>2. size \in Nat /\ IsFiniteSet(page.orders)
  BY <1>1, OrderAssumption, FS_Subset, FS_CardinalityType
<1>3. /\ runs' = [runs EXCEPT ![r] = ProgressedRun(r, page)]
      /\ observed' = observed \cup ({r} \X page.orders)
      /\ att' = [att EXCEPT ![p] = Advanced(p)]
  BY DEF ApplyPage, Becomes
<1>4. ProgressedRun(r, page) = [runs[r] EXCEPT !.pages = runs[r].pages + 1,
                                    !.records = runs[r].records + size,
                                    !.exhausted = ended]
  BY <1>1 DEF ProgressedRun, Run
<1>5. Advanced(p) = [att[p] EXCEPT !.pc = stage, !.cursor = page.next, !.page = NoPage,
                                   !.pages = att[p].pages + 1,
                                   !.records = att[p].records + size]
  BY <1>1 DEF Advanced, Local
<1> HIDE DEF size, ended, stage
<1>6. /\ ProgressedRun(r, page).records = runs[r].records + size
      /\ ProgressedRun(r, page).exhausted = ended
  BY <1>1, <1>4 DEF Run
<1>7. Advanced(p).records = att[p].records + size /\ Advanced(p).pc = stage
  BY <1>1, <1>5 DEF Local
<1>8. runs'[r] = ProgressedRun(r, page) /\ att'[p] = Advanced(p)
  BY <1>1, <1>3 DEF IInv, TypeOK
<1>9. QED
  BY <1>2, <1>3, <1>6, <1>7, <1>8 DEF size, ended, stage

\* The row of a scan whose head a page has moved.
LEMMA MovedScanRow ==
  ASSUME TypeOK, NEW s \in ScanId, NEW page \in Page,
         scans' = [scans EXCEPT ![s] = MovedScan(s, page)]
  PROVE  /\ scans'[s].next = page.next /\ scans'[s].source = scans[s].source
         /\ scans'[s].superseded = scans[s].superseded
         /\ scans'[s].state = IF page.next = Nil THEN "exhausted" ELSE scans[s].state
<1> DEFINE state == IF page.next = Nil THEN "exhausted" ELSE scans[s].state
           row == [scans[s] EXCEPT !.next = page.next, !.state = state]
<1>1. scans[s] \in Scan
  BY DEF TypeOK
<1>2. scans'[s] = MovedScan(s, page)
  BY DEF TypeOK
<1>3. MovedScan(s, page) = row
  BY <1>1 DEF MovedScan, Scan
<1> HIDE DEF state
<1>4. /\ row.next = page.next /\ row.source = scans[s].source
      /\ row.superseded = scans[s].superseded /\ row.state = state
  BY <1>1 DEF Scan
<1> HIDE DEF row
<1>5. /\ scans'[s].next = page.next /\ scans'[s].source = scans[s].source
      /\ scans'[s].superseded = scans[s].superseded /\ scans'[s].state = state
  BY <1>2, <1>3, <1>4
<1>6. QED
  BY <1>5 DEF state

\* The page transaction keeps what the rows say of each other.
LEMMA ApplyPageRows ==
  ASSUME IInv, RowsInv, NewestInv, NEW p \in Attempt, ApplyPage(p)
  PROVE  RowsInv' /\ NewestInv'
<1> DEFINE page == att[p].page
           row(r) == [cursor |-> att[p].cursor, run |-> r, next |-> page.next]
<1>1. PICK r \in RunId : r = att[p].run
  BY ApplyPageWrites
<1>2. PICK s \in ScanId : s = runs[r].scan
  BY <1>1, ApplyPageWrites
<1>3. /\ page.next \in Key /\ page.orders \in SUBSET Order
      /\ runs[r].status = "running" /\ Live(s)
      /\ runs'[r].status = "running" /\ runs'[r].scan = s
      /\ runs'[r].source = runs[r].source
      /\ runs'[r].pages = runs[r].pages + 1
      /\ \A q \in RunId \ {r} : runs'[q] = runs[q]
      /\ pages'[s] = Append(pages[s], row(r))
      /\ \A t \in ScanId \ {s} : pages'[t] = pages[t]
      /\ scans'[s] = [scans[s] EXCEPT !.next = page.next,
                         !.state = IF page.next = Nil THEN "exhausted" ELSE @]
      /\ \A t \in ScanId \ {s} : scans'[t] = scans[t]
      /\ orders' = orders \cup page.orders
  BY <1>1, <1>2, ApplyPageWrites
<1>4. /\ Cardinality(page.orders) \in Nat /\ IsFiniteSet(page.orders)
      /\ runs'[r].records = runs[r].records + Cardinality(page.orders)
      /\ runs'[r].exhausted = IF page.next = Nil THEN "true" ELSE "false"
      /\ observed' = observed \cup ({r} \X page.orders)
  BY <1>1, ApplyPageRow
<1>5. /\ scans'[s].next = page.next /\ scans'[s].source = scans[s].source
      /\ scans'[s].superseded = scans[s].superseded
      /\ scans'[s].state = IF page.next = Nil THEN "exhausted" ELSE scans[s].state
  <2>1. scans' = [scans EXCEPT ![s] = MovedScan(s, page)]
    BY <1>1, <1>2 DEF ApplyPage
  <2>2. page \in Page
    BY DEF IInv, TypeOK, Local
  <2>3. QED
    BY <2>1, <2>2, MovedScanRow DEF IInv
<1>6. scans[s].state = "active" /\ ~scans[s].superseded
  BY <1>3 DEF Live
<1>7. Managed(r) /\ \A q \in RunId : Managed(q)' <=> Managed(q)
  <2>1. s # 0
    BY BoundsAssumption DEF ScanId
  <2>2. QED
    BY <1>2, <1>3, <2>1 DEF Managed
<1>8. /\ pages[s] \in Seq(PageRow) /\ row(r) \in PageRow
      /\ row(r).run = r /\ row(r).next = page.next
  <2>1. att[p].cursor \in Key
    BY DEF IInv, TypeOK, Local
  <2>2. QED
    BY <1>3, <2>1 DEF IInv, TypeOK, PageRow
<1> DEFINE n == Len(pages[s])
<1>9. /\ pages'[s] # <<>> /\ Len(pages'[s]) = n + 1
      /\ n \in Nat /\ DOMAIN pages[s] = 1..n /\ DOMAIN pages'[s] = 1..(n + 1)
      /\ pages'[s][n + 1] = row(r)
      /\ \A i \in 1..n : pages'[s][i] = pages[s][i]
  <2> HIDE DEF row
  <2> QED BY <1>3, <1>8, Appended
<1> HIDE DEF row, n
<1>10. ASSUME NEW q \in RunId, Managed(q)' PROVE RunGrounded(q)'
  <2>1. Managed(q) /\ RunGrounded(q)
    BY <1>7, <1>10 DEF RowsInv
  <2>2. CASE q = r
    <3>1. Contributed(r)' = Contributed(r) \cup {n + 1} /\ n + 1 \notin Contributed(r)
      <4>1. Contributed(r) = {i \in 1..n : pages[s][i].run = r}
        BY <1>2, <1>9 DEF Contributed
      <4>2. Contributed(r)' = {i \in 1..(n + 1) : pages'[s][i].run = r}
        BY <1>3, <1>9 DEF Contributed
      <4>3. 1..(n + 1) = (1..n) \cup {n + 1} /\ n + 1 \notin 1..n
        BY <1>9
      <4>4. QED
        BY <1>8, <1>9, <4>1, <4>2, <4>3
    <3>2. IsFiniteSet(Contributed(r)) /\ Cardinality(Contributed(r)) \in Nat
      <4>1. Contributed(r) \subseteq 1..n
        BY <1>2, <1>9 DEF Contributed
      <4>2. IsFiniteSet(1..n)
        <5>1. 1 \in Int /\ n \in Int
          BY <1>9
        <5>2. QED
          BY <5>1, FS_Interval
      <4>3. QED
        BY <4>1, <4>2, FS_Subset, FS_CardinalityType
    <3>3. Cardinality(Contributed(r)') = Cardinality(Contributed(r)) + 1
      BY <3>1, <3>2, FS_AddElement
    <3>4. runs'[r].pages = Cardinality(Contributed(r)')
      BY <1>3, <2>1, <2>2, <3>3 DEF RunGrounded
    <3>5. scans'[s].state # "none" /\ runs'[r].source = scans'[s].source
      <4>1. runs[r].source = scans[s].source
        BY <1>2, <2>1, <2>2 DEF RunGrounded
      <4>2. QED
        BY <1>3, <1>5, <1>6, <4>1
    <3>6. runs'[r].exhausted = "true" =>
              /\ scans'[s].state = "exhausted"
              /\ pages'[s] # <<>> /\ pages'[s][Len(pages'[s])].run = r
              /\ pages'[s][Len(pages'[s])].next = Nil
      BY <1>4, <1>5, <1>8, <1>9
    <3>7. QED
      BY <1>3, <2>2, <3>4, <3>5, <3>6 DEF RunGrounded
  <2>3. CASE q # r
    <3>1. runs'[q] = runs[q]
      BY <1>3, <2>3
    <3>2. PICK t \in ScanId : t = runs[q].scan
      BY <2>1, BoundsAssumption DEF IInv, TypeOK, Run, Managed, ScanId
    <3>3. CASE t # s
      <4>1. scans'[t] = scans[t] /\ pages'[t] = pages[t]
        BY <1>3, <3>3
      <4>2. Contributed(q)' = Contributed(q)
        BY <3>1, <3>2, <4>1 DEF Contributed
      <4>3. QED
        <5>1. /\ runs'[q].scan = t /\ runs'[q] = runs[q]
              /\ scans'[t] = scans[t] /\ pages'[t] = pages[t]
          BY <3>1, <3>2, <4>1
        <5>2. /\ scans[t].state # "none" /\ runs[q].source = scans[t].source
              /\ runs[q].pages = Cardinality(Contributed(q))
              /\ runs[q].status = "completed" => runs[q].pages > 0 /\ runs[q].code = ""
              /\ runs[q].status = "failed" => runs[q].code # ""
              /\ runs[q].exhausted = "true" =>
                    /\ scans[t].state = "exhausted"
                    /\ pages[t] # <<>> /\ pages[t][Len(pages[t])].run = q
                    /\ pages[t][Len(pages[t])].next = Nil
          BY <2>1, <3>2 DEF RunGrounded
        <5>3. runs'[q].pages = Cardinality(Contributed(q)')
          BY <4>2, <5>1, <5>2
        <5>4. QED
          BY <5>1, <5>2, <5>3 DEF RunGrounded
    <3>4. CASE t = s
      <4>1. Contributed(q)' = Contributed(q)
        <5>1. Contributed(q) = {i \in 1..n : pages[s][i].run = q}
          BY <1>9, <3>2, <3>4 DEF Contributed
        <5>2. Contributed(q)' = {i \in 1..(n + 1) : pages'[s][i].run = q}
          BY <1>9, <3>1, <3>2, <3>4 DEF Contributed
        <5>3. 1..(n + 1) = (1..n) \cup {n + 1}
          BY <1>9
        <5>4. QED
          BY <1>8, <1>9, <2>3, <5>1, <5>2, <5>3
      <4>2. runs[q].exhausted # "true"
        BY <1>6, <2>1, <3>2, <3>4 DEF RunGrounded
      <4>3. scans'[s].state # "none"
        BY <1>5, <1>6
      <4>4. QED
        BY <1>5, <2>1, <3>1, <3>2, <3>4, <4>1, <4>2, <4>3 DEF RunGrounded
    <3>5. QED
      BY <3>3, <3>4
  <2>4. QED
    BY <2>2, <2>3
<1>11. ASSUME NEW q \in RunId PROVE Cardinality(SeenBy(q)') <= runs'[q].records
  <2>1. Cardinality(SeenBy(q)) <= runs[q].records
    BY DEF RowsInv
  <2>2. CASE q # r
    <3>1. SeenBy(q)' = SeenBy(q)
      BY <1>4, <2>2 DEF SeenBy
    <3>2. QED
      BY <1>3, <2>1, <2>2, <3>1
  <2>3. CASE q = r
    <3>1. SeenBy(r)' = SeenBy(r) \cup page.orders
      BY <1>3, <1>4 DEF SeenBy
    <3>2. IsFiniteSet(SeenBy(r)) /\ Cardinality(SeenBy(r)) \in Nat
      <4>1. SeenBy(r) \subseteq Order
        BY DEF SeenBy
      <4>2. QED
        BY <4>1, OrderAssumption, FS_Subset, FS_CardinalityType
    <3>3. /\ Cardinality(SeenBy(r) \cup page.orders) =
               Cardinality(SeenBy(r)) + Cardinality(page.orders)
                  - Cardinality(SeenBy(r) \cap page.orders)
          /\ Cardinality(SeenBy(r) \cap page.orders) \in Nat
      BY <1>4, <3>2, FS_Union, FS_Intersection, FS_CardinalityType
    <3>4. runs[r].records \in Nat
      BY DEF IInv, TypeOK, Run
    <3>5. QED
      BY <1>4, <2>1, <2>3, <3>1, <3>2, <3>3, <3>4
  <2>4. QED
    BY <2>2, <2>3
<1>12. ASSUME NEW t \in ScanId, NEW i \in DOMAIN pages'[t]
       PROVE  (Managed(pages[t][i].run) /\ runs[pages[t][i].run].scan = t)'
  <2>1. CASE t = s /\ i = n + 1
    BY <1>3, <1>7, <1>8, <1>9, <2>1
  <2>2. CASE ~(t = s /\ i = n + 1)
    <3>1. i \in DOMAIN pages[t] /\ pages'[t][i] = pages[t][i]
      <4>1. CASE t = s
        BY <1>9, <2>2, <4>1
      <4>2. CASE t # s
        BY <1>3, <4>2
      <4>3. QED
        BY <4>1, <4>2
    <3>2. PICK q \in RunId : q = pages[t][i].run
      BY <3>1, PageRowType DEF IInv
    <3>3. Managed(q) /\ runs[q].scan = t
      BY <3>1, <3>2 DEF RowsInv
    <3>4. Managed(q)' /\ runs'[q].scan = t
      BY <1>2, <1>3, <1>7, <3>3
    <3>5. QED
      BY <3>1, <3>2, <3>4
  <2>3. QED
    BY <2>1, <2>2
<1>13. ASSUME NEW t \in ScanId, scans'[t].state = "exhausted"
       PROVE  /\ scans'[t].next = Nil /\ ~scans'[t].superseded
              /\ \E q \in Members(t)' : runs'[q].exhausted = "true"
  <2>1. CASE t = s
    <3>1. page.next = Nil
      BY <1>5, <1>6, <1>13, <2>1
    <3>2. r \in Members(s)' /\ runs'[r].exhausted = "true"
      BY <1>3, <1>4, <1>7, <3>1 DEF Members
    <3>3. QED
      BY <1>5, <1>6, <2>1, <3>1, <3>2
  <2>2. CASE t # s
    <3>1. scans'[t] = scans[t]
      BY <1>3, <2>2
    <3>2. PICK q \in Members(t) : runs[q].exhausted = "true"
      BY <1>13, <3>1 DEF RowsInv
    <3>3. q \in RunId \ {r} /\ Managed(q) /\ runs[q].scan = t
      BY <1>2, <2>2, <3>2 DEF Members
    <3>4. q \in Members(t)' /\ runs'[q].exhausted = "true"
      BY <1>3, <1>7, <3>2, <3>3 DEF Members
    <3>5. QED
      BY <1>13, <3>1, <3>4 DEF RowsInv
  <2>3. QED
    BY <2>1, <2>2
<1>14. ASSUME NEW x \in observed' PROVE x[2] \in orders' /\ runs'[x[1]].status # "none"
  <2>1. CASE x \in observed
    <3>1. x[2] \in orders /\ runs[x[1]].status # "none" /\ x[1] \in RunId
      BY <2>1 DEF RowsInv, IInv, TypeOK
    <3>2. QED
      BY <1>3, <3>1
  <2>2. CASE x \in {r} \X page.orders
    BY <1>3, <2>2
  <2>3. QED
    BY <1>4, <2>1, <2>2
<1>15. RowsInv'
  BY <1>10, <1>11, <1>12, <1>13, <1>14 DEF RowsInv
<1>16. NewestInv'
  <2>1. PICK k \in 0..MaxRuns : \A q \in RunId : runs[q].status # "none" <=> q <= k
    BY DEF NewestInv
  <2>2. k = r
    <3>1. r <= k /\ k \in RunId
      BY <1>3, <2>1 DEF RunId
    <3>2. \A q \in RunId : q > r => runs[q].status = "none"
      BY <1>3, <1>7 DEF IInv, OneOpenRun
    <3>3. QED
      BY <2>1, <3>1, <3>2 DEF RunId
  <2>3. \A q \in RunId : runs'[q].status # "none" <=> q <= k
    BY <1>3, <2>1
  <2>4. ~scans'[runs'[r].scan].superseded
    BY <1>3, <1>5, <1>6
  <2>5. scans'[runs'[r].scan].state = "exhausted" => runs'[r].exhausted = "true"
    BY <1>3, <1>4, <1>5, <1>6
  <2>6. QED
    BY <2>1, <2>2, <2>3, <2>4, <2>5 DEF NewestInv
<1>17. QED
  BY <1>15, <1>16

\* What FinishSync writes of its run, and the call after it.
LEMMA FinishRunRow ==
  ASSUME IInv, NEW p \in Attempt, FinishRun(p)
  PROVE  LET r == att[p].run
         IN  /\ runs'[r].status = IF att[p].code = "" THEN "completed" ELSE "failed"
             /\ runs'[r].code = att[p].code
             /\ runs'[r].pages = att[p].pages /\ runs'[r].records = att[p].records
             /\ runs'[r].exhausted = runs[r].exhausted
             /\ att'[p].pc = "unlock"
<1> DEFINE r == att[p].run
           ended == IF att[p].code = "" THEN "completed" ELSE "failed"
           row == [runs[r] EXCEPT !.status = ended, !.code = att[p].code,
                                  !.pages = att[p].pages, !.records = att[p].records]
<1>1. r \in RunId /\ runs[r] \in Run
  BY DEF FinishRun, Assigned, Working, IInv, TypeOK
<1>2. runs'[r] = row
  BY <1>1 DEF FinishRun, IInv, TypeOK
<1>3. att'[p].pc = "unlock"
  BY DEF FinishRun, Return, Becomes, Returning, NewCall, IInv, TypeOK
<1> HIDE DEF ended
<1>4. /\ row.status = ended /\ row.code = att[p].code /\ row.pages = att[p].pages
      /\ row.records = att[p].records /\ row.exhausted = runs[r].exhausted
  BY <1>1 DEF Run
<1> HIDE DEF row
<1>5. QED
  BY <1>2, <1>3, <1>4 DEF ended

\* FinishSync keeps what the rows say of each other: it overwrites the counters
\* of the run with equal ones.
LEMMA FinishRunRows ==
  ASSUME IInv, RowsInv, NewestInv, CountersInv, NEW p \in Attempt, FinishRun(p)
  PROVE  RowsInv' /\ NewestInv'
<1>1. PICK r \in RunId : r = att[p].run
  BY FinishRunWrites
<1>2. PICK s \in ScanId : s = runs[r].scan
  BY <1>1, FinishRunWrites
<1>3. /\ runs[r].status = "running"
      /\ runs'[r].scan = s /\ runs'[r].source = runs[r].source
      /\ \A q \in RunId \ {r} : runs'[q] = runs[q]
      /\ UNCHANGED <<scans, pages, orders, observed>>
  BY <1>1, <1>2, FinishRunWrites
<1>4. /\ runs'[r].status = IF att[p].code = "" THEN "completed" ELSE "failed"
      /\ runs'[r].code = att[p].code
      /\ runs'[r].pages = att[p].pages /\ runs'[r].records = att[p].records
      /\ runs'[r].exhausted = runs[r].exhausted
  BY <1>1, FinishRunRow
<1>5. /\ att[p].pages = runs[r].pages /\ att[p].records = runs[r].records
      /\ att[p].code = "" => att[p].pages > 0
  BY <1>1 DEF CountersInv, Working, FinishRun
<1>6. /\ \A q \in RunId : runs'[q].status # "none" <=> runs[q].status # "none"
      /\ \A q \in RunId : runs'[q].scan = runs[q].scan
      /\ \A q \in RunId : runs'[q].source = runs[q].source
      /\ \A q \in RunId : runs'[q].pages = runs[q].pages
      /\ \A q \in RunId : runs'[q].records = runs[q].records
      /\ \A q \in RunId : runs'[q].exhausted = runs[q].exhausted
  BY <1>2, <1>3, <1>4, <1>5
<1>7. \A q \in RunId : Managed(q)' <=> Managed(q)
  BY <1>6 DEF Managed
<1>8. ASSUME NEW q \in RunId, Managed(q)' PROVE RunGrounded(q)'
  <2>1. RunGrounded(q) /\ Managed(q)
    BY <1>7, <1>8 DEF RowsInv
  <2>2. PICK t \in ScanId : t = runs[q].scan
    BY <2>1, BoundsAssumption DEF IInv, TypeOK, Run, Managed, ScanId
  <2>3. Contributed(q)' = Contributed(q)
    BY <1>3, <1>6 DEF Contributed
  <2>4. /\ runs'[q].status = "completed" => runs'[q].pages > 0 /\ runs'[q].code = ""
        /\ runs'[q].status = "failed" => runs'[q].code # ""
    <3>1. CASE q = r
      BY <1>4, <1>5, <3>1
    <3>2. CASE q # r
      BY <1>3, <2>1, <3>2 DEF RunGrounded
    <3>3. QED
      BY <3>1, <3>2
  <2>5. QED
    BY <1>3, <1>6, <2>1, <2>2, <2>3, <2>4 DEF RunGrounded
<1>9. RowsInv'
  <2>1. \A q \in RunId : Cardinality(SeenBy(q)') <= runs'[q].records
    BY <1>3, <1>6 DEF RowsInv, SeenBy
  <2>2. ASSUME NEW t \in ScanId, NEW i \in DOMAIN pages[t]
        PROVE  (Managed(pages[t][i].run) /\ runs[pages[t][i].run].scan = t)'
    <3>1. PICK q \in RunId : q = pages[t][i].run
      BY PageRowType DEF IInv
    <3>2. Managed(q)' /\ runs'[q].scan = t
      BY <1>6, <1>7, <3>1 DEF RowsInv
    <3>3. QED
      BY <1>3, <3>1, <3>2
  <2>3. \A t \in ScanId : Members(t)' = Members(t)
    BY <1>6, <1>7 DEF Members
  <2>4. \A t \in ScanId : scans'[t].state = "exhausted" =>
          /\ scans'[t].next = Nil /\ ~scans'[t].superseded
          /\ \E q \in Members(t)' : runs'[q].exhausted = "true"
    BY <1>3, <1>6, <2>3 DEF RowsInv, Members
  <2>5. \A x \in observed' : x[2] \in orders' /\ runs'[x[1]].status # "none"
    <3>1. \A x \in observed : x[2] \in orders /\ runs[x[1]].status # "none"
      BY DEF RowsInv
    <3>2. \A x \in observed : x[1] \in RunId
      BY DEF IInv, TypeOK
    <3>3. QED
      BY <1>3, <1>6, <3>1, <3>2
  <2>6. QED
    BY <1>3, <1>8, <2>1, <2>2, <2>4, <2>5 DEF RowsInv
<1>10. NewestInv'
  <2>1. PICK k \in 0..MaxRuns :
        /\ \A q \in RunId : runs[q].status # "none" <=> q <= k
        /\ \A q \in RunId : q = k /\ Managed(q) =>
              /\ ~scans[runs[q].scan].superseded
              /\ scans[runs[q].scan].state = "exhausted" => runs[q].exhausted = "true"
    BY DEF NewestInv
  <2>2. QED
    BY <1>3, <1>6, <1>7, <2>1 DEF NewestInv
<1>11. QED
  BY <1>9, <1>10

\* The other writers: purges, imports, and steps that leave the ledger alone.
LEMMA OrdersRows ==
  ASSUME IInv, RowsInv, NewestInv, UNCHANGED <<scans, pages, runs>>,
         \/ observed' = observed /\ orders \subseteq orders'
         \/ observed' = {}
  PROVE  RowsInv' /\ NewestInv'
<1>1. \A q \in RunId : Managed(q)' <=> Managed(q)
  BY DEF Managed
<1>2. \A q \in RunId : RunGrounded(q)' <=> RunGrounded(q)
  BY DEF RunGrounded, Contributed
<1>3. \A t \in ScanId : Members(t)' = Members(t)
  BY DEF Members, Managed
<1>4. ASSUME NEW q \in RunId PROVE Cardinality(SeenBy(q)') <= runs'[q].records
  <2>1. CASE observed' = observed
    BY <2>1 DEF SeenBy, RowsInv
  <2>2. CASE observed' = {}
    <3>1. SeenBy(q)' = {} /\ runs[q].records \in Nat
      BY <2>2 DEF SeenBy, IInv, TypeOK, Run
    <3>2. QED
      BY <3>1, FS_EmptySet
  <2>3. QED
    BY <2>1, <2>2
<1>5. \A x \in observed' : x[2] \in orders' /\ runs'[x[1]].status # "none"
  BY DEF RowsInv
<1>6. ASSUME NEW t \in ScanId, NEW i \in DOMAIN pages[t]
      PROVE  (Managed(pages[t][i].run) /\ runs[pages[t][i].run].scan = t)'
  BY DEF RowsInv, Managed
<1>7. \A t \in ScanId : scans'[t].state = "exhausted" =>
          /\ scans'[t].next = Nil /\ ~scans'[t].superseded
          /\ \E q \in Members(t)' : runs'[q].exhausted = "true"
  BY <1>3 DEF RowsInv
<1>8. RowsInv'
  BY <1>1, <1>2, <1>4, <1>5, <1>6, <1>7 DEF RowsInv
<1>9. NewestInv'
  BY <1>1 DEF NewestInv, Managed
<1>10. QED
  BY <1>8, <1>9

\* What the rows say of each other is kept by every step.
LEMMA NextRows ==
  ASSUME IInv, WalkInv, RowsInv, NewestInv, CountersInv, [Next]_vars
  PROVE  RowsInv' /\ NewestInv'
<1>1. ASSUME NEW p \in Attempt, ResumeScan(p) PROVE RowsInv' /\ NewestInv'
  <2>1. PICK s \in ScanId : /\ Live(s) /\ SameSource(s, p)
                            /\ OpenRun(p, s)
    BY <1>1 DEF ResumeScan
  <2>2. UNCHANGED <<scans, pages, orders, observed>>
    BY <1>1 DEF ResumeScan
  <2>3. /\ scans'[s].state = "active" /\ ~scans'[s].superseded
        /\ scans'[s].source = att[p].source
    BY <2>1, <2>2 DEF Live, SameSource
  <2>4. QED
    BY <2>1, <2>2, <2>3, OpenRunRows
<1>2. ASSUME NEW p \in Attempt, StartScan(p) PROVE RowsInv' /\ NewestInv'
  <2>1. UNCHANGED <<pages, orders, observed>>
    BY <1>2, StartScanWrites
  <2>2. PICK s \in ScanId :
               /\ scans[s].state = "none"
               /\ scans'[s] = [state |-> "active", superseded |-> FALSE,
                               source |-> att[p].source,
                               fromStart |-> FirstCursor(p) = Nil,
                               next |-> FirstCursor(p)]
               /\ \A t \in ScanId \ {s} :
                     scans'[t] = IF Live(t) THEN [scans[t] EXCEPT !.superseded = TRUE]
                                 ELSE scans[t]
               /\ OpenRun(p, s)
    BY <1>2, StartScanWrites
  <2>3. /\ scans'[s].state = "active" /\ ~scans'[s].superseded
        /\ scans'[s].source = att[p].source
    BY <2>2
  <2>4. ASSUME NEW t \in ScanId \ {s}
        PROVE  /\ scans'[t].state = scans[t].state
               /\ scans'[t].source = scans[t].source
               /\ scans[t].state = "exhausted" => scans'[t] = scans[t]
    <3>1. scans[t] \in Scan
      BY DEF IInv, TypeOK
    <3>2. CASE Live(t)
      <4>1. scans'[t] = [scans[t] EXCEPT !.superseded = TRUE]
        BY <2>2, <3>2
      <4>2. QED
        BY <3>1, <3>2, <4>1 DEF Live, Scan
    <3>3. CASE ~Live(t)
      BY <2>2, <3>3
    <3>4. QED
      BY <3>2, <3>3
  <2>5. QED
    BY <2>1, <2>2, <2>3, <2>4, OpenRunRows
<1>3. ASSUME NEW p \in Attempt, ApplyPage(p) \/ FinishRun(p) PROVE RowsInv' /\ NewestInv'
  BY <1>3, ApplyPageRows, FinishRunRows
<1>4. CASE Purge
  <2>1. \A x \in observed : x[2] \in orders
    BY DEF RowsInv
  <2>2. observed' = {} /\ UNCHANGED <<scans, pages, runs>>
    BY <1>4, <2>1 DEF Purge, Cascade
  <2>3. QED
    BY <2>2, OrdersRows
<1>5. CASE Import \/ UNCHANGED ledgerVars
  BY <1>5, OrdersRows DEF Import, ledgerVars
<1>6. QED
  BY <1>1, <1>2, <1>3, <1>4, <1>5, StepKinds

\* A step of the lock holder that leaves the ledger alone keeps its counters.
LEMMA LocalCounters ==
  ASSUME IInv, CountersInv, NEW p \in Attempt, NEW l, Becomes(p, l), UNCHANGED runs,
         l.pc \in {"load", "begin"} => l.pages = 0 /\ l.records = 0,
         l.pc \in Working =>
            /\ att[p].pc \in Working /\ l.run = att[p].run
            /\ l.pages = att[p].pages /\ l.records = att[p].records,
         l.pc = "left" => l.pages > 0,
         l.pc = "finish" /\ l.code = "" => l.pages > 0
  PROVE  CountersInv'
<1>1. att'[p] = l /\ \A q \in Attempt : q # p => att'[q] = att[q]
  BY DEF Becomes, IInv, TypeOK
<1>2. ASSUME NEW q \in Attempt
      PROVE  /\ att'[q].pc \in {"load", "begin"} => att'[q].pages = 0 /\ att'[q].records = 0
             /\ att'[q].pc \in Working =>
                   /\ att'[q].pages = runs[att'[q].run].pages
                   /\ att'[q].records = runs[att'[q].run].records
             /\ att'[q].pc = "left" => att'[q].pages > 0
             /\ att'[q].pc = "finish" /\ att'[q].code = "" => att'[q].pages > 0
  <2>1. CASE q # p
    BY <1>1, <2>1 DEF CountersInv
  <2>2. CASE q = p
    <3>1. l.pc \in Working => /\ l.pages = runs[l.run].pages
                              /\ l.records = runs[l.run].records
      BY DEF CountersInv
    <3>2. QED
      BY <1>1, <2>2, <3>1
  <2>3. QED
    BY <2>1, <2>2
<1>3. QED
  BY <1>2 DEF CountersInv

\* A call that fails stores a code, unless it left the loop with a page.
LEMMA FailCounters ==
  ASSUME IInv, CountersInv, NEW p \in Attempt, NEW code, Fail(p, code), UNCHANGED runs,
         att[p].pc \in Working,
         code = "" => att[p].pc = "left"
  PROVE  CountersInv'
<1> DEFINE l == [att[p] EXCEPT !.pc = "finish", !.code = FailCode(p, code)]
<1>1. att[p] \in Local
  BY DEF IInv, TypeOK
<1>2. /\ l.pc = "finish" /\ l.run = att[p].run /\ l.code = FailCode(p, code)
      /\ l.pages = att[p].pages /\ l.records = att[p].records
  BY <1>1 DEF Local
<1>3. Becomes(p, l)
  BY DEF Fail
<1>4. FailCode(p, code) = "" => att[p].pages > 0
  <2>1. att[p].ctx \in StopCause \cup {"live"}
    BY <1>1 DEF Local
  <2>2. FailCode(p, code) = "" => code = ""
    BY <2>1, SentinelAssumption DEF FailCode
  <2>3. QED
    BY <2>2 DEF CountersInv
<1> HIDE DEF l
<1>5. QED
  BY <1>2, <1>3, <1>4, LocalCounters

\* A call that starts, returns or dies has no page yet, or none any more.
LEMMA EdgeCounters ==
  ASSUME IInv, CountersInv, NEW p \in Attempt,
         Acquire(p) \/ Unlock(p) \/ Crash(p) \/ (Return(p) /\ UNCHANGED runs)
  PROVE  CountersInv'
<1>1. ASSUME NEW l, l.pc \in {"idle", "load", "unlock"}, l.pages = 0, l.records = 0,
             Becomes(p, l), UNCHANGED runs
      PROVE  CountersInv'
  <2>1. l.pc \notin Working /\ l.pc \notin {"left", "finish"}
    BY <1>1 DEF Working
  <2>2. QED
    BY <1>1, <2>1, LocalCounters
<1>2. CASE Acquire(p)
  <2>1. PICK budget \in 1..MaxBudget, restart \in BOOLEAN, source \in Source :
           Becomes(p, NewCall("load", budget, restart, source))
    BY <1>2 DEF Acquire
  <2> DEFINE l == NewCall("load", budget, restart, source)
  <2>2. l.pc = "load" /\ l.pages = 0 /\ l.records = 0
    BY DEF NewCall
  <2>3. Becomes(p, l) /\ UNCHANGED runs
    BY <1>2, <2>1 DEF Acquire, ledgerVars
  <2> HIDE DEF l
  <2>4. QED
    BY <1>1, <2>2, <2>3
<1>3. CASE Unlock(p) \/ Crash(p)
  <2>1. Becomes(p, Idle) /\ UNCHANGED runs
    BY <1>3 DEF Unlock, Crash, ledgerVars
  <2>2. Idle.pc = "idle" /\ Idle.pages = 0 /\ Idle.records = 0
    BY DEF Idle, NewCall
  <2>3. QED
    BY <1>1, <2>1, <2>2
<1>4. CASE Return(p) /\ UNCHANGED runs
  <2>1. Returning.pc = "unlock" /\ Returning.pages = 0 /\ Returning.records = 0
    BY DEF Returning, NewCall
  <2>2. QED
    BY <1>1, <1>4, <2>1 DEF Return
<1>5. QED
  BY <1>2, <1>3, <1>4

\* The steps that write a row of sync_runs.
LEMMA OpenRunCounters ==
  ASSUME IInv, CountersInv, NEW p \in Attempt, NEW s \in ScanId, OpenRun(p, s),
         att[p].pc = "begin"
  PROVE  CountersInv'
<1>1. PICK r \in RunId :
         /\ runs'[r].pages = 0 /\ runs'[r].records = 0
         /\ att'[p].pc = "loop" /\ att'[p].run = r
         /\ att'[p].pages = att[p].pages /\ att'[p].records = att[p].records
         /\ \A q \in Attempt : q # p => att'[q] = att[q]
  BY OpenRunRow
<1>2. att[p].pages = 0 /\ att[p].records = 0
  BY DEF CountersInv
<1>3. \A q \in Attempt : q # p => att[q].pc = "idle"
  BY DEF IInv, Exclusive
<1>4. QED
  BY <1>1, <1>2, <1>3 DEF CountersInv, Working

LEMMA ApplyPageCounters ==
  ASSUME IInv, CountersInv, NEW p \in Attempt, ApplyPage(p) PROVE CountersInv'
<1>1. PICK r \in RunId : r = att[p].run
  BY ApplyPageWrites
<1>2. /\ runs'[r].pages = runs[r].pages + 1
      /\ att'[p].run = r /\ att'[p].pages = att[p].pages + 1
      /\ \A q \in Attempt : q # p => att'[q] = att[q]
  BY <1>1, ApplyPageWrites
<1>3. /\ runs'[r].records = runs[r].records + Cardinality(att[p].page.orders)
      /\ att'[p].records = att[p].records + Cardinality(att[p].page.orders)
      /\ att'[p].pc \in {"left", "loop"}
  BY <1>1, ApplyPageRow
<1>4. att[p].pages = runs[r].pages /\ att[p].records = runs[r].records
  BY <1>1 DEF CountersInv, Working, ApplyPage
<1>5. \A q \in Attempt : q # p => att[q].pc = "idle"
  BY DEF IInv, Exclusive, ApplyPage
<1>6. att[p].pages \in Nat
  BY DEF IInv, TypeOK, Local
<1>7. att'[p].pages > 0
  BY <1>2, <1>6
<1>8. QED
  BY <1>2, <1>3, <1>4, <1>5, <1>7 DEF CountersInv, Working

LEMMA FinishRunCounters ==
  ASSUME IInv, CountersInv, NEW p \in Attempt, FinishRun(p) PROVE CountersInv'
<1>1. att'[p].pc = "unlock"
  BY FinishRunRow
<1>2. \A q \in Attempt : q # p => att'[q] = att[q] /\ att[q].pc = "idle"
  BY FinishRunWrites DEF IInv, Exclusive, FinishRun
<1>3. QED
  BY <1>1, <1>2 DEF CountersInv, Working

\* The counters of a call are those of its run after every step.
LEMMA NextCounters ==
  ASSUME IInv, CountersInv, [Next]_vars PROVE CountersInv'
<1>0. \A p \in Attempt : att[p] \in Local
  BY DEF IInv, TypeOK
<1>1. ASSUME NEW p \in Attempt, LoadCursor(p) PROVE CountersInv'
  <2> DEFINE l == [att[p] EXCEPT !.pc = "begin", !.cursor = checkpoint]
  <2>1. l.pc = "begin" /\ l.pages = att[p].pages /\ l.records = att[p].records
    BY <1>0 DEF Local
  <2>2. Becomes(p, l) /\ att[p].pc = "load" /\ UNCHANGED runs
    BY <1>1 DEF LoadCursor, ledgerVars
  <2>3. att[p].pages = 0 /\ att[p].records = 0
    BY <2>2 DEF CountersInv
  <2> HIDE DEF l
  <2>4. l.pc \notin Working /\ l.pc \notin {"left", "finish"}
    BY <2>1 DEF Working
  <2>5. QED
    BY <2>1, <2>2, <2>3, <2>4, LocalCounters
<1>2. ASSUME NEW p \in Attempt,
             GiveUp(p) \/ RefuseBegin(p) \/ FinishFails(p) \/ Acquire(p)
                \/ Unlock(p) \/ Crash(p)
      PROVE  CountersInv'
  BY <1>2, EdgeCounters DEF GiveUp, RefuseBegin, FinishFails, ledgerVars
<1>3. ASSUME NEW p \in Attempt, TakeCursor(p) PROVE CountersInv'
  <2> DEFINE l == [att[p] EXCEPT !.pc = "fetch", !.seen = @ \cup {att[p].cursor}]
  <2>1. /\ l.pc = "fetch" /\ l.run = att[p].run
        /\ l.pages = att[p].pages /\ l.records = att[p].records
    BY <1>0 DEF Local
  <2>2. Becomes(p, l) /\ att[p].pc = "loop" /\ UNCHANGED runs
    BY <1>3 DEF TakeCursor, ledgerVars
  <2> HIDE DEF l
  <2>3. QED
    BY <2>1, <2>2, LocalCounters DEF Working
<1>4. ASSUME NEW p \in Attempt,
             RefuseCursor(p) \/ FetchFails(p) \/ ApplyFails(p) \/ LeaveLoop(p)
      PROVE  CountersInv'
  <2>1. PICK code : Fail(p, code) /\ (code = "" => att[p].pc = "left")
    <3>1. CASE RefuseCursor(p)
      <4>1. PICK code \in {"canceled", "cursor_loop", "storage"} : Fail(p, code)
        BY <3>1 DEF RefuseCursor
      <4>2. QED
        BY <4>1
    <3>2. CASE FetchFails(p)
      <4>1. PICK code \in FetchFailure \cup {"page_deadline_exceeded"} : Fail(p, code)
        BY <3>2 DEF FetchFails
      <4>2. code # ""
        BY <4>1, SentinelAssumption
      <4>3. QED
        BY <4>1, <4>2
    <3>3. CASE ApplyFails(p)
      <4>1. PICK code \in {"storage", "page_deadline_exceeded"} : Fail(p, code)
        BY <3>3 DEF ApplyFails
      <4>2. QED
        BY <4>1
    <3>4. CASE LeaveLoop(p)
      BY <3>4 DEF LeaveLoop
    <3>5. QED
      BY <1>4, <3>1, <3>2, <3>3, <3>4
  <2>2. att[p].pc \in Working /\ UNCHANGED runs
    BY <1>4 DEF RefuseCursor, FetchFails, ApplyFails, LeaveLoop, Working, ledgerVars
  <2>3. QED
    BY <2>1, <2>2, FailCounters
<1>5. ASSUME NEW p \in Attempt, SpendBudget(p) PROVE CountersInv'
  <2> DEFINE l == [att[p] EXCEPT !.pc = "left"]
  <2>1. /\ l.pc = "left" /\ l.run = att[p].run
        /\ l.pages = att[p].pages /\ l.records = att[p].records
    BY <1>0 DEF Local
  <2>2. Becomes(p, l) /\ att[p].pc = "loop" /\ UNCHANGED runs
    BY <1>5 DEF SpendBudget, Goto, ledgerVars
  <2>3. att[p].pages > 0
    <3>1. att[p].budget \in 1..MaxBudget /\ att[p].pages \in Nat
      BY <1>0 DEF Local
    <3>2. att[p].pages >= att[p].budget
      BY <1>5 DEF SpendBudget
    <3>3. QED
      BY <3>1, <3>2, BoundsAssumption
  <2> HIDE DEF l
  <2>4. QED
    BY <2>1, <2>2, <2>3, LocalCounters DEF Working
<1>6. ASSUME NEW p \in Attempt, FetchPage(p) PROVE CountersInv'
  <2>1. PICK page \in Page : Becomes(p, [att[p] EXCEPT !.pc = "apply", !.page = page])
    BY <1>6 DEF FetchPage
  <2> DEFINE l == [att[p] EXCEPT !.pc = "apply", !.page = page]
  <2>2. /\ l.pc = "apply" /\ l.run = att[p].run
        /\ l.pages = att[p].pages /\ l.records = att[p].records
    BY <1>0 DEF Local
  <2>3. Becomes(p, l) /\ att[p].pc = "fetch" /\ UNCHANGED runs
    BY <1>6, <2>1 DEF FetchPage, ledgerVars
  <2> HIDE DEF l
  <2>4. QED
    BY <2>2, <2>3, LocalCounters DEF Working
<1>7. ASSUME NEW p \in Attempt, EndContext(p) PROVE CountersInv'
  <2>1. PICK cause \in StopCause : Becomes(p, [att[p] EXCEPT !.ctx = cause])
    BY <1>7 DEF EndContext
  <2> DEFINE l == [att[p] EXCEPT !.ctx = cause]
  <2>2. /\ l.pc = att[p].pc /\ l.run = att[p].run /\ l.code = att[p].code
        /\ l.pages = att[p].pages /\ l.records = att[p].records
    BY <1>0 DEF Local
  <2>3. Becomes(p, l) /\ att[p].pc # "finish" /\ UNCHANGED runs
    BY <1>7, <2>1 DEF EndContext, ledgerVars
  <2> HIDE DEF l
  <2>4. /\ att[p].pc \in {"load", "begin"} => att[p].pages = 0 /\ att[p].records = 0
        /\ att[p].pc = "left" => att[p].pages > 0
    BY DEF CountersInv
  <2>5. QED
    BY <2>2, <2>3, <2>4, LocalCounters
<1>8. ASSUME NEW p \in Attempt, ResumeScan(p) \/ StartScan(p) PROVE CountersInv'
  <2>1. PICK s \in ScanId : OpenRun(p, s)
    BY <1>8 DEF ResumeScan, StartScan
  <2>2. att[p].pc = "begin"
    BY <1>8 DEF ResumeScan, StartScan
  <2>3. QED
    BY <2>1, <2>2, OpenRunCounters
<1>9. CASE Purge \/ Import \/ UNCHANGED vars
  BY <1>9 DEF Purge, Import, vars, CountersInv
<1>10. QED
  BY <1>1, <1>2, <1>3, <1>4, <1>5, <1>6, <1>7, <1>8, <1>9, ApplyPageCounters,
     FinishRunCounters DEF Next, Step

LEMMA SumIsDefined ==
  ASSUME NEW f, NEW S, IsFiniteSet(S)
  PROVE  \E g : g = [s \in SUBSET S |-> Peeled(f, g, s)]
<1> DEFINE Correct(g, n) ==
              /\ g = [s \in SUBSET S |-> g[s]]
              /\ \A s \in SUBSET S : Cardinality(s) <= n => g[s] = Peeled(f, g, s)
           T == {n \in Nat : \E g : Correct(g, n)}
<1>0. \A s \in SUBSET S : IsFiniteSet(s) /\ Cardinality(s) \in Nat
  BY FS_Subset, FS_CardinalityType
<1>1. 0 \in T
  <2> DEFINE g == [s \in SUBSET S |-> 0]
  <2>1. \A s \in SUBSET S : Cardinality(s) <= 0 => s = {}
    BY <1>0, FS_EmptySet
  <2>2. Correct(g, 0)
    BY <2>1 DEF Peeled
  <2>3. QED
    BY <2>2
<1>2. ASSUME NEW n \in T PROVE n + 1 \in T
  <2>1. PICK g : Correct(g, n)
    OBVIOUS
  <2> DEFINE h == [s \in SUBSET S |-> Peeled(f, g, s)]
  <2>2. ASSUME NEW s \in SUBSET S, Cardinality(s) <= n + 1
        PROVE  h[s] = Peeled(f, h, s)
    <3>1. CASE s = {}
      BY <3>1 DEF Peeled
    <3>2. CASE s # {}
      <4>1. Rest(s) \in SUBSET S /\ Cardinality(Rest(s)) <= n
        BY <1>0, <2>2, <3>2, RestIsSmaller
      <4>2. g[Rest(s)] = h[Rest(s)]
        BY <2>1, <4>1
      <4>3. QED
        BY <3>2, <4>2 DEF Peeled
    <3>3. QED
      BY <3>1, <3>2
  <2>3. Correct(h, n + 1)
    BY <2>2
  <2>4. n + 1 \in Nat
    OBVIOUS
  <2>5. QED
    <3> HIDE DEF h, Correct
    <3> QED BY <2>3, <2>4
<1>3. Cardinality(S) \in T
  <2>1. T = Nat
    <3> HIDE DEF T
    <3> QED BY <1>1, <1>2, SetInduction DEF T
  <2>2. QED
    BY <1>0, <2>1
<1>4. PICK g : Correct(g, Cardinality(S))
  BY <1>3
<1>5. \A s \in SUBSET S : Cardinality(s) <= Cardinality(S)
  BY FS_Subset
<1>6. QED
  BY <1>4, <1>5

-----------------------------------------------------------------------------
(* What a reader of the status is told.                                    *)

\* The orders a scan's attempts observed and the ledger still holds.
SeenOf(s) == {o \in orders : \E q \in Members(s) : <<q, o>> \in observed}

LEMMA EvidenceFields ==
  ASSUME NEW r \in RunId, NEW s \in ScanId, s = runs[r].scan
  PROVE  /\ ScanEvidence(r).state =
                IF scans[s].state = "exhausted"
                THEN IF scans[s].next = Nil /\ ~scans[s].superseded
                     THEN "cursor_exhausted" ELSE "invalid"
                ELSE IF scans[s].superseded THEN "superseded" ELSE "active"
         /\ ScanEvidence(r).observed = Cardinality(SeenOf(s))
         /\ ScanEvidence(r).notObserved = Cardinality(orders) - Cardinality(SeenOf(s))
  BY DEF ScanEvidence, SeenOf

\* The orders one scan observed are among the retained ones, and at most as
\* many as the records its attempts counted together.
LEMMA SeenIsCounted ==
  ASSUME IInv, RowsInv, NEW s \in ScanId
  PROVE  /\ Cardinality(SeenOf(s)) \in Nat /\ Cardinality(orders) \in Nat
         /\ Cardinality(SeenOf(s)) <= Cardinality(orders)
         /\ Cardinality(SeenOf(s)) <=
               SumFunctionOnSet([q \in RunId |-> runs[q].records], Members(s))
<1> DEFINE records == [q \in RunId |-> runs[q].records]
           seen == [q \in RunId |-> SeenBy(q)]
           all == Together(seen, Members(s))
<1>1. IsFiniteSet(orders) /\ Cardinality(orders) \in Nat
  <2>1. orders \subseteq Order
    BY DEF IInv, TypeOK
  <2>2. QED
    BY <2>1, OrderAssumption, FS_Subset, FS_CardinalityType
<1>2. IsFiniteSet(Members(s)) /\ Members(s) \subseteq RunId
  <2>1. MaxRuns \in Int /\ 1 \in Int
    BY BoundsAssumption
  <2>2. IsFiniteSet(RunId)
    BY <2>1, FS_Interval DEF RunId
  <2>3. Members(s) \subseteq RunId
    BY DEF Members
  <2>4. QED
    BY <2>2, <2>3, FS_Subset
<1>3. ASSUME NEW q \in Members(s)
      PROVE  /\ records[q] \in Nat /\ IsFiniteSet(seen[q])
             /\ Cardinality(seen[q]) <= records[q]
  <2>1. q \in RunId /\ runs[q] \in Run
    BY <1>2 DEF IInv, TypeOK
  <2>2. SeenBy(q) \subseteq Order
    BY DEF SeenBy
  <2>3. IsFiniteSet(SeenBy(q))
    BY <2>2, OrderAssumption, FS_Subset
  <2>4. runs[q].records \in Nat /\ Cardinality(SeenBy(q)) <= runs[q].records
    BY <2>1 DEF Run, RowsInv
  <2>5. QED
    BY <2>1, <2>3, <2>4
<1>4. SeenOf(s) \subseteq all
  <2>1. \A q \in Members(s) : seen[q] = SeenBy(q)
    BY <1>2
  <2>2. ASSUME NEW o \in SeenOf(s) PROVE o \in all
    <3>1. PICK q \in Members(s) : <<q, o>> \in observed
      BY DEF SeenOf
    <3>2. o \in SeenBy(q)
      BY <3>1 DEF SeenBy, SeenOf, IInv, TypeOK
    <3>3. QED
      BY <2>1, <3>2 DEF Together
  <2>3. QED
    BY <2>2
<1> HIDE DEF records, seen
<1>5. IsFiniteSet(all) /\ Cardinality(all) <= SumFunctionOnSet(records, Members(s))
      /\ SumFunctionOnSet(records, Members(s)) \in Nat
  BY <1>2, <1>3, UnionBySum
<1> HIDE DEF all
<1>6. Cardinality(SeenOf(s)) <= Cardinality(all) /\ Cardinality(all) \in Nat
      /\ Cardinality(SeenOf(s)) \in Nat
  <2>1. IsFiniteSet(SeenOf(s)) /\ Cardinality(SeenOf(s)) <= Cardinality(all)
    BY <1>4, <1>5, FS_Subset
  <2>2. QED
    BY <1>5, <2>1, FS_CardinalityType
<1>7. Cardinality(SeenOf(s)) <= Cardinality(orders)
  <2>1. SeenOf(s) \subseteq orders
    BY DEF SeenOf
  <2>2. QED
    BY <1>1, <2>1, FS_Subset
<1>8. QED
  BY <1>1, <1>5, <1>6, <1>7 DEF records

\* What is told of one run.
LEMMA EvidenceOfRun ==
  ASSUME IInv, RowsInv, NEW r \in RunId, Managed(r)
  PROVE  LET evidence == ScanEvidence(r)
             walk == pages[runs[r].scan]
             members == Members(runs[r].scan)
         IN  /\ evidence.state # "invalid"
             /\ runs[r].exhausted = "true" =>
                   /\ evidence.state = "cursor_exhausted"
                   /\ walk # <<>> /\ walk[Len(walk)].run = r
                   /\ walk[Len(walk)].next = Nil
             /\ evidence.state = "cursor_exhausted" =>
                   \E q \in members : runs[q].exhausted = "true"
             /\ \A q \in members : runs[q].source = runs[r].source
             /\ evidence.observed <= SumFunctionOnSet([q \in RunId |-> runs[q].records],
                                                     members)
             /\ evidence.notObserved >= 0
             /\ runs[r].status = "completed" => runs[r].pages > 0 /\ runs[r].code = ""
             /\ runs[r].status = "failed" => runs[r].code # ""
<1>1. PICK s \in ScanId : s = runs[r].scan
  BY BoundsAssumption DEF IInv, TypeOK, Run, Managed, ScanId
<1>2. /\ ScanEvidence(r).state =
                IF scans[s].state = "exhausted"
                THEN IF scans[s].next = Nil /\ ~scans[s].superseded
                     THEN "cursor_exhausted" ELSE "invalid"
                ELSE IF scans[s].superseded THEN "superseded" ELSE "active"
      /\ ScanEvidence(r).observed = Cardinality(SeenOf(s))
      /\ ScanEvidence(r).notObserved = Cardinality(orders) - Cardinality(SeenOf(s))
  BY <1>1, EvidenceFields
<1>3. /\ scans[s].state = "exhausted" =>
            /\ scans[s].next = Nil /\ ~scans[s].superseded
            /\ \E q \in Members(s) : runs[q].exhausted = "true"
      /\ RunGrounded(r)
  BY DEF RowsInv
<1>4. \A q \in Members(s) : runs[q].source = runs[r].source
  <2>1. ASSUME NEW q \in Members(s) PROVE runs[q].source = scans[s].source
    <3>1. q \in RunId /\ Managed(q) /\ runs[q].scan = s
      BY DEF Members
    <3>2. RunGrounded(q)
      BY <3>1 DEF RowsInv
    <3>3. QED
      BY <3>1, <3>2 DEF RunGrounded
  <2>2. QED
    BY <1>1, <1>3, <2>1 DEF RunGrounded
<1>5. /\ ScanEvidence(r).observed <=
             SumFunctionOnSet([q \in RunId |-> runs[q].records], Members(s))
      /\ ScanEvidence(r).notObserved >= 0
  BY <1>2, SeenIsCounted
<1>6. ScanEvidence(r).state # "invalid"
  BY <1>2, <1>3
<1>7. runs[r].exhausted = "true" =>
         /\ ScanEvidence(r).state = "cursor_exhausted"
         /\ pages[s] # <<>> /\ pages[s][Len(pages[s])].run = r
         /\ pages[s][Len(pages[s])].next = Nil
  BY <1>1, <1>2, <1>3 DEF RunGrounded
<1>8. ScanEvidence(r).state = "cursor_exhausted" =>
         \E q \in Members(s) : runs[q].exhausted = "true"
  BY <1>2, <1>3
<1>9. /\ runs[r].status = "completed" => runs[r].pages > 0 /\ runs[r].code = ""
      /\ runs[r].status = "failed" => runs[r].code # ""
  BY <1>3 DEF RunGrounded
<1>10. QED
  BY <1>1, <1>4, <1>5, <1>6, <1>7, <1>8, <1>9

\* What is told of the newest run.
LEMMA EvidenceOfNewest ==
  ASSUME IInv, RowsInv, NewestInv, NEW evidence \in LatestStatus.scan
  PROVE  /\ evidence.state # "superseded"
         /\ (evidence.state = "cursor_exhausted") = (LatestStatus.exhausted = "true")
<1> DEFINE started == {r \in RunId : runs[r].status # "none"}
           newest == CHOOSE r \in started : \A q \in started : q <= r
<1>1. PICK k \in 0..MaxRuns :
        /\ \A r \in RunId : runs[r].status # "none" <=> r <= k
        /\ \A r \in RunId : r = k /\ Managed(r) =>
              /\ ~scans[runs[r].scan].superseded
              /\ scans[runs[r].scan].state = "exhausted" => runs[r].exhausted = "true"
  BY DEF NewestInv
<1>2. started # {}
  <2>1. ASSUME started = {} PROVE LatestStatus.scan = {}
    BY <2>1 DEF LatestStatus
  <2>2. QED
    BY <2>1
<1>3. k \in started
  <2>1. PICK r \in RunId : r <= k
    BY <1>1, <1>2
  <2>2. k \in RunId
    BY <2>1, BoundsAssumption DEF RunId
  <2>3. QED
    BY <1>1, <2>2 DEF RunId
<1>4. newest = k
  <2>1. \A q \in started : q <= k
    BY <1>1
  <2>2. newest \in started /\ \A q \in started : q <= newest
    <3> HIDE DEF started
    <3> QED BY <1>3, <2>1
  <2>3. k <= newest /\ newest <= k
    BY <1>3, <2>1, <2>2
  <2> HIDE DEF newest
  <2>4. newest \in Int /\ k \in Int
    BY <2>2 DEF RunId
  <2>5. QED
    BY <2>3, <2>4
<1>5. /\ LatestStatus.exhausted = runs[k].exhausted
      /\ LatestStatus.scan =
            {ScanEvidence(r) : r \in {k} \ {q \in RunId : ~Managed(q)}}
  BY <1>2, <1>4 DEF LatestStatus
<1> HIDE DEF newest
<1>6. Managed(k) /\ evidence = ScanEvidence(k)
  BY <1>3, <1>5
<1>7. PICK s \in ScanId : s = runs[k].scan
  BY <1>3, <1>6, BoundsAssumption DEF IInv, TypeOK, Run, Managed, ScanId
<1>8. evidence.state =
                IF scans[s].state = "exhausted"
                THEN IF scans[s].next = Nil /\ ~scans[s].superseded
                     THEN "cursor_exhausted" ELSE "invalid"
                ELSE IF scans[s].superseded THEN "superseded" ELSE "active"
  BY <1>3, <1>6, <1>7, EvidenceFields
<1>9. /\ ~scans[s].superseded
      /\ scans[s].state = "exhausted" => runs[k].exhausted = "true"
  BY <1>1, <1>3, <1>6, <1>7
<1>10. /\ scans[s].state = "exhausted" => scans[s].next = Nil
       /\ runs[k].exhausted = "true" => scans[s].state = "exhausted"
  BY <1>3, <1>6, <1>7 DEF RowsInv, RunGrounded
<1>11. QED
  BY <1>5, <1>8, <1>9, <1>10

-----------------------------------------------------------------------------
(* Theorems.                                                               *)

\* The invariant is inductive.
THEOREM Invariance == Spec => []IInv
  BY InitIInv, NextIInv, PTL DEF Spec

\* Every table row and every local keeps its type.
THEOREM TypeCorrect == Spec => []TypeOK
<1>1. IInv => TypeOK
  BY DEF IInv
<1>2. QED
  BY <1>1, Invariance, PTL

\* The checkpoint and the head of the pending scan agree, for any number of
\* overlapping, failing and crashing attempts.
THEOREM CheckpointAgrees == Spec => []CheckpointIsHead
<1>1. IInv => CheckpointIsHead
  BY DEF IInv
<1>2. QED
  BY <1>1, Invariance, PTL

\* At most one managed run is open, and it is the newest row of sync_runs.
THEOREM RunningIsNewest == Spec => []OneOpenRun
<1>1. IInv => OneOpenRun
  BY DEF IInv
<1>2. QED
  BY <1>1, Invariance, PTL

\* The lock holder's page and its final bookkeeping are never refused.
THEOREM OwnerAdmitted == Spec => []OwnerNeverRefused
<1>1. IInv => OwnerNeverRefused
  <2> SUFFICES ASSUME IInv, NEW p \in Attempt
               PROVE  /\ att[p].pc = "apply" => PageAdmitted(p)
                      /\ att[p].pc = "finish" => runs[att[p].run].status = "running"
    BY DEF OwnerNeverRefused
  <2>1. ASSUME att[p].pc = "apply" PROVE PageAdmitted(p)
    <3>1. att[p].pc \in Working /\ att[p].pc \in Reading
      BY <2>1 DEF Working, Reading
    <3>2. runs[att[p].run].scan \in ScanId
      BY <3>1 DEF IInv, Assigned
    <3>3. QED
      BY <2>1, <3>1, <3>2 DEF IInv, OwnerState, PageAdmitted, CheckpointIsHead
  <2>2. ASSUME att[p].pc = "finish" PROVE runs[att[p].run].status = "running"
    BY <2>2 DEF IInv, OwnerState, Working
  <2>3. QED
    BY <2>1, <2>2
<1>2. QED
  BY <1>1, Invariance, PTL

\* Whatever attempts contributed to it, a scan is one walk.
THEOREM WalkInvariance == Spec => []WalkInv
<1>1. IInv /\ IInv' /\ WalkInv /\ [Next]_vars => WalkInv'
  BY NextWalk
<1>2. QED
  BY <1>1, InitWalk, Invariance, PTL DEF Spec

THEOREM ScansAreWalks == Spec => []ScanIsOneWalk
<1>1. WalkInv => ScanIsOneWalk
  BY DEF WalkInv
<1>2. QED
  BY <1>1, WalkInvariance, PTL

\* Ended evidence is history: no later step changes an ended scan, its pages, an
\* ended run or a legacy one.
THEOREM EvidenceIsHistory == Spec => EndedEvidenceFrozen
<1>1. IInv /\ WalkInv /\ [Next]_vars => [Frozen]_vars
  BY NextFrozen
<1>2. EndedEvidenceFrozen <=> [][Frozen]_vars
  BY DEF EndedEvidenceFrozen, Frozen
<1>3. QED
  BY <1>1, <1>2, Invariance, WalkInvariance, PTL DEF Spec

\* A scan the upstream history sent back to a committed page waits, for any number
\* of attempts, until an explicit restart supersedes it.
THEOREM LoopsWait == Spec => LoopedScanWaitsForRestart
<1>1. IInv /\ [Next]_vars => [LoopHeld]_vars
  BY NextLoopHeld
<1>2. LoopedScanWaitsForRestart <=> [][LoopHeld]_vars
  BY DEF LoopedScanWaitsForRestart, LoopHeld
<1>3. QED
  BY <1>1, <1>2, Invariance, PTL DEF Spec

\* The tables implement one sequential walk: every step of every attempt, purge
\* or import is a step of ScanLedger or leaves its variables alone.
THEOREM Implementation == Spec => ImplementsScanLedger
<1>1. IInv /\ WalkInv /\ [Next]_vars => [Ledger!Next]_(Ledger!vars)
  BY NextRefines
<1>2. QED
  BY <1>1, InitRefines, Invariance, WalkInvariance, PTL
     DEF Spec, ImplementsScanLedger, Ledger!Spec

\* What the rows say of each other, of the newest run and of the counters of
\* the calls always holds.
THEOREM RowsInvariance == Spec => [](RowsInv /\ NewestInv /\ CountersInv)
<1>1. IInv /\ WalkInv /\ (RowsInv /\ NewestInv /\ CountersInv) /\ [Next]_vars
         => (RowsInv /\ NewestInv /\ CountersInv)'
  BY NextRows, NextCounters
<1>2. QED
  BY <1>1, InitRows, Invariance, WalkInvariance, PTL DEF Spec

\* pages_processed of a run is the number of page rows it committed, whether a
\* page transaction or FinishSync wrote it last, and all of them are on the
\* scan and from the source its rows name.
THEOREM PagesAreCounted == Spec => []PagesAccounted
<1>1. IInv /\ RowsInv => PagesAccounted
  <2> SUFFICES ASSUME IInv, RowsInv PROVE PagesAccounted
    OBVIOUS
  <2>1. ASSUME NEW r \in RunId, Managed(r)
        PROVE  runs[r].pages =
                  Cardinality({i \in DOMAIN pages[runs[r].scan] :
                                  pages[runs[r].scan][i].run = r})
    BY <2>1 DEF RowsInv, RunGrounded, Contributed
  <2>2. ASSUME NEW s \in ScanId, NEW i \in DOMAIN pages[s]
        PROVE  /\ runs[pages[s][i].run].scan = s
               /\ runs[pages[s][i].run].source = scans[s].source
    <3>1. PICK q \in RunId : q = pages[s][i].run
      BY PageRowType DEF IInv
    <3>2. Managed(q) /\ runs[q].scan = s
      BY <3>1 DEF RowsInv
    <3>3. RunGrounded(q)
      BY <3>2 DEF RowsInv
    <3>4. QED
      BY <3>1, <3>2, <3>3 DEF RunGrounded
  <2>3. QED
    BY <2>1, <2>2 DEF PagesAccounted
<1>2. QED
  BY <1>1, Invariance, RowsInvariance, PTL

\* What LatestSyncStatus and the evidence of every run tell is grounded in the
\* committed pages, for any mix of crashes, restarts, purges and imports.
THEOREM StatusIsGrounded == Spec => []EvidenceReadable
<1>1. IInv /\ RowsInv /\ NewestInv => EvidenceReadable
  <2> SUFFICES ASSUME IInv, RowsInv, NewestInv PROVE EvidenceReadable
    OBVIOUS
  <2>1. \A x \in observed : x[2] \in orders
    BY DEF RowsInv
  <2>2. QED
    BY <2>1, EvidenceOfRun, EvidenceOfNewest DEF EvidenceReadable
<1>2. QED
  BY <1>1, Invariance, RowsInvariance, PTL

=============================================================================

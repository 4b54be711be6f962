------------------------- MODULE McpSession_proofs -------------------------
(***************************************************************************)
(* Theorems about McpSession, for any number of calls, any membership page *)
(* and any number of changes of the site.                                  *)
(***************************************************************************)
EXTENDS McpSession, TLAPS

-----------------------------------------------------------------------------
(* The inductive invariant, as a predicate of one call r and of whether the *)
(* profile holds a saved state.                                            *)

CallType ==
    [tool: AllTools \cup {"none"}, confirmed: BOOLEAN,
     pc: {"idle", "provider", "inspect", "launch", "page", "decide", "cash",
          "costs", "ledger", "open", "use", "done"},
     program: Programs \cup {"none"},
     before: {"none", "not_configured", "verified", "unverified", "access_blocked"},
     seen: Sites \cup {"none"}, window: BOOLEAN, linked: BOOLEAN,
     shown: SUBSET Facts, costs: {"none", "unavailable", "read"},
     answer: {"none", "verified", "unverified", "access_blocked",
              "not_configured", "ok", "ok_with_warning", "estimated",
              "not_computed", "source_failed", "local_data_unavailable",
              "cancelled"}]

\* The runs of the profile a tool may ask for.
RunsOf(tool) ==
    CASE tool = "auth_status"          -> {"status"}
      [] tool = "auth_login_if_needed" -> {"status", "precheck", "window", "recheck"}
      [] tool = "login_link"           -> {"precheck", "window", "recheck"}
      [] tool = "account_benefits"     -> {"benefits"}
      [] tool = "orders_preview"       -> {"preview"}
      [] tool = "products_search"      -> {"search"}
      [] OTHER                         -> {}

\* Where a call r may be with its tool: at pc, in a run of program.
Placed(r, pc, program) ==
    /\ pc = "idle" => r.tool = "none"
    /\ pc # "idle" => r.tool \in AllTools
    /\ pc \in {"launch", "page"} => program \in RunsOf(r.tool)
    /\ pc \in {"inspect", "decide"} => r.tool \in {"auth_status", "auth_login_if_needed"}
    /\ pc \in {"cash", "costs"} => r.tool = "account_benefits"
    /\ pc \in {"ledger", "open"} =>
           r.tool \in {"orders_list", "account_benefits", "products_search"}
    /\ pc = "use" => r.tool \in {"orders_list", "products_search"}

\* What a login rests on.
Grounded(r, pc, program, saved) ==
    /\ pc \in {"launch", "page"} /\ program \in {"precheck", "window"} =>
           (r.tool = "auth_login_if_needed" =>
               r.confirmed /\ r.before \in {"not_configured", "unverified"})
    /\ pc \in {"launch", "page"} /\ program = "window" => r.seen = "signed_out"
    /\ pc = "decide" => r.before # "none" /\ (r.before = "verified" => r.seen = "signed_in")
    /\ r.window => \/ pc \in {"launch", "page"} /\ program \in {"window", "recheck"}
                   \/ pc = "done"
    /\ pc \in {"launch", "page"} /\ program = "recheck" => saved

Claims(r, saved) ==
    /\ r.pc # "done" => r.answer = "none"
    /\ r.answer = "verified" => r.seen = "signed_in" /\ (r.window => saved)
    /\ r.answer = "estimated" => r.shown = Facts /\ r.costs # "none"
    /\ r.tool = "orders_list" =>
           r.answer \in {"none", "ok", "local_data_unavailable", "cancelled"}
    /\ r.tool \in {"products_search", "orders_preview"} =>
           r.answer # "local_data_unavailable"

Good(r, saved) ==
    Placed(r, r.pc, r.program) /\ Grounded(r, r.pc, r.program, saved) /\ Claims(r, saved)

\* The one handle and its mutex.
Owned ==
    /\ handles = IF HasHandle THEN 1 ELSE 0
    /\ closed => ledger = "none"
    /\ \A c \in Calls : mu = c => call[c].pc = "open"

IInv == TypeOK /\ Owned /\ \A c \in Calls : Good(call[c], profile)

-----------------------------------------------------------------------------
(* Steps of one call.                                                      *)

LEMMA CallTyped == TypeOK => call \in [Calls -> CallType]
BY DEF TypeOK, CallType

LEMMA ProfileStays ==
    ASSUME NEW r, NEW saved \in BOOLEAN, Good(r, saved)
    PROVE  Good(r, TRUE)
BY DEF Good, Placed, Grounded, Claims

\* What is left to show of a step of call c.
LEMMA CallKeeps ==
    ASSUME IInv, NEW c \in Calls, NEW r \in CallType,
           call' = [call EXCEPT ![c] = r],
           profile' \in BOOLEAN, profile => profile', Good(r, profile')
    PROVE  /\ call' \in [Calls -> CallType]
           /\ call'[c] = r /\ \A d \in Calls \ {c} : call'[d] = call[d]
           /\ \A d \in Calls : Good(call'[d], profile')
<1>1. call \in [Calls -> CallType]
  BY CallTyped DEF IInv
<1>2. /\ call' \in [Calls -> CallType]
      /\ call'[c] = r /\ \A d \in Calls \ {c} : call'[d] = call[d]
  BY <1>1
<1>3. ASSUME NEW d \in Calls \ {c} PROVE Good(call'[d], profile')
  <2>1. Good(call[d], profile) /\ profile \in BOOLEAN
    BY DEF IInv, TypeOK
  <2>2. CASE profile
    <3>1. profile = TRUE /\ profile' = TRUE
      BY <2>1, <2>2
    <3> QED BY <1>2, <2>1, <3>1
  <2>3. CASE ~profile
    <3>1. CASE profile'
      <4>1. Good(call[d], TRUE) /\ profile' = TRUE
        BY <2>1, <3>1, ProfileStays
      <4> QED BY <1>2, <4>1
    <3>2. CASE ~profile'
      <4>1. profile' = profile
        BY <2>1, <2>3, <3>2
      <4> QED BY <1>2, <2>1, <4>1
    <3> QED BY <3>1, <3>2
  <2> QED BY <2>2, <2>3
<1> QED BY <1>2, <1>3

\* ... that leaves the ledger alone ...
LEMMA BrowserKeeps ==
    ASSUME IInv, NEW c \in Calls, NEW r \in CallType,
           call' = [call EXCEPT ![c] = r], call[c].pc # "open",
           site' \in Sites, moves' = moves, lock' \in Calls \cup {NoCall},
           profile' \in BOOLEAN, profile => profile', Good(r, profile'),
           UNCHANGED own
    PROVE  IInv'
<1>1. /\ call' \in [Calls -> CallType]
      /\ call'[c] = r /\ \A d \in Calls \ {c} : call'[d] = call[d]
      /\ \A d \in Calls : Good(call'[d], profile')
  BY CallKeeps
<1>2. TypeOK'
  BY <1>1 DEF IInv, TypeOK, CallType, own
<1>3. Owned'
  BY <1>1 DEF IInv, Owned, HasHandle, own
<1> QED BY <1>1, <1>2, <1>3 DEF IInv

\* ... and of one that only takes or releases what the process holds.
LEMMA LedgerKeeps ==
    ASSUME IInv, NEW c \in Calls, NEW r \in CallType,
           call' = [call EXCEPT ![c] = r], Good(r, profile),
           lock' \in Calls \cup {NoCall}, UNCHANGED <<env, closed>>,
           mu' = c \/ mu' = NoCall \/ (mu' = mu /\ mu # c),
           mu' = c => r.pc = "open",
           ledger' \in {"none", "open"}, handles' = IF ledger' = "open" THEN 1 ELSE 0,
           closed => ledger' = "none"
    PROVE  IInv'
<1>1. /\ profile' = profile /\ profile' \in BOOLEAN /\ site' = site /\ moves' = moves
      /\ closed' = closed
  BY DEF env, IInv, TypeOK
<1>2. Good(r, profile')
  BY <1>1
<1>3. /\ call' \in [Calls -> CallType]
      /\ call'[c] = r /\ \A d \in Calls \ {c} : call'[d] = call[d]
      /\ \A d \in Calls : Good(call'[d], profile')
  BY <1>1, <1>2, CallKeeps
<1>4. TypeOK'
  BY <1>1, <1>3 DEF IInv, TypeOK, CallType
<1>5. Owned'
  BY <1>1, <1>3, SessionAssumption DEF IInv, Owned, HasHandle
<1> QED BY <1>3, <1>4, <1>5 DEF IInv

\* The call c as the invariant has it.
LEMMA CallOf ==
    ASSUME IInv, NEW c \in Calls
    PROVE  /\ call[c] \in CallType /\ Good(call[c], profile) /\ profile \in BOOLEAN
           /\ site \in Sites /\ lock \in Calls \cup {NoCall}
BY CallTyped DEF IInv, TypeOK

\* An answer that claims nothing of a session or an estimate.
LEMMA AnsweredGood ==
    ASSUME NEW r \in CallType, NEW saved, Good(r, saved),
           r.pc # "idle",
           NEW a \in {"unverified", "access_blocked", "not_configured", "ok",
                      "ok_with_warning", "not_computed", "source_failed",
                      "local_data_unavailable", "cancelled"},
           r.tool = "orders_list" => a \in {"ok", "local_data_unavailable", "cancelled"},
           r.tool \in {"products_search", "orders_preview"} => a # "local_data_unavailable"
    PROVE  Answered(r, a) \in CallType /\ Good(Answered(r, a), saved)
<1> DEFINE r2 == Answered(r, a)
<1>1. r2 = [r EXCEPT !.pc = "done", !.program = "none", !.answer = a]
  BY DEF Answered
<1> HIDE DEF r2
<1>2. /\ r2 \in CallType /\ r2.pc = "done" /\ r2.answer = a /\ r2.tool = r.tool
      /\ r2.program = "none"
  BY <1>1 DEF CallType
<1>3. Good(r2, saved)
  BY <1>2 DEF Good, Placed, Grounded, Claims
<1> QED BY <1>2, <1>3 DEF r2

\* A call that goes on elsewhere, at pc with a program.
Places == {"provider", "inspect", "launch", "page", "decide", "cash",
           "costs", "ledger", "open", "use"}
Moved(r, pc, program) == [r EXCEPT !.pc = pc, !.program = program]

LEMMA MovedGood ==
    ASSUME NEW r \in CallType, NEW saved, Good(r, saved), r.pc # "done",
           NEW pc \in Places, NEW program \in Programs \cup {"none"},
           Placed(r, pc, program), Grounded(r, pc, program, saved)
    PROVE  /\ Moved(r, pc, program) \in CallType /\ Good(Moved(r, pc, program), saved)
           /\ Moved(r, pc, program).pc = pc
<1> DEFINE r2 == Moved(r, pc, program)
<1>1. r2 = [r EXCEPT !.pc = pc, !.program = program]
  BY DEF Moved
<1> HIDE DEF r2
<1>2. /\ r2 \in CallType /\ r2.pc = pc /\ r2.program = program
      /\ r2.tool = r.tool /\ r2.confirmed = r.confirmed /\ r2.before = r.before
      /\ r2.seen = r.seen /\ r2.window = r.window
      /\ r2.shown = r.shown /\ r2.costs = r.costs /\ r2.answer = r.answer
  BY <1>1 DEF CallType, Places
<1>3. Placed(r2, pc, program) /\ Grounded(r2, pc, program, saved)
  BY <1>2 DEF Placed, Grounded
<1>4. Claims(r2, saved)
  BY <1>2 DEF Good, Claims
<1>5. Good(r2, saved)
  BY <1>2, <1>3, <1>4 DEF Good
<1> QED BY <1>2, <1>5 DEF r2

LEMMA GotoIsMove ==
    ASSUME TypeOK, NEW c \in Calls, NEW pc, Goto(c, pc)
    PROVE  call' = [call EXCEPT ![c] = Moved(call[c], pc, call[c].program)]
<1>1. call \in [Calls -> CallType]
  BY CallTyped
<1>2. [call[c] EXCEPT !.pc = pc] = [call[c] EXCEPT !.pc = pc, !.program = call[c].program]
  BY <1>1 DEF CallType
<1> QED BY <1>2 DEF Goto, Moved

LEMMA RunIsMove ==
    ASSUME NEW c \in Calls, NEW program, Run(c, program)
    PROVE  call' = [call EXCEPT ![c] = Moved(call[c], "launch", program)]
BY DEF Run, Moved

LEMMA AnswerIsAnswered ==
    ASSUME NEW c \in Calls, NEW a, Answer(c, a)
    PROVE  call' = [call EXCEPT ![c] = Answered(call[c], a)]
BY DEF Answer

-----------------------------------------------------------------------------
(* The actions.                                                            *)

\* A call that ends without a claim, whatever happens to the profile's lock.
LEMMA EndingKeeps ==
    ASSUME IInv, NEW c \in Calls, call[c].pc \notin {"idle", "open"},
           NEW a \in {"unverified", "access_blocked", "not_configured", "ok",
                      "ok_with_warning", "not_computed", "source_failed",
                      "local_data_unavailable", "cancelled"},
           call' = [call EXCEPT ![c] = Answered(call[c], a)],
           call[c].tool = "orders_list" => a \in {"ok", "local_data_unavailable", "cancelled"},
           call[c].tool \in {"products_search", "orders_preview"} =>
               a # "local_data_unavailable",
           lock' \in Calls \cup {NoCall}, UNCHANGED <<env, own>>
    PROVE  IInv'
<1>1. /\ call[c] \in CallType /\ Good(call[c], profile) /\ profile \in BOOLEAN
      /\ site \in Sites
  BY CallOf
<1>2. Answered(call[c], a) \in CallType /\ Good(Answered(call[c], a), profile)
  BY <1>1, AnsweredGood
<1>3. site' = site /\ moves' = moves /\ profile' = profile /\ UNCHANGED own
  BY DEF env
<1> QED BY <1>1, <1>2, <1>3, BrowserKeeps

\* A call that goes on in the browser, as r ...
LEMMA BecomingKeeps ==
    ASSUME IInv, NEW c \in Calls, call[c].pc # "open",
           NEW r \in CallType, call' = [call EXCEPT ![c] = r], Good(r, profile),
           lock' \in Calls \cup {NoCall}, UNCHANGED <<env, own>>
    PROVE  IInv'
<1>1. site' = site /\ moves' = moves /\ profile' = profile /\ UNCHANGED own
  BY DEF env
<1> QED BY <1>1, CallOf, BrowserKeeps

\* ... or as it is, elsewhere.
LEMMA MovingKeeps ==
    ASSUME IInv, NEW c \in Calls, call[c].pc \notin {"open", "done"},
           NEW pc \in Places, NEW program \in Programs \cup {"none"},
           call' = [call EXCEPT ![c] = Moved(call[c], pc, program)],
           Placed(call[c], pc, program), Grounded(call[c], pc, program, profile),
           lock' \in Calls \cup {NoCall}, UNCHANGED <<env, own>>
    PROVE  IInv'
<1>1. call[c] \in CallType /\ Good(call[c], profile)
  BY CallOf
<1>2. Moved(call[c], pc, program) \in CallType /\ Good(Moved(call[c], pc, program), profile)
  BY <1>1, MovedGood
<1> QED BY <1>2, BecomingKeeps

LEMMA AskKeeps ==
    ASSUME IInv, NEW c \in Calls, NEW t \in Tools, NEW confirmed \in BOOLEAN,
           Ask(c, t, confirmed)
    PROVE  IInv'
<1> DEFINE r == [Blank EXCEPT !.tool = t, !.confirmed = confirmed, !.pc = "provider"]
<1>1. t \in AllTools
  BY SessionAssumption
<1>2. /\ r \in CallType /\ r.pc = "provider" /\ r.tool = t /\ r.answer = "none"
      /\ ~r.window
  BY <1>1 DEF Blank, CallType, Programs
<1>3. call[c].pc = "idle" /\ call' = [call EXCEPT ![c] = r] /\ UNCHANGED <<env, own, lock>>
  BY DEF Ask
<1> HIDE DEF r
<1>4. Good(r, profile)
  BY <1>1, <1>2 DEF Good, Placed, Grounded, Claims
<1> QED BY <1>2, <1>3, <1>4, BecomingKeeps, CallOf

LEMMA ResolveKeeps ==
    ASSUME IInv, NEW c \in Calls, Resolve(c)
    PROVE  IInv'
<1> DEFINE t == call[c].tool
<1>1. /\ call[c].pc = "provider" /\ UNCHANGED <<env, own, lock>>
      /\ lock' \in Calls \cup {NoCall} /\ TypeOK
  BY CallOf DEF Resolve, IInv
<1>2. /\ call[c] \in CallType /\ t \in AllTools /\ ~call[c].window
      /\ call[c].program \in Programs \cup {"none"}
  BY <1>1, CallOf DEF Good, Placed, Grounded, CallType
<1>3. CASE t # "orders_list" /\ Answer(c, "source_failed")
  BY <1>1, <1>3, AnswerIsAnswered, EndingKeeps
<1>4. ASSUME NEW pc \in {"ledger", "inspect"}, Goto(c, pc),
             pc = "ledger" => NeedsLedger(t),
             pc = "inspect" => t \in {"auth_status", "auth_login_if_needed"}
      PROVE  IInv'
  <2>1. call' = [call EXCEPT ![c] = Moved(call[c], pc, call[c].program)]
    BY <1>1, <1>4, GotoIsMove
  <2>2. /\ Placed(call[c], pc, call[c].program)
        /\ Grounded(call[c], pc, call[c].program, profile)
    BY <1>2, <1>4 DEF Placed, Grounded, NeedsLedger
  <2> QED BY <1>1, <1>2, <2>1, <2>2, MovingKeeps DEF Places
<1>5. ASSUME NEW program \in {"precheck", "search", "preview"}, Run(c, program),
             program \in RunsOf(t), t # "auth_login_if_needed"
      PROVE  IInv'
  <2>1. call' = [call EXCEPT ![c] = Moved(call[c], "launch", program)]
    BY <1>5, RunIsMove
  <2>2. Placed(call[c], "launch", program) /\ Grounded(call[c], "launch", program, profile)
    BY <1>2, <1>5 DEF Placed, Grounded
  <2>3. "launch" \in Places /\ program \in Programs
    BY DEF Places, Programs
  <2> QED BY <1>1, <2>1, <2>2, <2>3, MovingKeeps
<1>6. \/ t # "orders_list" /\ Answer(c, "source_failed")
      \/ NeedsLedger(t) /\ Goto(c, "ledger")
      \/ t = "login_link" /\ Run(c, "precheck")
      \/ t = "products_search" /\ Run(c, "search")
      \/ t = "orders_preview" /\ Run(c, "preview")
      \/ t \in {"auth_status", "auth_login_if_needed"} /\ Goto(c, "inspect")
  BY <1>2 DEF Resolve, NeedsLedger, AllTools
<1>7. /\ "precheck" \in RunsOf("login_link") /\ "search" \in RunsOf("products_search")
      /\ "preview" \in RunsOf("orders_preview")
  BY DEF RunsOf
<1> QED BY <1>3, <1>4, <1>5, <1>6, <1>7

LEMMA InspectKeeps ==
    ASSUME IInv, NEW c \in Calls, Inspect(c)
    PROVE  IInv'
<1>1. /\ call[c].pc = "inspect" /\ UNCHANGED <<env, own, lock>>
      /\ lock' \in Calls \cup {NoCall}
  BY CallOf DEF Inspect
<1>2. call[c] \in CallType /\ Good(call[c], profile)
  BY CallOf
<1>3. call[c].tool \in {"auth_status", "auth_login_if_needed"} /\ ~call[c].window
  BY <1>1, <1>2 DEF Good, Placed, Grounded
<1>4. CASE profile
  <2>1. call' = [call EXCEPT ![c] = Moved(call[c], "launch", "status")]
    BY <1>4, RunIsMove DEF Inspect
  <2>2. Placed(call[c], "launch", "status") /\ Grounded(call[c], "launch", "status", profile)
    BY <1>3 DEF Placed, Grounded, RunsOf, AllTools
  <2>3. "launch" \in Places /\ "status" \in Programs
    BY DEF Places, Programs
  <2> QED BY <1>1, <2>1, <2>2, <2>3, MovingKeeps
<1>5. CASE ~profile
  <2> DEFINE r == [call[c] EXCEPT !.pc = "decide", !.before = "not_configured"]
  <2>1. call' = [call EXCEPT ![c] = r]
    BY <1>5 DEF Inspect
  <2>2. /\ r \in CallType /\ r.pc = "decide" /\ r.before = "not_configured"
        /\ r.tool = call[c].tool /\ r.window = call[c].window /\ r.answer = call[c].answer
    <3>1. r \in CallType
      BY <1>2 DEF CallType
    <3>2. r.pc = "decide" /\ r.before = "not_configured"
      BY <1>2 DEF CallType
    <3>3. r.tool = call[c].tool /\ r.window = call[c].window /\ r.answer = call[c].answer
      BY <1>2 DEF CallType
    <3> QED BY <3>1, <3>2, <3>3
  <2> HIDE DEF r
  <2>3. Good(r, profile)
    BY <1>1, <1>2, <1>3, <2>2 DEF Good, Placed, Grounded, Claims, AllTools
  <2> QED BY <1>1, <2>1, <2>2, <2>3, BecomingKeeps
<1> QED BY <1>4, <1>5

LEMMA LaunchKeeps ==
    ASSUME IInv, NEW c \in Calls, Launch(c)
    PROVE  IInv'
<1>1. call[c].pc = "launch" /\ UNCHANGED <<env, own>>
  BY DEF Launch
<1>2. call[c] \in CallType /\ Good(call[c], profile) /\ lock \in Calls \cup {NoCall}
  BY CallOf
<1>3. call[c].tool # "orders_list"
  BY <1>1, <1>2 DEF Good, Placed, RunsOf
<1>4. CASE Answer(c, "source_failed") /\ UNCHANGED lock
  BY <1>1, <1>2, <1>3, <1>4, AnswerIsAnswered, EndingKeeps
<1>5. CASE ~(Answer(c, "source_failed") /\ UNCHANGED lock)
  <2> DEFINE opened == call[c].window \/ call[c].program = "window"
             r == [call[c] EXCEPT !.pc = "page", !.window = opened]
  <2>1. call' = [call EXCEPT ![c] = r] /\ lock' = c
    BY <1>5 DEF Launch
  <2>2. opened \in BOOLEAN
    BY <1>2 DEF CallType
  <2> HIDE DEF opened
  <2>3. /\ r \in CallType /\ r.pc = "page" /\ r.program = call[c].program
        /\ r.tool = call[c].tool /\ r.window = opened /\ r.answer = call[c].answer
        /\ r.seen = call[c].seen /\ r.confirmed = call[c].confirmed
        /\ r.before = call[c].before
    BY <1>2, <2>2 DEF CallType
  <2> HIDE DEF r
  <2>4. opened => r.program \in {"window", "recheck"}
    BY <1>1, <1>2, <2>3 DEF Good, Grounded, opened
  <2>5. Good(r, profile)
    BY <1>1, <1>2, <2>3, <2>4 DEF Good, Placed, Grounded, Claims
  <2> QED BY <1>1, <2>1, <2>3, <2>5, BecomingKeeps
<1> QED BY <1>4, <1>5

LEMMA RunFailsKeeps ==
    ASSUME IInv, NEW c \in Calls, RunFails(c)
    PROVE  IInv'
<1>1. call[c] \in CallType /\ Good(call[c], profile)
  BY CallOf
<1>2. /\ call[c].pc \in {"page", "cash"} /\ Answer(c, "source_failed") /\ lock' = NoCall
      /\ UNCHANGED <<env, own>>
  BY DEF RunFails
<1>3. call[c].tool # "orders_list"
  BY <1>1, <1>2 DEF Good, Placed, RunsOf
<1> QED BY <1>2, <1>3, AnswerIsAnswered, EndingKeeps

LEMMA DecidedIsCall ==
    ASSUME NEW k \in CallType, NEW x \in Sites,
           NEW s \in {"verified", "unverified", "access_blocked"}
    PROVE  [k EXCEPT !.pc = "decide", !.before = s, !.seen = x] \in CallType
<1>1. x \in Sites \cup {"none"}
  OBVIOUS
<1>2. s \in {"none", "not_configured", "verified", "unverified", "access_blocked"}
  OBVIOUS
<1> QED BY <1>1, <1>2 DEF CallType

LEMMA StatusKeeps ==
    ASSUME IInv, NEW c \in Calls, Status(c)
    PROVE  IInv'
<1> DEFINE state == AuthState(site)
<1>1. /\ call[c].pc = "page" /\ call[c].program = "status" /\ lock' = NoCall
      /\ UNCHANGED <<env, own>>
  BY DEF Status
<1>2. call[c] \in CallType /\ Good(call[c], profile) /\ site \in Sites
  BY CallOf
<1>3. call[c].tool \in {"auth_status", "auth_login_if_needed"} /\ ~call[c].window
  BY <1>1, <1>2 DEF Good, Placed, Grounded, RunsOf
<1>4. /\ state \in {"verified", "unverified", "access_blocked", "unavailable"}
      /\ state = "verified" => site = "signed_in"
  BY <1>2 DEF AuthState, Sites
<1> HIDE DEF state
<1>5. CASE state = "unavailable"
  <2>1. call' = [call EXCEPT ![c] = Answered(call[c], "source_failed")]
    BY <1>5 DEF Status, state
  <2> QED BY <1>1, <1>3, <2>1, EndingKeeps
<1>6. CASE state # "unavailable"
  <2> DEFINE r == [call[c] EXCEPT !.pc = "decide", !.before = state, !.seen = site]
  <2>1. call' = [call EXCEPT ![c] = r]
    BY <1>6 DEF Status, state
  <2>2. /\ r \in CallType /\ r.pc = "decide" /\ r.before = state /\ r.seen = site
        /\ r.tool = call[c].tool /\ r.window = call[c].window /\ r.answer = call[c].answer
    <3>1. state \in {"verified", "unverified", "access_blocked"}
      BY <1>4, <1>6
    <3>2. r \in CallType
      BY <1>2, <3>1, DecidedIsCall
    <3>3. r.pc = "decide" /\ r.before = state /\ r.seen = site
      BY <1>2 DEF CallType
    <3>4. r.tool = call[c].tool /\ r.window = call[c].window /\ r.answer = call[c].answer
      BY <1>2 DEF CallType
    <3> QED BY <3>2, <3>3, <3>4
  <2> HIDE DEF r
  <2>3. Good(r, profile)
    BY <1>1, <1>2, <1>3, <1>4, <1>6, <2>2 DEF Good, Placed, Grounded, Claims, AllTools
  <2> QED BY <1>1, <2>1, <2>2, <2>3, BecomingKeeps
<1> QED BY <1>5, <1>6

\* An answer "verified" after a look at a signed-in session.
LEMMA VerifiedGood ==
    ASSUME NEW r \in CallType, NEW saved, Good(r, saved),
           r.tool \in {"auth_status", "auth_login_if_needed", "login_link"},
           r.seen = "signed_in", r.window => saved
    PROVE  /\ Answered(r, "verified") \in CallType
           /\ Good(Answered(r, "verified"), saved)
<1> DEFINE r2 == Answered(r, "verified")
<1>1. r2 = [r EXCEPT !.pc = "done", !.program = "none", !.answer = "verified"]
  BY DEF Answered
<1> HIDE DEF r2
<1>2. /\ r2 \in CallType /\ r2.pc = "done" /\ r2.answer = "verified" /\ r2.tool = r.tool
      /\ r2.program = "none" /\ r2.seen = r.seen /\ r2.window = r.window
  <2>1. r2 \in CallType
    BY <1>1 DEF CallType
  <2>2. r2.pc = "done" /\ r2.answer = "verified" /\ r2.program = "none"
    BY <1>1 DEF CallType
  <2>3. r2.tool = r.tool /\ r2.seen = r.seen /\ r2.window = r.window
    BY <1>1 DEF CallType
  <2> QED BY <2>1, <2>2, <2>3
<1>3. Good(r2, saved)
  BY <1>2 DEF Good, Placed, Grounded, Claims, AllTools
<1> QED BY <1>2, <1>3 DEF r2

LEMMA RecoverKeeps ==
    ASSUME IInv, NEW c \in Calls, Recover(c)
    PROVE  IInv'
<1> DEFINE r == call[c]
<1>1. r.pc = "decide" /\ UNCHANGED <<env, own, lock>> /\ lock' \in Calls \cup {NoCall}
  BY CallOf DEF Recover
<1>2. r \in CallType /\ Good(r, profile)
  BY CallOf
<1>3. /\ r.tool \in {"auth_status", "auth_login_if_needed"} /\ ~r.window
      /\ r.before \in {"not_configured", "verified", "unverified", "access_blocked"}
      /\ r.before = "verified" => r.seen = "signed_in"
  BY <1>1, <1>2 DEF Good, Placed, Grounded, CallType
<1>4. \/ call' = [call EXCEPT ![c] = Answered(r, r.before)]
      \/ call' = [call EXCEPT ![c] = Answered(r, "source_failed")]
      \/ /\ call' = [call EXCEPT ![c] = Moved(r, "launch", "precheck")]
         /\ r.tool = "auth_login_if_needed" /\ r.confirmed
         /\ r.before \in {"not_configured", "unverified"}
  BY <1>3 DEF Recover, Recovered, Moved
<1>5. CASE call' = [call EXCEPT ![c] = Answered(r, r.before)]
  <2>1. CASE r.before = "verified"
    <3>1. /\ Answered(r, "verified") \in CallType
          /\ Good(Answered(r, "verified"), profile)
      BY <1>2, <1>3, <2>1, VerifiedGood
    <3> QED BY <1>1, <1>5, <2>1, <3>1, BecomingKeeps
  <2>2. CASE r.before # "verified"
    BY <1>1, <1>3, <1>5, <2>2, EndingKeeps
  <2> QED BY <2>1, <2>2
<1>6. CASE call' = [call EXCEPT ![c] = Answered(r, "source_failed")]
  BY <1>1, <1>3, <1>6, EndingKeeps
<1>7. CASE /\ call' = [call EXCEPT ![c] = Moved(r, "launch", "precheck")]
           /\ r.tool = "auth_login_if_needed" /\ r.confirmed
           /\ r.before \in {"not_configured", "unverified"}
  <2>1. Placed(r, "launch", "precheck") /\ Grounded(r, "launch", "precheck", profile)
    BY <1>3, <1>7 DEF Placed, Grounded, RunsOf, AllTools
  <2>2. "launch" \in Places /\ "precheck" \in Programs
    BY DEF Places, Programs
  <2> QED BY <1>1, <1>7, <2>1, <2>2, MovingKeeps
<1> QED BY <1>4, <1>5, <1>6, <1>7

LEMMA LoginCheckKeeps ==
    ASSUME IInv, NEW c \in Calls, LoginCheck(c)
    PROVE  IInv'
<1> DEFINE state == AuthState(site)
<1>1. /\ call[c].pc = "page" /\ call[c].program = "precheck" /\ lock' = NoCall
      /\ UNCHANGED <<env, own>>
  BY DEF LoginCheck
<1>2. call[c] \in CallType /\ Good(call[c], profile) /\ site \in Sites
  BY CallOf
<1>3. /\ call[c].tool \in {"auth_login_if_needed", "login_link"} /\ ~call[c].window
      /\ call[c].tool = "auth_login_if_needed" =>
             call[c].confirmed /\ call[c].before \in {"not_configured", "unverified"}
  BY <1>1, <1>2 DEF Good, Placed, Grounded, RunsOf
<1>4. /\ state \in {"verified", "unverified", "access_blocked", "unavailable"}
      /\ state = "verified" => site = "signed_in"
      /\ state = "unverified" => site = "signed_out"
  BY <1>2 DEF AuthState, Sites
<1> HIDE DEF state
<1>5. CASE state = "unverified"
  <2> DEFINE r == [call[c] EXCEPT !.pc = "launch", !.program = "window", !.seen = site]
  <2>1. call' = [call EXCEPT ![c] = r]
    BY <1>5 DEF LoginCheck, state
  <2>2. /\ r \in CallType /\ r.pc = "launch" /\ r.program = "window" /\ r.seen = site
        /\ r.tool = call[c].tool /\ r.window = call[c].window /\ r.answer = call[c].answer
        /\ r.confirmed = call[c].confirmed /\ r.before = call[c].before
    <3>1. "window" \in Programs
      BY DEF Programs
    <3>2. r \in CallType
      BY <1>2, <3>1 DEF CallType
    <3>3. r.pc = "launch" /\ r.program = "window" /\ r.seen = site
      BY <1>2 DEF CallType
    <3>4. r.tool = call[c].tool /\ r.window = call[c].window /\ r.answer = call[c].answer
      BY <1>2 DEF CallType
    <3>5. r.confirmed = call[c].confirmed /\ r.before = call[c].before
      BY <1>2 DEF CallType
    <3> QED BY <3>2, <3>3, <3>4, <3>5
  <2> HIDE DEF r
  <2>3. Placed(r, "launch", "window") /\ Grounded(r, "launch", "window", profile)
    BY <1>3, <1>4, <1>5, <2>2 DEF Placed, Grounded, RunsOf, AllTools
  <2>4. Good(r, profile)
    BY <1>1, <1>2, <1>3, <2>2, <2>3 DEF Good, Claims
  <2> QED BY <1>1, <2>1, <2>2, <2>4, BecomingKeeps
<1>6. CASE state = "verified"
  <2> DEFINE r == [call[c] EXCEPT !.seen = site]
  <2>1. call' = [call EXCEPT ![c] = Answered(r, "verified")]
    BY <1>6 DEF LoginCheck, state
  <2>2. /\ r \in CallType /\ r.pc = "page" /\ r.program = "precheck" /\ r.seen = site
        /\ r.tool = call[c].tool /\ r.window = call[c].window /\ r.answer = call[c].answer
        /\ r.confirmed = call[c].confirmed /\ r.before = call[c].before
    BY <1>1, <1>2 DEF CallType
  <2> HIDE DEF r
  <2>3. Good(r, profile)
    BY <1>1, <1>2, <1>3, <2>2 DEF Good, Placed, Grounded, Claims
  <2>4. /\ Answered(r, "verified") \in CallType
        /\ Good(Answered(r, "verified"), profile)
    BY <1>3, <1>4, <1>6, <2>2, <2>3, VerifiedGood
  <2> QED BY <1>1, <2>1, <2>4, BecomingKeeps
<1>7. CASE state \notin {"verified", "unverified"}
  <2>1. call' = [call EXCEPT ![c] = Answered(call[c], "source_failed")]
    BY <1>4, <1>7, AnswerIsAnswered DEF LoginCheck, state
  <2> QED BY <1>1, <1>3, <2>1, EndingKeeps
<1> QED BY <1>5, <1>6, <1>7

\* A step of the site alone.
LEMMA SiteKeeps ==
    ASSUME IInv, site' \in Sites, moves' \in 0..MaxMoves,
           UNCHANGED <<profile, own, lock, call>>
    PROVE  IInv'
<1>1. TypeOK'
  BY DEF IInv, TypeOK, own
<1>2. Owned'
  BY DEF IInv, Owned, HasHandle, own
<1> QED BY <1>1, <1>2 DEF IInv

LEMMA PresentLinkKeeps ==
    ASSUME IInv, NEW c \in Calls, PresentLink(c)
    PROVE  IInv'
<1>1. /\ call[c].pc = "page" /\ call[c].program = "window"
      /\ call[c].tool = "login_link" /\ UNCHANGED <<env, own>>
  BY DEF PresentLink
<1>2. call[c] \in CallType /\ Good(call[c], profile) /\ lock \in Calls \cup {NoCall}
  BY CallOf
<1>3. CASE call' = [call EXCEPT ![c].linked = TRUE] /\ UNCHANGED lock
  <2> DEFINE r == [call[c] EXCEPT !.linked = TRUE]
  <2>1. call' = [call EXCEPT ![c] = r]
    BY <1>3
  <2>2. /\ r \in CallType /\ r.pc = call[c].pc /\ r.program = call[c].program
        /\ r.tool = call[c].tool /\ r.window = call[c].window /\ r.answer = call[c].answer
        /\ r.seen = call[c].seen
    <3>1. r \in CallType
      BY <1>2 DEF CallType
    <3>2. /\ r.pc = call[c].pc /\ r.program = call[c].program /\ r.tool = call[c].tool
          /\ r.window = call[c].window
      BY <1>2 DEF CallType
    <3>3. r.answer = call[c].answer /\ r.seen = call[c].seen
      BY <1>2 DEF CallType
    <3> QED BY <3>1, <3>2, <3>3
  <2> HIDE DEF r
  <2>3. Good(r, profile)
    BY <1>1, <1>2, <2>2 DEF Good, Placed, Grounded, Claims
  <2> QED BY <1>1, <1>2, <1>3, <2>1, <2>2, <2>3, BecomingKeeps
<1>4. CASE Answer(c, "source_failed") /\ lock' = NoCall
  BY <1>1, <1>4, AnswerIsAnswered, EndingKeeps
<1> QED BY <1>3, <1>4 DEF PresentLink

LEMMA LoginEndsKeeps ==
    ASSUME IInv, NEW c \in Calls, LoginEnds(c)
    PROVE  IInv'
<1>1. /\ call[c].pc = "page" /\ call[c].program = "window" /\ lock' = NoCall
      /\ UNCHANGED <<site, moves, own>>
  BY DEF LoginEnds
<1>2. call[c] \in CallType /\ Good(call[c], profile) /\ profile \in BOOLEAN /\ site \in Sites
  BY CallOf
<1>3. call[c].tool \in {"auth_login_if_needed", "login_link"}
  BY <1>1, <1>2 DEF Good, Placed, RunsOf
<1>4. CASE profile' = TRUE /\ Run(c, "recheck")
  <2>1. call' = [call EXCEPT ![c] = Moved(call[c], "launch", "recheck")]
    BY <1>4, RunIsMove
  <2>2. Placed(call[c], "launch", "recheck") /\ Grounded(call[c], "launch", "recheck", TRUE)
    BY <1>3 DEF Placed, Grounded, RunsOf, AllTools
  <2>3. "launch" \in Places /\ "recheck" \in Programs
    BY DEF Places, Programs
  <2>4. Good(call[c], TRUE)
    BY <1>2, ProfileStays
  <2>5. /\ Moved(call[c], "launch", "recheck") \in CallType
        /\ Good(Moved(call[c], "launch", "recheck"), TRUE)
    BY <1>1, <1>2, <2>2, <2>3, <2>4, MovedGood
  <2> QED BY <1>1, <1>2, <1>4, <2>1, <2>5, BrowserKeeps
<1>5. CASE Answer(c, "source_failed") /\ UNCHANGED profile
  <2>1. UNCHANGED <<env, own>>
    BY <1>1, <1>5 DEF env
  <2> QED BY <1>1, <1>3, <1>5, <2>1, AnswerIsAnswered, EndingKeeps
<1> QED BY <1>4, <1>5 DEF LoginEnds

LEMMA LoginVerifiedKeeps ==
    ASSUME IInv, NEW c \in Calls, LoginVerified(c)
    PROVE  IInv'
<1> DEFINE r == [call[c] EXCEPT !.seen = site]
<1>1. /\ call[c].pc = "page" /\ call[c].program = "recheck" /\ lock' = NoCall
      /\ UNCHANGED <<env, own>>
  BY DEF LoginVerified
<1>2. call[c] \in CallType /\ Good(call[c], profile) /\ site \in Sites
  BY CallOf
<1>3. call[c].tool \in {"auth_login_if_needed", "login_link"} /\ profile
  BY <1>1, <1>2 DEF Good, Placed, Grounded, RunsOf
<1>4. /\ r \in CallType /\ r.pc = "page" /\ r.program = "recheck" /\ r.seen = site
      /\ r.tool = call[c].tool /\ r.window = call[c].window /\ r.answer = call[c].answer
  <2>1. r \in CallType
    BY <1>2 DEF CallType
  <2>2. r.pc = "page" /\ r.program = "recheck" /\ r.seen = site
    BY <1>1, <1>2 DEF CallType
  <2>3. r.tool = call[c].tool /\ r.window = call[c].window /\ r.answer = call[c].answer
    BY <1>2 DEF CallType
  <2> QED BY <2>1, <2>2, <2>3
<1>5. \/ site = "signed_in" /\ call' = [call EXCEPT ![c] = Answered(r, "verified")]
      \/ call' = [call EXCEPT ![c] = Answered(r, "source_failed")]
  BY DEF LoginVerified
<1> HIDE DEF r
<1>6. Good(r, profile)
  BY <1>1, <1>2, <1>3, <1>4 DEF Good, Placed, Grounded, Claims
<1>7. CASE site = "signed_in" /\ call' = [call EXCEPT ![c] = Answered(r, "verified")]
  <2>1. /\ Answered(r, "verified") \in CallType
        /\ Good(Answered(r, "verified"), profile)
    BY <1>3, <1>4, <1>6, <1>7, VerifiedGood
  <2> QED BY <1>1, <1>7, <2>1, BecomingKeeps
<1>8. CASE call' = [call EXCEPT ![c] = Answered(r, "source_failed")]
  <2>1. /\ Answered(r, "source_failed") \in CallType
        /\ Good(Answered(r, "source_failed"), profile)
    BY <1>3, <1>4, <1>6, AnsweredGood
  <2> QED BY <1>1, <1>8, <2>1, BecomingKeeps
<1> QED BY <1>5, <1>7, <1>8

LEMMA SearchReadKeeps ==
    ASSUME IInv, NEW c \in Calls, SearchRead(c)
    PROVE  IInv'
<1>1. /\ call[c].pc = "page" /\ call[c].program = "search" /\ lock' = NoCall
      /\ UNCHANGED <<env, own>>
      /\ Answer(c, "source_failed") \/ Goto(c, "ledger")
  BY DEF SearchRead
<1>2. call[c] \in CallType /\ Good(call[c], profile)
  BY CallOf
<1>3. call[c].tool = "products_search" /\ ~call[c].window
  BY <1>1, <1>2 DEF Good, Placed, Grounded, RunsOf
<1>4. CASE Answer(c, "source_failed")
  BY <1>1, <1>3, <1>4, AnswerIsAnswered, EndingKeeps
<1>5. CASE Goto(c, "ledger")
  <2>1. call' = [call EXCEPT ![c] = Moved(call[c], "ledger", call[c].program)]
    BY <1>5, GotoIsMove DEF IInv
  <2>2. /\ Placed(call[c], "ledger", call[c].program)
        /\ Grounded(call[c], "ledger", call[c].program, profile)
    BY <1>3 DEF Placed, Grounded, AllTools
  <2>3. "ledger" \in Places /\ call[c].program \in Programs
    BY <1>1 DEF Places, Programs
  <2> QED BY <1>1, <2>1, <2>2, <2>3, MovingKeeps
<1> QED BY <1>1, <1>4, <1>5

LEMMA PreviewReadKeeps ==
    ASSUME IInv, NEW c \in Calls, PreviewRead(c)
    PROVE  IInv'
<1>1. /\ call[c].pc = "page" /\ call[c].program = "preview" /\ lock' = NoCall
      /\ UNCHANGED <<env, own>>
  BY DEF PreviewRead
<1>2. call[c].tool = "orders_preview"
  BY <1>1, CallOf DEF Good, Placed, RunsOf
<1>3. PICK a \in {"ok", "source_failed"} : Answer(c, a)
  BY DEF PreviewRead
<1> QED BY <1>1, <1>2, <1>3, AnswerIsAnswered, EndingKeeps

LEMMA MembershipReadKeeps ==
    ASSUME IInv, NEW c \in Calls, MembershipRead(c)
    PROVE  IInv'
<1>1. /\ call[c].pc = "page" /\ call[c].program = "benefits" /\ UNCHANGED <<env, own>>
  BY DEF MembershipRead
<1>2. call[c] \in CallType /\ Good(call[c], profile) /\ lock \in Calls \cup {NoCall}
  BY CallOf
<1>3. call[c].tool = "account_benefits" /\ ~call[c].window
  BY <1>1, <1>2 DEF Good, Placed, Grounded, RunsOf
<1>4. CASE site = "signed_in"
  <2>1. PICK shown \in Pages :
            call' = [call EXCEPT ![c].pc = "cash", ![c].shown = shown]
    BY <1>4 DEF MembershipRead
  <2> DEFINE r == [call[c] EXCEPT !.pc = "cash", !.shown = shown]
  <2>2. call' = [call EXCEPT ![c] = r] /\ UNCHANGED lock
    BY <1>2, <1>4, <2>1, CallTyped DEF MembershipRead, IInv
  <2>3. shown \in SUBSET Facts
    BY SessionAssumption
  <2>4. /\ r \in CallType /\ r.pc = "cash" /\ r.tool = call[c].tool
        /\ r.window = call[c].window /\ r.answer = call[c].answer
    <3>1. r \in CallType
      BY <1>2, <2>3 DEF CallType
    <3>2. /\ r.pc = "cash" /\ r.tool = call[c].tool /\ r.window = call[c].window
          /\ r.answer = call[c].answer
      BY <1>2 DEF CallType
    <3> QED BY <3>1, <3>2
  <2> HIDE DEF r
  <2>5. Good(r, profile)
    BY <1>1, <1>2, <1>3, <2>4 DEF Good, Placed, Grounded, Claims, AllTools
  <2> QED BY <1>1, <1>2, <2>2, <2>4, <2>5, BecomingKeeps
<1>5. CASE site # "signed_in"
  <2>1. Answer(c, "source_failed") /\ lock' = NoCall
    BY <1>5 DEF MembershipRead
  <2> QED BY <1>1, <1>3, <2>1, AnswerIsAnswered, EndingKeeps
<1> QED BY <1>4, <1>5

LEMMA CashReadKeeps ==
    ASSUME IInv, NEW c \in Calls, CashRead(c)
    PROVE  IInv'
<1>1. /\ call[c].pc = "cash" /\ lock' = NoCall /\ UNCHANGED <<env, own>>
      /\ Answer(c, "source_failed") \/ Goto(c, "costs")
  BY DEF CashRead
<1>2. call[c] \in CallType /\ Good(call[c], profile)
  BY CallOf
<1>3. call[c].tool = "account_benefits" /\ ~call[c].window
  BY <1>1, <1>2 DEF Good, Placed, Grounded
<1>4. CASE Answer(c, "source_failed")
  BY <1>1, <1>3, <1>4, AnswerIsAnswered, EndingKeeps
<1>5. CASE Goto(c, "costs")
  <2>1. call' = [call EXCEPT ![c] = Moved(call[c], "costs", call[c].program)]
    BY <1>5, GotoIsMove DEF IInv
  <2>2. /\ Placed(call[c], "costs", call[c].program)
        /\ Grounded(call[c], "costs", call[c].program, profile)
    BY <1>3 DEF Placed, Grounded, AllTools
  <2>3. "costs" \in Places /\ call[c].program \in Programs \cup {"none"}
    BY <1>2 DEF Places, CallType
  <2> QED BY <1>1, <2>1, <2>2, <2>3, MovingKeeps
<1> QED BY <1>1, <1>4, <1>5

LEMMA CostsKeeps ==
    ASSUME IInv, NEW c \in Calls, Costs(c)
    PROVE  IInv'
<1>1. call[c].pc = "costs" /\ UNCHANGED <<env, own, lock>> /\ lock' \in Calls \cup {NoCall}
  BY CallOf DEF Costs
<1>2. call[c] \in CallType /\ Good(call[c], profile)
  BY CallOf
<1>3. call[c].tool = "account_benefits" /\ ~call[c].window
  BY <1>1, <1>2 DEF Good, Placed, Grounded
<1>4. PICK costs \in {"unavailable", "read"} :
          call' = [call EXCEPT ![c] =
              Answered([@ EXCEPT !.costs = costs], NetValue(@.shown))]
  BY DEF Costs
<1> DEFINE r  == [call[c] EXCEPT !.costs = costs]
           a  == NetValue(call[c].shown)
           r2 == Answered(r, a)
<1>5. call' = [call EXCEPT ![c] = r2]
  BY <1>4
<1>6. /\ r \in CallType /\ r.tool = call[c].tool /\ r.window = call[c].window
      /\ r.shown = call[c].shown /\ r.costs = costs
  <2>1. r \in CallType
    BY <1>2 DEF CallType
  <2>2. /\ r.tool = call[c].tool /\ r.window = call[c].window
        /\ r.shown = call[c].shown /\ r.costs = costs
    BY <1>2 DEF CallType
  <2> QED BY <2>1, <2>2
<1>7. a \in {"estimated", "not_computed"} /\ (a = "estimated" => r.shown = Facts)
  BY <1>6 DEF NetValue
<1> HIDE DEF r, a
<1>8. r2 = [r EXCEPT !.pc = "done", !.program = "none", !.answer = a]
  BY DEF Answered
<1> HIDE DEF r2
<1>9. /\ r2 \in CallType /\ r2.pc = "done" /\ r2.answer = a /\ r2.tool = r.tool
      /\ r2.window = r.window /\ r2.shown = r.shown /\ r2.costs = r.costs
  <2>1. r \in CallType /\ a \in {"estimated", "not_computed"}
    BY <1>6, <1>7
  <2>2. r2 \in CallType
    BY <2>1, <1>8 DEF CallType
  <2>3. /\ r2.pc = "done" /\ r2.answer = a /\ r2.tool = r.tool
        /\ r2.window = r.window /\ r2.shown = r.shown /\ r2.costs = r.costs
    BY <2>1, <1>8 DEF CallType
  <2> QED BY <2>2, <2>3
<1>10. Good(r2, profile)
  BY <1>3, <1>6, <1>7, <1>9 DEF Good, Placed, Grounded, Claims, AllTools
<1> QED BY <1>1, <1>5, <1>9, <1>10, BecomingKeeps

LEMMA UseKeeps ==
    ASSUME IInv, NEW c \in Calls, Use(c)
    PROVE  IInv'
<1>1. call[c].pc = "use" /\ UNCHANGED <<env, own, lock>> /\ lock' \in Calls \cup {NoCall}
  BY CallOf DEF Use
<1>2. call[c].tool \in {"orders_list", "products_search"}
  BY <1>1, CallOf DEF Good, Placed
<1>3. PICK a \in {"ok", "ok_with_warning", "local_data_unavailable"} :
          /\ Answer(c, a)
          /\ call[c].tool = "orders_list" => a \in {"ok", "local_data_unavailable"}
          /\ call[c].tool = "products_search" => a # "local_data_unavailable"
  BY <1>2 DEF Use
<1> QED BY <1>1, <1>2, <1>3, AnswerIsAnswered, EndingKeeps

LEMMA TakeMutexKeeps ==
    ASSUME IInv, NEW c \in Calls, TakeMutex(c)
    PROVE  IInv'
<1>1. /\ call[c].pc = "ledger" /\ mu' = c /\ Goto(c, "open")
      /\ UNCHANGED <<env, ledger, handles, closed, lock>>
  BY DEF TakeMutex
<1>2. /\ call[c] \in CallType /\ Good(call[c], profile) /\ lock \in Calls \cup {NoCall}
      /\ ledger \in {"none", "open"} /\ handles = IF ledger = "open" THEN 1 ELSE 0
      /\ closed => ledger = "none"
  BY CallOf DEF IInv, Owned, HasHandle, TypeOK
<1> DEFINE r == Moved(call[c], "open", call[c].program)
<1>3. call' = [call EXCEPT ![c] = r]
  BY <1>1, GotoIsMove DEF IInv
<1>4. /\ Placed(call[c], "open", call[c].program)
      /\ Grounded(call[c], "open", call[c].program, profile)
  BY <1>1, <1>2 DEF Good, Placed, Grounded, AllTools
<1>5. "open" \in Places /\ call[c].program \in Programs \cup {"none"}
  BY <1>2 DEF Places, CallType
<1>6. r \in CallType /\ Good(r, profile) /\ r.pc = "open"
  BY <1>1, <1>2, <1>4, <1>5, MovedGood
<1> HIDE DEF r
<1> QED BY <1>1, <1>2, <1>3, <1>6, LedgerKeeps

\* A call that leaves the mutex goes on without it, whatever it found.
LEMMA AfterLedgerGood ==
    ASSUME NEW r \in CallType, NEW saved, Good(r, saved), r.pc = "open", NEW ok \in BOOLEAN
    PROVE  AfterLedger(r, ok) \in CallType /\ Good(AfterLedger(r, ok), saved)
<1>1. r.tool \in {"orders_list", "account_benefits", "products_search"} /\ ~r.window
  BY DEF Good, Placed, Grounded
<1>2. CASE ok /\ r.tool = "account_benefits"
  <2>1. AfterLedger(r, ok) = Moved(r, "launch", "benefits")
    BY <1>2 DEF AfterLedger, Moved
  <2>2. Placed(r, "launch", "benefits") /\ Grounded(r, "launch", "benefits", saved)
    BY <1>1, <1>2 DEF Placed, Grounded, RunsOf, AllTools
  <2>3. "launch" \in Places /\ "benefits" \in Programs
    BY DEF Places, Programs
  <2> QED BY <2>1, <2>2, <2>3, MovedGood
<1>3. CASE ok /\ r.tool # "account_benefits"
  <2>1. AfterLedger(r, ok) = [r EXCEPT !.pc = "use"]
    BY <1>3 DEF AfterLedger
  <2>2. [r EXCEPT !.pc = "use"] = Moved(r, "use", r.program)
    BY DEF Moved, CallType
  <2>3. Placed(r, "use", r.program) /\ Grounded(r, "use", r.program, saved)
    BY <1>1, <1>3 DEF Placed, Grounded, AllTools
  <2>4. "use" \in Places /\ r.program \in Programs \cup {"none"}
    BY DEF Places, CallType
  <2> QED BY <2>1, <2>2, <2>3, <2>4, MovedGood
<1>4. CASE ~ok
  <2>1. PICK a \in {"ok_with_warning", "local_data_unavailable"} :
            /\ AfterLedger(r, ok) = Answered(r, a)
            /\ r.tool = "products_search" <=> a = "ok_with_warning"
    BY <1>4 DEF AfterLedger
  <2> QED BY <1>1, <2>1, AnsweredGood
<1> QED BY <1>2, <1>3, <1>4

LEMMA LocalLedgerKeeps ==
    ASSUME IInv, NEW c \in Calls, LocalLedger(c)
    PROVE  IInv'
<1>1. /\ call[c].pc = "open" /\ mu = c /\ mu' = NoCall /\ UNCHANGED <<env, closed, lock>>
  BY DEF LocalLedger
<1>2. /\ call[c] \in CallType /\ Good(call[c], profile) /\ lock \in Calls \cup {NoCall}
      /\ ledger \in {"none", "open"} /\ handles = IF ledger = "open" THEN 1 ELSE 0
      /\ closed \in BOOLEAN /\ closed => ledger = "none"
  BY CallOf DEF IInv, Owned, HasHandle, TypeOK
<1>3. PICK ok \in BOOLEAN :
          /\ call' = [call EXCEPT ![c] = AfterLedger(call[c], ok)]
          /\ \/ MayOpen /\ ledger' = "open" /\ handles' = handles + 1
             \/ UNCHANGED <<ledger, handles>>
  <2>1. (HasHandle /\ ~closed) \in BOOLEAN
    BY DEF HasHandle
  <2> QED BY <2>1 DEF LocalLedger
<1> DEFINE r == AfterLedger(call[c], ok)
<1>4. r \in CallType /\ Good(r, profile)
  BY <1>1, <1>2, AfterLedgerGood
<1> HIDE DEF r
<1>5. /\ ledger' \in {"none", "open"} /\ handles' = IF ledger' = "open" THEN 1 ELSE 0
      /\ closed => ledger' = "none"
  <2>1. CASE MayOpen /\ ledger' = "open" /\ handles' = handles + 1
    <3>1. ~closed /\ handles = 0
      BY <1>2, <2>1 DEF MayOpen, HasHandle
    <3> QED BY <2>1, <3>1
  <2>2. CASE UNCHANGED <<ledger, handles>>
    <3>1. ledger' = ledger /\ handles' = handles
      BY <2>2
    <3> QED BY <1>2, <3>1
  <2> QED BY <1>3, <2>1, <2>2
<1>6. mu' # c
  BY <1>1, SessionAssumption
<1>7. call' = [call EXCEPT ![c] = r]
  BY <1>3 DEF r
<1> QED BY <1>1, <1>2, <1>4, <1>5, <1>6, <1>7, LedgerKeeps

LEMMA AbandonKeeps ==
    ASSUME IInv, NEW c \in Calls, Abandon(c)
    PROVE  IInv'
<1>1. /\ call[c].pc \in {"provider", "launch", "page", "cash", "open"}
      /\ lock' = (IF lock = c THEN NoCall ELSE lock)
      /\ mu' = (IF mu = c THEN NoCall ELSE mu)
      /\ UNCHANGED <<env, ledger, handles, closed>>
  BY DEF Abandon, Unlock, Released
<1>2. /\ call[c] \in CallType /\ Good(call[c], profile) /\ lock' \in Calls \cup {NoCall}
      /\ ledger \in {"none", "open"} /\ handles = IF ledger = "open" THEN 1 ELSE 0
      /\ closed => ledger = "none"
  BY <1>1, CallOf DEF IInv, Owned, HasHandle, TypeOK
<1>3. PICK a \in {"ok_with_warning", "cancelled"} :
          /\ call' = [call EXCEPT ![c] = Answered(call[c], a)]
          /\ call[c].tool # "products_search" => a = "cancelled"
  BY DEF Abandon, Answer
<1> DEFINE r == Answered(call[c], a)
<1>4. r \in CallType /\ Good(r, profile)
  BY <1>1, <1>2, <1>3, AnsweredGood
<1> HIDE DEF r
<1>5. mu' # c /\ (mu' = NoCall \/ (mu' = mu /\ mu # c))
  BY <1>1, SessionAssumption
<1>6. call' = [call EXCEPT ![c] = r]
  BY <1>3 DEF r
<1> QED BY <1>1, <1>2, <1>4, <1>5, <1>6, LedgerKeeps

LEMMA CloseKeeps ==
    ASSUME IInv, Close
    PROVE  IInv'
<1>1. /\ closed' = TRUE /\ ledger' = "none" /\ UNCHANGED <<env, mu, lock, call>>
      /\ handles' = IF HasHandle THEN handles - 1 ELSE handles
  BY DEF Close
<1>2. handles' = 0
  BY <1>1 DEF IInv, Owned
<1>3. TypeOK'
  BY <1>1, <1>2 DEF IInv, TypeOK, env
<1>4. Owned'
  BY <1>1, <1>2 DEF IInv, Owned, HasHandle
<1>5. call' = call /\ profile' = profile
  BY <1>1 DEF env
<1> QED BY <1>3, <1>4, <1>5 DEF IInv

-----------------------------------------------------------------------------
LEMMA InitIInv == Init => IInv
<1> SUFFICES ASSUME Init PROVE IInv
  OBVIOUS
<1>1. /\ Blank \in CallType /\ Blank.pc = "idle" /\ Blank.tool = "none"
      /\ Blank.answer = "none" /\ ~Blank.window
  BY DEF Blank, CallType
<1>2. call = [c \in Calls |-> Blank]
  BY DEF Init
<1> HIDE DEF Blank
<1>3. Good(Blank, profile)
  BY <1>1 DEF Good, Placed, Grounded, Claims, AllTools
<1>4. TypeOK
  <2>1. call \in [Calls -> CallType]
    BY <1>1, <1>2
  <2>2. site \in Sites /\ moves \in 0..MaxMoves /\ profile \in BOOLEAN
    BY SessionAssumption DEF Init
  <2>3. /\ mu \in Calls \cup {NoCall} /\ ledger \in {"none", "open"}
        /\ handles \in Nat /\ closed \in BOOLEAN /\ lock \in Calls \cup {NoCall}
    BY DEF Init
  <2> QED BY <2>1, <2>2, <2>3 DEF TypeOK, CallType
<1>5. Owned
  BY SessionAssumption DEF Init, Owned, HasHandle
<1> QED BY <1>2, <1>3, <1>4, <1>5 DEF IInv

LEMMA NextIInv == IInv /\ [Next]_vars => IInv'
<1> SUFFICES ASSUME IInv, [Next]_vars PROVE IInv'
  OBVIOUS
<1>1. ASSUME NEW c \in Calls, NEW t \in Tools, NEW ok \in BOOLEAN, Ask(c, t, ok)
      PROVE  IInv'
  BY <1>1, AskKeeps
<1>2. ASSUME NEW c \in Calls, BrowserStep(c)
      PROVE  IInv'
  BY <1>2, InspectKeeps, LaunchKeeps, RunFailsKeeps, StatusKeeps, RecoverKeeps,
     LoginCheckKeeps, LoginEndsKeeps, LoginVerifiedKeeps, SearchReadKeeps,
     PreviewReadKeeps, MembershipReadKeeps, CashReadKeeps DEF BrowserStep
<1>3. ASSUME NEW c \in Calls, LedgerStep(c)
      PROVE  IInv'
  BY <1>3, TakeMutexKeeps, LocalLedgerKeeps, UseKeeps, CostsKeeps DEF LedgerStep
<1>4. ASSUME NEW c \in Calls, Resolve(c) \/ PresentLink(c) \/ Abandon(c)
      PROVE  IInv'
  BY <1>4, ResolveKeeps, PresentLinkKeeps, AbandonKeeps
<1>5. ASSUME NEW c \in Calls, Approve(c)
      PROVE  IInv'
  <2>1. /\ site' \in Sites /\ moves' \in 0..MaxMoves /\ UNCHANGED <<profile, own, lock, call>>
    BY <1>5 DEF Approve, Sites, IInv, TypeOK
  <2> QED BY <2>1, SiteKeeps
<1>6. CASE SiteMoves
  <2>1. /\ site' \in Sites /\ moves' \in 0..MaxMoves /\ UNCHANGED <<profile, own, lock, call>>
    BY <1>6, SessionAssumption DEF SiteMoves, Sites, IInv, TypeOK
  <2> QED BY <2>1, SiteKeeps
<1>7. CASE UNCHANGED vars
  <2>1. /\ site' \in Sites /\ moves' \in 0..MaxMoves /\ UNCHANGED <<profile, own, lock, call>>
    BY <1>7 DEF vars, env, IInv, TypeOK
  <2> QED BY <2>1, SiteKeeps
<1> QED BY <1>1, <1>2, <1>3, <1>4, <1>5, <1>6, <1>7, CloseKeeps DEF Next, CallStep

-----------------------------------------------------------------------------
\* The strengthening that is inductive: where a call is and what its login or
\* its answer rests on, and who holds the mutex and the handle.
THEOREM Invariant == Spec => []IInv
BY InitIInv, NextIInv, PTL DEF Spec

\* Every variable keeps its type, the number of handles included.
THEOREM TypeCorrect == Spec => []TypeOK
<1>1. IInv => TypeOK
  BY DEF IInv
<1> QED BY <1>1, Invariant, PTL

\* No call shows a login page, claims a session or estimates a membership's
\* value on anything but what it has read itself (auth/service.go's Status,
\* Login and Recover; account/service.go's applyMembershipValue).
THEOREM SessionClaimsHold == Spec => []SessionClaims
<1>1. IInv => SessionClaims
  <2> SUFFICES ASSUME IInv, NEW c \in Calls
               PROVE  /\ LoginIsAskedFor(call[c]) /\ VerifiedIsRead(call[c])
                      /\ EstimateIsGrounded(call[c])
    BY DEF SessionClaims
  <2>1. Good(call[c], profile)
    BY CallOf
  <2>2. LoginIsAskedFor(call[c])
    BY <2>1 DEF Good, Placed, Grounded, RunsOf, LoginIsAskedFor
  <2>3. VerifiedIsRead(call[c])
    BY <2>1 DEF Good, Claims, VerifiedIsRead
  <2>4. Missing(Facts) = {"payments"}
    BY DEF Missing, Facts
  <2>5. EstimateIsGrounded(call[c])
    BY <2>1, <2>4 DEF Good, Claims, EstimateIsGrounded
  <2> QED BY <2>2, <2>3, <2>5
<1> QED BY <1>1, Invariant, PTL

\* One handle at most and none after the close, and the tools stay apart
\* (cli/camofox_mcp.go's mcpRuntime under its mutex).
THEOREM LedgerOwned == Spec => []LedgerIsOwned
<1>1. IInv => LedgerIsOwned
  <2> SUFFICES ASSUME IInv PROVE LedgerIsOwned
    OBVIOUS
  <2>1. handles = (IF HasHandle THEN 1 ELSE 0) /\ (closed => handles = 0)
    BY DEF IInv, Owned, HasHandle
  <2>2. ASSUME NEW c \in Calls
        PROVE  /\ call[c].tool = "orders_list" =>
                     call[c].answer \in {"none", "ok", "local_data_unavailable", "cancelled"}
               /\ call[c].tool \in {"products_search", "orders_preview"} =>
                     call[c].answer # "local_data_unavailable"
               /\ call[c].tool = "orders_preview" => mu # c
    BY CallOf DEF IInv, Owned, Good, Placed, Claims
  <2> QED BY <2>1, <2>2 DEF LedgerIsOwned
<1> QED BY <1>1, Invariant, PTL
=============================================================================

----------------------------- MODULE McpSession -----------------------------
(***************************************************************************)
(* The long-running server the program offers to an AI client, and the     *)
(* signed-in session its tools share.  Tool calls run concurrently.  Each   *)
(* resolves its own provider: a browser source from a configuration that is *)
(* read again for every call, and the one ledger handle the process opens   *)
(* on first need under a mutex and closes when it drains.  A browser read   *)
(* is one run of the dedicated profile, taken by a lock that refuses rather *)
(* than waits (CamofoxRun models the run itself; here it is one launch and  *)
(* one or two reads).                                                       *)
(*                                                                          *)
(* auth_status and auth_login_if_needed are auth/service.go's Status and    *)
(* Recover, `login --link' is the command line's Login with a presented QR  *)
(* link, account_benefits joins a live read with the ledger's membership    *)
(* costs, orders_preview is a live read that leaves the ledger alone,       *)
(* orders_list stands for the purely local tools, products_search for the   *)
(* ones that use the ledger only when they can.                             *)
(*                                                                          *)
(* Errors of the browser side are one answer, source_failed: the codes that *)
(* tell them apart are wording.                                             *)
(*                                                                          *)
(* The site answers as it pleases: a session expires, is denied, becomes    *)
(* unreadable and recovers between any two reads.  Mutated forms of the     *)
(* code, used only to check that the properties can fail: SurpriseRecovery, *)
(* OpenAgain and HeldThrough.                                               *)
(***************************************************************************)
EXTENDS Naturals, FiniteSets

CONSTANTS Calls,       \* the tool calls of one server session
          Tools,       \* the tools a run lets them ask for
          Pages,       \* what a membership page may show: sets of facts
          MaxMoves,    \* bound: changes of the site a run follows
          NoCall       \* nobody holds the mutex or the profile

AllTools == {"auth_status", "auth_login_if_needed", "login_link",
             "account_benefits", "orders_preview", "orders_list", "products_search"}

\* What the comparison of benefits and fees needs: the benefits, the months they
\* are of, the present fee, and a product of the last two that is an int64.
Facts == {"benefit", "window", "fee", "fits"}

ASSUME SessionAssumption ==
    /\ Tools \subseteq AllTools
    /\ Pages \subseteq SUBSET Facts
    /\ MaxMoves \in Nat
    /\ NoCall \notin Calls

VARIABLES
    site,      \* what the source would answer an authentication read now
    moves,     \* how often the site has changed (bounded by MaxMoves)
    profile,   \* the profile holds a saved storage state
    mu,        \* who holds the runtime's mutex
    ledger,    \* the runtime's handle: none or open
    handles,   \* handles open in the process
    closed,    \* the runtime has been closed
    lock,      \* who holds the profile
    call       \* the calls

env  == <<site, moves, profile>>
own  == <<mu, ledger, handles, closed>>
vars == <<env, own, lock, call>>

Sites   == {"signed_in", "signed_out", "denied", "unclear"}

Blank == [tool |-> "none", confirmed |-> FALSE, pc |-> "idle", program |-> "none",
          before |-> "none", seen |-> "none", window |-> FALSE, linked |-> FALSE,
          shown |-> {}, costs |-> "none", answer |-> "none"]

Programs == {"status", "precheck", "window", "recheck", "search", "preview", "benefits"}

TypeOK ==
    /\ site \in Sites /\ moves \in 0..MaxMoves /\ profile \in BOOLEAN
    /\ mu \in Calls \cup {NoCall} /\ ledger \in {"none", "open"}
    /\ handles \in Nat /\ closed \in BOOLEAN /\ lock \in Calls \cup {NoCall}
    /\ call \in [Calls ->
           [tool: AllTools \cup {"none"}, confirmed: BOOLEAN,
            pc: {"idle", "provider", "inspect", "launch", "page", "decide", "cash",
                 "costs", "ledger", "open", "use", "done"},
            program: Programs \cup {"none"},
            before: {"none", "not_configured", "verified", "unverified", "access_blocked"},
            seen: Sites \cup {"none"}, window: BOOLEAN, linked: BOOLEAN,
            shown: SUBSET Facts, costs: {"none", "unavailable", "read"},
            answer: {"none", "verified", "unverified", "access_blocked",
                     "not_configured", "ok", "ok_with_warning", "estimated",
                     "not_computed", "source_failed", "local_data_unavailable",
                     "cancelled"}]]

NeedsLedger(t) == t \in {"orders_list", "account_benefits"}
Active == {c \in Calls : call[c].pc \notin {"idle", "done"}}

Init ==
    /\ site \in Sites /\ moves = 0
    /\ profile \in BOOLEAN
    /\ mu = NoCall /\ ledger = "none" /\ handles = 0 /\ closed = FALSE
    /\ lock = NoCall
    /\ call = [c \in Calls |-> Blank]

-----------------------------------------------------------------------------
\* The end of a call's wait at one point and its next one; a call that ends
\* gives the profile back with its run.
Goto(c, pc)         == call' = [call EXCEPT ![c].pc = pc]
Run(c, program)     == call' = [call EXCEPT ![c].pc = "launch", ![c].program = program]
Answered(r, a)      == [r EXCEPT !.pc = "done", !.program = "none", !.answer = a]
Answer(c, a)        == call' = [call EXCEPT ![c] = Answered(@, a)]
Unlock(c)           == lock' = IF lock = c THEN NoCall ELSE lock

\* A request passes the tool's schema and validation; the command line builds
\* its source beside the server's.
Ask(c, t, confirmed) ==
    /\ call[c].pc = "idle" /\ ~closed
    /\ t = "auth_login_if_needed" \/ ~confirmed
    /\ call' = [call EXCEPT ![c] = [Blank EXCEPT !.tool = t, !.confirmed = confirmed,
                                                 !.pc = "provider"]]
    /\ UNCHANGED <<env, own, lock>>

\* The factory: a source tool reads the configuration again, and finds it or
\* not; a local tool never looks; then the ledger if the tool cannot do without it.
Resolve(c) ==
    LET t == call[c].tool
    IN  /\ call[c].pc = "provider"
        /\ \/ t # "orders_list" /\ Answer(c, "source_failed")
           \/ CASE NeedsLedger(t)          -> Goto(c, "ledger")
                [] t = "login_link"        -> Run(c, "precheck")
                [] t = "products_search"   -> Run(c, "search")
                [] t = "orders_preview"    -> Run(c, "preview")
                [] OTHER                   -> Goto(c, "inspect")
        /\ UNCHANGED <<env, own, lock>>

\* Local files only: is there a runtime, is there a saved state.
Inspect(c) ==
    /\ call[c].pc = "inspect"
    /\ IF profile THEN Run(c, "status")
       ELSE call' = [call EXCEPT ![c].pc = "decide", ![c].before = "not_configured"]
    /\ UNCHANGED <<env, own, lock>>

\* One run of the profile begins.  A profile in use refuses at once, and so does
\* a runtime whose files are gone, with a profile free or not.
Launch(c) ==
    /\ call[c].pc = "launch"
    /\ \/ Answer(c, "source_failed") /\ UNCHANGED lock
       \/ /\ lock = NoCall
          /\ lock' = c
          /\ call' = [call EXCEPT ![c].pc = "page",
                        ![c].window = @ \/ call[c].program = "window"]
    /\ UNCHANGED <<env, own>>

\* The run fails, times out, is cancelled or answers something unreadable.
RunFails(c) ==
    /\ call[c].pc \in {"page", "cash"}
    /\ Answer(c, "source_failed")
    /\ lock' = NoCall
    /\ UNCHANGED <<env, own>>

\* What a verification makes of the page it read.
AuthState(s) == CASE s = "signed_in"  -> "verified"
                  [] s = "signed_out" -> "unverified"
                  [] s = "denied"     -> "access_blocked"
                  [] OTHER            -> "unavailable"

\* Status keeps three of the four outcomes as results; the fourth is an error.
Status(c) ==
    LET s == AuthState(site)
    IN  /\ call[c].pc = "page" /\ call[c].program = "status"
        /\ lock' = NoCall
        /\ call' = [call EXCEPT ![c] =
              IF s = "unavailable" THEN Answered(@, "source_failed")
              ELSE [@ EXCEPT !.pc = "decide", !.before = s, !.seen = site]]
        /\ UNCHANGED <<env, own>>

\* Recover after its quiet check: a session that is verified or blocked is
\* answered as it is, anything else needs the caller's confirmation.
SurpriseRecovery(r) ==
    IF r.before = "verified" THEN Answered(r, r.before)
    ELSE IF ~r.confirmed THEN Answered(r, "source_failed")
    ELSE [r EXCEPT !.pc = "launch", !.program = "precheck"]

Recovered(r) ==
    IF r.before \in {"verified", "access_blocked"} THEN Answered(r, r.before)
    ELSE IF ~r.confirmed THEN Answered(r, "source_failed")
    ELSE [r EXCEPT !.pc = "launch", !.program = "precheck"]

Recover(c) ==
    /\ call[c].pc = "decide"
    /\ call' = [call EXCEPT ![c] = IF @.tool = "auth_status" THEN Answered(@, @.before)
                                   ELSE Recovered(@)]
    /\ UNCHANGED <<env, own, lock>>

\* Login looks again before it opens anything: signed in is success, anything
\* but a missing session is the error it is.
LoginCheck(c) ==
    LET s == AuthState(site)
    IN  /\ call[c].pc = "page" /\ call[c].program = "precheck"
        /\ lock' = NoCall
        /\ call' = [call EXCEPT ![c] =
              CASE s = "unverified" -> [@ EXCEPT !.pc = "launch", !.program = "window", !.seen = site]
                [] s = "verified"   -> Answered([@ EXCEPT !.seen = site], "verified")
                [] OTHER            -> Answered(@, "source_failed")]
        /\ UNCHANGED <<env, own>>

\* In link mode the page shows a QR code once; the decoded link is presented
\* only if it is the site's own.
PresentLink(c) ==
    /\ call[c].pc = "page" /\ call[c].program = "window"
    /\ call[c].tool = "login_link" /\ ~call[c].linked
    /\ site = "signed_out"
    /\ \/ call' = [call EXCEPT ![c].linked = TRUE] /\ UNCHANGED lock
       \/ Answer(c, "source_failed") /\ lock' = NoCall
    /\ UNCHANGED <<env, own>>

\* The person signs in while a window or a presented link is there to use.
Approve(c) ==
    /\ call[c].pc = "page" /\ call[c].program = "window"
    /\ call[c].tool = "login_link" => call[c].linked
    /\ site = "signed_out"
    /\ site' = "signed_in"
    /\ UNCHANGED <<moves, profile, own, lock, call>>

\* The login run ends: signed in saves the profile and a new run verifies it; a
\* refusal, an expired code or four minutes without approval is an error.
LoginEnds(c) ==
    /\ call[c].pc = "page" /\ call[c].program = "window"
    /\ \/ /\ site = "signed_in"
          /\ profile' = TRUE
          /\ Run(c, "recheck")
       \/ /\ site # "signed_in"
          /\ Answer(c, "source_failed")
          /\ UNCHANGED profile
    /\ lock' = NoCall
    /\ UNCHANGED <<site, moves, own>>

LoginVerified(c) ==
    /\ call[c].pc = "page" /\ call[c].program = "recheck"
    /\ lock' = NoCall
    /\ call' = [call EXCEPT ![c] =
          Answered([@ EXCEPT !.seen = site],
                   IF site = "signed_in" THEN "verified" ELSE "source_failed")]
    /\ UNCHANGED <<env, own>>

-----------------------------------------------------------------------------
\* A search is public: only a denial stops it.
SearchRead(c) ==
    /\ call[c].pc = "page" /\ call[c].program = "search"
    /\ lock' = NoCall
    /\ IF site = "denied" THEN Answer(c, "source_failed") ELSE Goto(c, "ledger")
    /\ UNCHANGED <<env, own>>

\* The entry page of the orders: read, and neither stored nor compared with the
\* ledger.
PreviewRead(c) ==
    /\ call[c].pc = "page" /\ call[c].program = "preview"
    /\ lock' = NoCall
    /\ Answer(c, IF site = "signed_in" THEN "ok" ELSE "source_failed")
    /\ UNCHANGED <<env, own>>

\* Two documents under one run: membership, then cash.  The session can go
\* between them, and then the whole read fails.
MembershipRead(c) ==
    /\ call[c].pc = "page" /\ call[c].program = "benefits"
    /\ IF site = "signed_in"
       THEN /\ \E shown \in Pages : call' = [call EXCEPT ![c].pc = "cash", ![c].shown = shown]
            /\ UNCHANGED lock
       ELSE Answer(c, "source_failed") /\ lock' = NoCall
    /\ UNCHANGED <<env, own>>

CashRead(c) ==
    /\ call[c].pc = "cash"
    /\ IF site = "signed_in" THEN Goto(c, "costs") ELSE Answer(c, "source_failed")
    /\ lock' = NoCall
    /\ UNCHANGED <<env, own>>

HasHandle == ledger = "open"

\* applyMembershipValue: the benefits less the present fee for as many months; the
\* charges in the ledger are not in it, and always named as missing.
Missing(shown) == (Facts \ (shown \cup {"fits"})) \cup {"payments"}
NetValue(shown) == IF shown = Facts THEN "estimated" ELSE "not_computed"

\* The charges the ledger holds stand beside, of a history that is never known to
\* be complete; a ledger that cannot be read any more is a warning.
Costs(c) ==
    /\ call[c].pc = "costs"
    /\ \E costs \in {"unavailable"} \cup {x \in {"read"} : HasHandle} :
          call' = [call EXCEPT ![c] =
              Answered([@ EXCEPT !.costs = costs], NetValue(@.shown))]
    /\ UNCHANGED <<env, own, lock>>

-----------------------------------------------------------------------------
\* The mutex around the handle is held across the open itself.
TakeMutex(c) ==
    /\ call[c].pc = "ledger" /\ mu = NoCall
    /\ mu' = c
    /\ Goto(c, "open")
    /\ UNCHANGED <<env, ledger, handles, closed, lock>>

OpenAgain == ~HasHandle

MayOpen == ~closed /\ ~HasHandle

\* With a ledger: the local tool reads it, the benefits tool goes to its live
\* read, the search records the prices it saw.  Without one: the local tools
\* fail and may be tried again, the search answers with a warning.
AfterLedger(r, ok) ==
    IF ok THEN IF r.tool = "account_benefits"
               THEN [r EXCEPT !.pc = "launch", !.program = "benefits"]
               ELSE [r EXCEPT !.pc = "use"]
    ELSE Answered(r, IF r.tool = "products_search" THEN "ok_with_warning"
                     ELSE "local_data_unavailable")

LocalLedger(c) ==
    /\ call[c].pc = "open" /\ mu = c
    /\ mu' = NoCall
    /\ \/ /\ MayOpen
          /\ ledger' = "open" /\ handles' = handles + 1
          /\ call' = [call EXCEPT ![c] = AfterLedger(@, TRUE)]
       \/ /\ call' = [call EXCEPT ![c] = AfterLedger(@, HasHandle /\ ~closed)]
          /\ UNCHANGED <<ledger, handles>>
    /\ UNCHANGED <<env, closed, lock>>

Use(c) ==
    /\ call[c].pc = "use"
    /\ Answer(c, IF HasHandle THEN "ok"
                 ELSE IF call[c].tool = "products_search" THEN "ok_with_warning"
                 ELSE "local_data_unavailable")
    /\ UNCHANGED <<env, own, lock>>

\* The client gives a call up.  Its context is looked at in all these places;
\* the wait for the mutex itself cannot be given up.
HeldThrough == FALSE

Released == TRUE

Abandon(c) ==
    /\ call[c].pc \in {"provider", "launch", "page", "cash", "open"}
    /\ Answer(c, IF call[c].tool = "products_search" /\ call[c].pc = "open"
                 THEN "ok_with_warning" ELSE "cancelled")
    /\ Unlock(c)
    /\ mu' = IF mu = c /\ Released THEN NoCall ELSE mu
    /\ UNCHANGED <<env, ledger, handles, closed>>

\* The server has stopped and its owner closes; a call that comes for the
\* ledger afterwards is refused.
Close ==
    /\ ~closed /\ mu = NoCall
    /\ closed' = TRUE
    /\ ledger' = "none"
    /\ handles' = IF HasHandle THEN handles - 1 ELSE handles
    /\ UNCHANGED <<env, mu, lock, call>>

-----------------------------------------------------------------------------
\* Everything the server does not decide.
SiteMoves ==
    /\ moves < MaxMoves
    /\ \E s \in Sites \ {site} : site' = s
    /\ moves' = moves + 1
    /\ UNCHANGED <<profile, own, lock, call>>

BrowserStep(c) ==
    \/ Inspect(c) \/ Launch(c) \/ RunFails(c) \/ Status(c) \/ Recover(c) \/ LoginCheck(c)
    \/ LoginEnds(c) \/ LoginVerified(c) \/ SearchRead(c) \/ PreviewRead(c)
    \/ MembershipRead(c) \/ CashRead(c)

LedgerStep(c) == TakeMutex(c) \/ LocalLedger(c) \/ Use(c) \/ Costs(c)

CallStep(c) == Resolve(c) \/ BrowserStep(c) \/ LedgerStep(c)

Next ==
    \/ \E c \in Calls : \/ \E t \in Tools, ok \in BOOLEAN : Ask(c, t, ok)
                        \/ CallStep(c) \/ PresentLink(c) \/ Approve(c) \/ Abandon(c)
    \/ Close \/ SiteMoves

\* The mutex is Go's, which does not starve a waiter; a run has its timeout.
Fairness == \A c \in Calls : /\ WF_vars(Resolve(c) \/ BrowserStep(c))
                             /\ WF_vars(LocalLedger(c) \/ Use(c) \/ Costs(c))
                             /\ SF_vars(TakeMutex(c))

Spec == Init /\ [][Next]_vars /\ Fairness
-----------------------------------------------------------------------------
\* A login page is in front of the user only in a call that has just read the
\* session as gone; a recovery gets there only with the caller's confirmation
\* and only if its own quiet check found no profile or an expired session, never
\* a blocked one.  A call that answers "verified" has itself read a signed-in
\* session, after any login it ran, and a login that ran has saved the profile.
\* And an estimate of what a membership is worth names nothing as missing but the
\* actual payments, whether or not the ledger could still be read after the page.
LoginIsAskedFor(r) ==
    r.pc = "page" /\ r.program = "window" =>
        /\ r.seen = "signed_out"
        /\ r.tool # "auth_status"
        /\ r.tool = "auth_login_if_needed" =>
              r.confirmed /\ r.before \in {"not_configured", "unverified"}

VerifiedIsRead(r) ==
    r.answer = "verified" => r.seen = "signed_in" /\ (r.window => profile)

EstimateIsGrounded(r) ==
    r.answer = "estimated" => Missing(r.shown) = {"payments"} /\ r.costs # "none"

SessionClaims == \A c \in Calls :
    LoginIsAskedFor(call[c]) /\ VerifiedIsRead(call[c]) /\ EstimateIsGrounded(call[c])

\* The process holds one ledger handle at most, and none once its runtime has
\* closed, however late a call comes for it; a local tool never fails for the
\* browser's sake, a product search never for the ledger's, and a preview has
\* nothing to do with the ledger.
LedgerIsOwned ==
    /\ handles = IF HasHandle THEN 1 ELSE 0
    /\ closed => handles = 0
    /\ \A c \in Calls :
         /\ call[c].tool = "orders_list" =>
               call[c].answer \in {"none", "ok", "local_data_unavailable", "cancelled"}
         /\ call[c].tool \in {"products_search", "orders_preview"} =>
               call[c].answer # "local_data_unavailable"
         /\ call[c].tool = "orders_preview" => mu # c

\* Every tool call is answered: nothing leaves the mutex or the profile behind,
\* whichever way the call that held it ended.
CallsAnswered == \A c \in Calls : (c \in Active) ~> (call[c].pc = "done")
=============================================================================

----------------------------- MODULE CamofoxRun -----------------------------
(***************************************************************************)
(* One Camofox request after another on one browser profile:               *)
(* internal/browser/camofox.go (runProgram), camofox_runner.mjs and        *)
(* profile_lock_unix.go.                                                   *)
(*                                                                         *)
(* A request is three processes: the caller, the Node runner it starts and *)
(* the server the runner starts, joined by a pipe of output lines, signals *)
(* and exits.  A step is what one of them does between two waits; the      *)
(* runner is single-threaded, so its signal handler runs between steps.    *)
(* A slot is reused when nothing of its last request is left.  The scripts *)
(* and what they read are left out, and the server is an external program. *)
(*                                                                         *)
(* NoLock, AnyEnding, NeverKills, NeverKilled and NotWatched are not used  *)
(* by the specification: each is a plausible mistake in the operator next  *)
(* to it.                                                                  *)
(***************************************************************************)
EXTENDS Sequences, FiniteSets

CONSTANTS
    Slot,       \* concurrent requests for the profile
    Mode,       \* kinds of request: subset of {"read", "login_link"}
    Faults,     \* what may go wrong: subset of {"crash", "stuck"}
    NoOne       \* nobody holds the profile lock

ASSUME CamofoxAssumption ==
    /\ Mode # {} /\ Mode \subseteq {"read", "login_link"}
    /\ NoOne \notin Slot

VARIABLES
    holder,     \* of the flock on .coupangctl.lock
    call,       \* locals of runProgram
    runner,     \* locals of the runner
    server,     \* the server process of the runner
    pipe        \* lines on the runner's standard output, not read yet

vars == <<holder, call, runner, server, pipe>>

-----------------------------------------------------------------------------

\* live: the context has not ended; signalled: the watcher of exec.Cmd has
\* interrupted the runner; broken: readErr; got: result.
Call == [pc: {"none", "read", "wait"}, mode: Mode, live: BOOLEAN,
         signalled: BOOLEAN, presented: BOOLEAN, got: BOOLEAN, broken: BOOLEAN,
         outcome: {"none", "ok", "profile_in_use", "canceled", "failed"}]

\* parent: whose process id process.ppid is, the caller's, that of process 1 or that
\* of a reaper; signal: one is pending; stop: how far the memoised stop() is;
\* failed: shutdownFailed; stuck: the event loop does not run any more.
Runner == [pc: {"none", "config", "setup", "boot", "script", "stop", "cleanup",
                "exited"},
           parent: {"caller", "process_1", "reaper"},
           signal: BOOLEAN, cancelled: BOOLEAN, stop: {"no", "begun", "done"},
           failed: BOOLEAN, qr: BOOLEAN, result: BOOLEAN, stuck: BOOLEAN,
           ok: BOOLEAN]

\* "clean" is exit code 0 with the profile saved, "unsaved" exit code 0 after
\* "failed to persist storage state", "dirty" any other end.
Server == {"none", "running", "terminating", "clean", "unsaved", "dirty"}

Line == {"qr", "result"}

NewCall(pc, mode) ==
    [pc |-> pc, mode |-> mode, live |-> TRUE, signalled |-> FALSE,
     presented |-> FALSE, got |-> FALSE, broken |-> FALSE, outcome |-> "none"]

NewRunner(pc) ==
    [pc |-> pc, parent |-> "caller", signal |-> FALSE, cancelled |-> FALSE, stop |-> "no",
     failed |-> FALSE, qr |-> FALSE, result |-> FALSE, stuck |-> FALSE, ok |-> FALSE]

AnyMode == CHOOSE m \in Mode : TRUE

Up(c) == server[c] \in {"running", "terminating"}
RunnerUp(c) == runner[c].pc \notin {"none", "exited"}

\* The caller's process is gone while its runner is not.
Orphan(c) == call[c].pc = "none" /\ RunnerUp(c)

Init ==
    /\ holder = NoOne
    /\ call = [c \in Slot |-> NewCall("none", AnyMode)]
    /\ runner = [c \in Slot |-> NewRunner("none")]
    /\ server = [c \in Slot |-> "none"]
    /\ pipe = [c \in Slot |-> <<>>]

CallBecomes(c, l) == call' = [call EXCEPT ![c] = l]
RunnerBecomes(c, l) == runner' = [runner EXCEPT ![c] = l]
ServerBecomes(c, state) == server' = [server EXCEPT ![c] = state]

\* The runner c as it is once a signal has been sent to it.
Signalled(c) == [runner[c] EXCEPT !.signal = RunnerUp(c)]

-----------------------------------------------------------------------------
(* The caller.                                                             *)

NoLock == TRUE
LockFree == holder = NoOne

\* acquireProfileLock and cmd.Start.
Start(c) ==
    /\ call[c].pc = "none" /\ ~RunnerUp(c) /\ ~Up(c)
    /\ LockFree
    /\ \E m \in Mode : CallBecomes(c, NewCall("read", m))
    /\ RunnerBecomes(c, NewRunner("config"))
    /\ ServerBecomes(c, "none")
    /\ holder' = c
    /\ UNCHANGED pipe

\* ErrProfileInUse, or the runner cannot be started.
StartRefused(c) ==
    /\ call[c].pc = "none" /\ ~RunnerUp(c) /\ ~Up(c)
    /\ \E outcome \in IF LockFree THEN {"failed"} ELSE {"profile_in_use"} :
           CallBecomes(c, [NewCall("none", AnyMode) EXCEPT !.outcome = outcome])
    /\ UNCHANGED <<holder, runner, server, pipe>>

\* consumeCamofoxOutput gives up: the runner is interrupted and waited for.
Break(c) ==
    /\ CallBecomes(c, [call[c] EXCEPT !.pc = "wait", !.broken = TRUE])
    /\ RunnerBecomes(c, Signalled(c))

\* One line.  A link is presented once, only to a presenter, before the result;
\* it may be malformed, or the presenter may fail.
ReadLine(c) ==
    /\ call[c].pc = "read"
    /\ pipe[c] # <<>>
    /\ pipe' = [pipe EXCEPT ![c] = Tail(@)]
    /\ \/ (~call[c].live \/ Head(pipe[c]) = "qr") /\ Break(c)
       \/ /\ call[c].live
          /\ Head(pipe[c]) = "qr"
          /\ call[c].mode = "login_link" /\ ~call[c].presented /\ ~call[c].got
          /\ CallBecomes(c, [call[c] EXCEPT !.presented = TRUE])
          /\ UNCHANGED runner
       \/ /\ call[c].live
          /\ Head(pipe[c]) = "result"
          /\ IF call[c].got THEN Break(c)
             ELSE CallBecomes(c, [call[c] EXCEPT !.got = TRUE]) /\ UNCHANGED runner
    /\ UNCHANGED <<holder, server>>

\* The output ends with the runner; without a result that is an error.
ReadEnd(c) ==
    /\ call[c].pc = "read"
    /\ pipe[c] = <<>>
    /\ runner[c].pc = "exited"
    /\ CallBecomes(c, [call[c] EXCEPT !.pc = "wait", !.broken = ~call[c].got])
    /\ UNCHANGED <<holder, runner, server, pipe>>

\* cmd.Wait returns, and the profile lock is released.  An envelope with a
\* runtime error is a failure too.
WaitReturns(c) ==
    /\ call[c].pc = "wait"
    /\ runner[c].pc = "exited"
    /\ \E outcome \in IF ~call[c].live THEN {"canceled"}
                      ELSE IF call[c].broken \/ ~runner[c].ok THEN {"failed"}
                      ELSE {"ok", "failed"} :
           CallBecomes(c, [NewCall("none", AnyMode) EXCEPT !.outcome = outcome])
    /\ holder' = NoOne
    /\ pipe' = [pipe EXCEPT ![c] = <<>>]
    /\ UNCHANGED <<runner, server>>

\* The caller cancels, or a deadline passes.
EndContext(c) ==
    /\ call[c].pc # "none"
    /\ call[c].live
    /\ CallBecomes(c, [call[c] EXCEPT !.live = FALSE])
    /\ UNCHANGED <<holder, runner, server, pipe>>

\* exec.Cmd's watcher calls cmd.Cancel ...
Interrupt(c) ==
    /\ call[c].pc # "none"
    /\ ~call[c].live /\ ~call[c].signalled
    /\ CallBecomes(c, [call[c] EXCEPT !.signalled = TRUE])
    /\ RunnerBecomes(c, Signalled(c))
    /\ UNCHANGED <<holder, server, pipe>>

\* ... and kills the runner WaitDelay later: twelve seconds, by which time a
\* runner whose event loop runs has stopped its server, which takes eight.
NeverKilled(c) == FALSE
WaitDelayOver(c) == call[c].signalled /\ (runner[c].stuck \/ ~Up(c))

Kill(c) ==
    /\ call[c].pc # "none"
    /\ RunnerUp(c)
    /\ WaitDelayOver(c)
    /\ RunnerBecomes(c, [NewRunner("exited") EXCEPT !.ok = FALSE])
    /\ UNCHANGED <<holder, call, server, pipe>>

\* A runner without its caller gets another parent: process 1, or the nearest
\* ancestor that adopts orphans (a child subreaper, as a user's service manager is).
Adopted(c) ==
    IF RunnerUp(c)
    THEN \E p \in {"process_1", "reaper"} :
             RunnerBecomes(c, [runner[c] EXCEPT !.parent = p])
    ELSE UNCHANGED runner

\* The caller's process exits: the lock is gone, and the pipe has no reader.
Crash(c) ==
    /\ "crash" \in Faults
    /\ call[c].pc # "none"
    /\ CallBecomes(c, NewCall("none", AnyMode))
    /\ holder' = NoOne
    /\ pipe' = [pipe EXCEPT ![c] = <<>>]
    /\ Adopted(c)
    /\ UNCHANGED server

-----------------------------------------------------------------------------
(* The runner.                                                             *)

\* It is at this stage and its event loop runs.
At(c, stage) == runner[c].pc = stage /\ ~runner[c].stuck

Exited(ok) == [NewRunner("exited") EXCEPT !.ok = ok]

\* stop(): begun once there is a server, and only once.
Stopping(c, l) == [l EXCEPT !.stop = IF server[c] # "none" /\ @ = "no" THEN "begun" ELSE @]
Terminated(c) == IF server[c] = "running" THEN "terminating" ELSE server[c]

\* Standard input is read to its end.  Signals still have their default effect.
ReadConfig(c) ==
    /\ At(c, "config")
    /\ \/ ~runner[c].signal /\ RunnerBecomes(c, [runner[c] EXCEPT !.pc = "setup"])
       \/ RunnerBecomes(c, Exited(FALSE))
    /\ UNCHANGED <<holder, call, server, pipe>>

\* catch and finally: an exit code of 1 after stop().
Throw(c) ==
    /\ RunnerBecomes(c, Stopping(c, [runner[c] EXCEPT !.pc = "cleanup"]))
    /\ ServerBecomes(c, Terminated(c))

\* The runtime is complete, and no cancellation came before the server is
\* spawned in the same turn; the spawn itself may fail.
Spawn(c) ==
    /\ At(c, "setup")
    /\ ~runner[c].cancelled
    /\ RunnerBecomes(c, [runner[c] EXCEPT !.pc = "boot"])
    /\ \E state \in {"running", "dirty"} : ServerBecomes(c, state)
    /\ UNCHANGED <<holder, call, pipe>>

\* The health check answers and the persistence plugin is loaded.
Ready(c) ==
    /\ At(c, "boot")
    /\ ~runner[c].cancelled /\ ~runner[c].failed /\ server[c] = "running"
    /\ RunnerBecomes(c, [runner[c] EXCEPT !.pc = "script"])
    /\ UNCHANGED <<holder, call, server, pipe>>

\* A file is missing, the spawn is refused, the server does not get ready, or
\* an API call of the script fails.
RunFails(c) ==
    /\ At(c, "setup") \/ At(c, "boot") \/ At(c, "script")
    /\ Throw(c)
    /\ UNCHANGED <<holder, call, pipe>>

\* The one line that is not held back.  Without a reader the write raises an
\* error nobody handles, and the runner dies as it is.
SendQR(c) ==
    /\ At(c, "script")
    /\ call[c].mode = "login_link"
    /\ ~runner[c].qr /\ ~runner[c].result
    /\ \/ /\ ~Orphan(c)
          /\ pipe' = [pipe EXCEPT ![c] = Append(@, "qr")]
          /\ RunnerBecomes(c, [runner[c] EXCEPT !.qr = TRUE])
       \/ /\ Orphan(c)
          /\ RunnerBecomes(c, Exited(FALSE))
          /\ UNCHANGED pipe
    /\ UNCHANGED <<holder, call, server>>

\* The script logs its sole result, which is buffered.
SetResult(c) ==
    /\ At(c, "script")
    /\ ~runner[c].result
    /\ RunnerBecomes(c, [runner[c] EXCEPT !.result = TRUE])
    /\ UNCHANGED <<holder, call, server, pipe>>

EndScript(c) ==
    /\ At(c, "script")
    /\ RunnerBecomes(c, Stopping(c, [runner[c] EXCEPT !.pc = "stop"]))
    /\ ServerBecomes(c, Terminated(c))
    /\ UNCHANGED <<holder, call, pipe>>

\* What is checked when the script has ended and the server is down.
AnyEnding(c) == runner[c].result
GoodEnding(c) == ~runner[c].cancelled /\ ~runner[c].failed /\ runner[c].result

PrintResult(c) ==
    /\ At(c, "stop")
    /\ runner[c].stop = "done"
    /\ pipe' = IF GoodEnding(c) /\ ~Orphan(c)
               THEN [pipe EXCEPT ![c] = Append(@, "result")] ELSE pipe
    /\ RunnerBecomes(c, Exited(GoodEnding(c)))
    /\ UNCHANGED <<holder, call, server>>

\* await stop() in finally.
StopAwaited(c) == server[c] = "none" \/ runner[c].stop = "done"

Cleanup(c) ==
    /\ At(c, "cleanup")
    /\ StopAwaited(c)
    /\ RunnerBecomes(c, Exited(FALSE))
    /\ UNCHANGED <<holder, call, server, pipe>>

\* Cancellation from outside, as both the handler and the parent watch do it.
CancelRun(c) ==
    /\ RunnerBecomes(c, Stopping(c, [runner[c] EXCEPT !.signal = FALSE,
                                                      !.cancelled = TRUE]))
    /\ ServerBecomes(c, Terminated(c))
    /\ UNCHANGED <<holder, call, pipe>>

HandleSignal(c) ==
    /\ RunnerUp(c) /\ ~At(c, "config") /\ ~runner[c].stuck
    /\ runner[c].signal
    /\ CancelRun(c)

\* process.ppid===1, which is all the runner sees of its caller.
NotWatched(c) == FALSE
ParentGone(c) == runner[c].parent = "process_1"

WatchParent(c) ==
    /\ At(c, "setup") \/ At(c, "boot") \/ At(c, "script") \/ At(c, "stop")
    /\ ~runner[c].cancelled
    /\ ParentGone(c)
    /\ CancelRun(c)

\* The server's streams have closed: stop() looks at how it ended.
ServerClosed(c) ==
    /\ RunnerUp(c) /\ ~runner[c].stuck
    /\ runner[c].stop = "begun" /\ ~Up(c)
    /\ RunnerBecomes(c, [runner[c] EXCEPT !.stop = "done",
                                          !.failed = @ \/ server[c] # "clean"])
    /\ UNCHANGED <<holder, call, server, pipe>>

\* A line of its log says that the persistence plugin or a save has failed, or
\* is too long to be looked at.
LogFailure(c) ==
    /\ Up(c) /\ RunnerUp(c) /\ ~runner[c].stuck
    /\ RunnerBecomes(c, [runner[c] EXCEPT !.failed = TRUE])
    /\ UNCHANGED <<holder, call, server, pipe>>

\* Eight seconds after SIGTERM the server gets SIGKILL.
NeverKills(c) == FALSE
GraceOver(c) == runner[c].stop = "begun" /\ server[c] = "terminating"

KillServer(c) ==
    /\ RunnerUp(c) /\ ~runner[c].stuck
    /\ GraceOver(c)
    /\ RunnerBecomes(c, [runner[c] EXCEPT !.failed = TRUE])
    /\ ServerBecomes(c, "dirty")
    /\ UNCHANGED <<holder, call, pipe>>

\* The event loop stops turning.
Hang(c) ==
    /\ "stuck" \in Faults
    /\ RunnerUp(c) /\ ~runner[c].stuck
    /\ RunnerBecomes(c, [runner[c] EXCEPT !.stuck = TRUE])
    /\ UNCHANGED <<holder, call, server, pipe>>

-----------------------------------------------------------------------------
(* The server.                                                             *)

ServerFails(c) ==
    /\ Up(c)
    /\ ServerBecomes(c, "dirty")
    /\ UNCHANGED <<holder, call, runner, pipe>>

\* SIGTERM: it saves the profile, or logs that it could not, and exits.
ServerShutsDown(c) ==
    /\ server[c] = "terminating"
    /\ \E state \in {"clean", "unsaved"} : ServerBecomes(c, state)
    /\ UNCHANGED <<holder, call, runner, pipe>>

-----------------------------------------------------------------------------

CallStep(c) ==
    ReadLine(c) \/ ReadEnd(c) \/ WaitReturns(c) \/ Interrupt(c) \/ Kill(c)

\* What the runner does without anybody's help.
RunnerStep(c) ==
    \/ ReadConfig(c) \/ Spawn(c) \/ Ready(c) \/ RunFails(c)
    \/ PrintResult(c) \/ Cleanup(c)
    \/ HandleSignal(c) \/ WatchParent(c) \/ ServerClosed(c) \/ KillServer(c)

Next ==
    \E c \in Slot :
        \/ Start(c) \/ StartRefused(c) \/ EndContext(c) \/ Crash(c)
        \/ CallStep(c)
        \/ RunnerStep(c) \/ SendQR(c) \/ SetResult(c) \/ EndScript(c) \/ Hang(c)
        \/ LogFailure(c) \/ ServerFails(c) \/ ServerShutsDown(c)

Spec == Init /\ [][Next]_vars

\* The caller and the runner keep running, and their timers fire.  A script is
\* only relied on to fail when its run is cancelled, for then every API call
\* does; nothing is assumed of the server.
FairSpec ==
    /\ Spec
    /\ \A c \in Slot :
           /\ WF_vars(CallStep(c))
           /\ WF_vars(runner[c].pc # "script" /\ RunnerStep(c))
           /\ WF_vars(runner[c].pc = "script" /\ runner[c].cancelled /\ RunnerStep(c))
           /\ WF_vars(HandleSignal(c) \/ WatchParent(c))

-----------------------------------------------------------------------------
(* Properties.                                                             *)

\* Every variable keeps the type of its process or Go value; a server is
\* terminating only on behalf of a stop() that has begun, and stop() is done only
\* when the server is down.
TypeOK ==
    /\ holder \in Slot \cup {NoOne}
    /\ call \in [Slot -> Call]
    /\ runner \in [Slot -> Runner]
    /\ server \in [Slot -> Server]
    /\ pipe \in [Slot -> Seq(Line)]
    /\ \A c \in Slot : RunnerUp(c) =>
           /\ server[c] = "terminating" => runner[c].stop = "begun"
           /\ runner[c].stop = "done" => ~Up(c)

\* "A cross-platform non-blocking lock returns profile_in_use instead of racing
\* the profile" (HANDOFF.md): whatever is cancelled, refused, failing or late,
\* no two servers have the profile open.
OneServerPerProfile == \A c, d \in Slot : Up(c) /\ Up(d) => c = d

\* "Buffer its sole result until graceful shutdown/persistence succeeds": a call
\* that returns a result has left a saved profile behind, so a login reported as
\* done survives, and no cancelled or killed run is reported as done.
ResultMeansPersisted ==
    \A c \in Slot : call[c].outcome = "ok" => server[c] = "clean"

\* A call whose context has ended returns and releases the profile, even if the
\* runner hangs and the server ignores SIGTERM.
EndedCallsReturn ==
    \A c \in Slot : (call[c].pc # "none" /\ ~call[c].live) ~> call[c].pc = "none"

\* A call that has rejected its runner's output interrupts it without any
\* deadline of its own, and still returns: the runner stops a server that does
\* not react.
RejectedCallsReturn ==
    \A c \in Slot : (call[c].pc # "none" /\ call[c].broken) ~> call[c].pc = "none"

\* "Each request owns its server/browser and closes them": the server of a
\* caller that died is stopped where process 1 adopts the runner, unless the runner
\* that would have to do it hangs or has died itself, writing a link nobody reads.
OrphansStop ==
    \A c \in Slot : (Orphan(c) /\ Up(c) /\ runner[c].parent = "process_1")
                        ~> (~Up(c) \/ ~RunnerUp(c) \/ runner[c].stuck)

=============================================================================

-------------------------- MODULE CamofoxRun_proofs --------------------------
(* Theorems about CamofoxRun, for any number of slots, any modes and faults. *)
EXTENDS CamofoxRun, Naturals, TLAPS

-----------------------------------------------------------------------------
(* The inductive invariant, as a predicate of one slot's call l, runner r,  *)
(* server s and unread output q, and of the holder h of the profile lock.   *)

Alive(s) == s \in {"running", "terminating"}
Running(r) == r.pc \notin {"none", "exited"}

NoFaults == "crash" \notin Faults /\ "stuck" \notin Faults

\* A call that runs holds the lock; only a call that runs has output to read.
Owned(c, h, l, q) ==
    /\ l.pc # "none" => h = c
    /\ l.pc = "none" => q = <<>>

\* What the runner knows of its server is so.
Supervised(r, s) ==
    /\ r.pc \in {"config", "setup"} => s = "none"
    /\ r.stop # "no" => s \notin {"none", "running"}
    /\ Running(r) =>
           /\ s = "terminating" => r.stop = "begun"
           /\ r.stop = "done" => ~Alive(s)
    /\ r.stop = "done" /\ ~r.failed => s = "clean"

\* A result that is under way, or was returned, follows a saved profile.
Reported(l, r, s, q) ==
    /\ \A i \in DOMAIN q : q[i] = "result" => r.pc = "exited" /\ s = "clean"
    /\ l.got => r.pc = "exited" /\ s = "clean"
    /\ l.pc = "wait" /\ ~l.broken => l.got
    /\ l.outcome = "ok" => s = "clean"

\* Without faults a runner is not outlived by its server, nor a call by its
\* runner.
Nested(l, r, s) ==
    NoFaults => /\ Alive(s) => Running(r)
                /\ Running(r) => l.pc # "none"
                /\ ~r.stuck

Good(c, h, l, r, s, q) ==
    Owned(c, h, l, q) /\ Supervised(r, s) /\ Reported(l, r, s, q) /\ Nested(l, r, s)

IInv == TypeOK /\ \A c \in Slot : Good(c, holder, call[c], runner[c], server[c], pipe[c])

-----------------------------------------------------------------------------
(* Steps of one slot.                                                       *)

\* Slot c goes to the given state, and the lock to the holder h.
Update(c, h, l, r, s, q) ==
    /\ holder' = h
    /\ call' = [call EXCEPT ![c] = l]
    /\ runner' = [runner EXCEPT ![c] = r]
    /\ server' = [server EXCEPT ![c] = s]
    /\ pipe' = [pipe EXCEPT ![c] = q]

\* The slot's state has its type and satisfies the invariant; the lock is taken
\* when it is free and released by its holder.
Fits(c, h, l, r, s, q) ==
    /\ l \in Call /\ r \in Runner /\ s \in Server /\ q \in Seq(Line)
    /\ Good(c, h, l, r, s, q)
    /\ h = holder \/ (holder = NoOne /\ h = c) \/ (holder = c /\ h = NoOne)

LEMMA SlotStep ==
  ASSUME IInv, NEW c \in Slot, NEW h, NEW l, NEW r, NEW s, NEW q,
         Update(c, h, l, r, s, q), Fits(c, h, l, r, s, q)
  PROVE  IInv'
<1>1. TypeOK
  BY DEF IInv
<1>2. \A d \in Slot :
         /\ call'[d] = IF d = c THEN l ELSE call[d]
         /\ runner'[d] = IF d = c THEN r ELSE runner[d]
         /\ server'[d] = IF d = c THEN s ELSE server[d]
         /\ pipe'[d] = IF d = c THEN q ELSE pipe[d]
  BY <1>1 DEF Update, TypeOK
<1>3. /\ call' \in [Slot -> Call] /\ runner' \in [Slot -> Runner]
      /\ server' \in [Slot -> Server] /\ pipe' \in [Slot -> Seq(Line)]
  BY <1>1 DEF Update, TypeOK, Fits
<1>4. holder' = h /\ h \in Slot \cup {NoOne}
  BY <1>1 DEF Update, TypeOK, Fits
<1>5. ASSUME NEW d \in Slot
      PROVE  Good(d, holder', call'[d], runner'[d], server'[d], pipe'[d])
  <2>1. CASE d = c
    BY <1>2, <1>4, <2>1 DEF Fits
  <2>2. CASE d # c
    <3>1. Good(d, holder, call[d], runner[d], server[d], pipe[d])
      BY DEF IInv
    <3>2. call[d].pc # "none" => holder' = d
      BY <1>4, <2>2, <3>1, CamofoxAssumption DEF Fits, Good, Owned
    <3>3. Good(d, holder', call[d], runner[d], server[d], pipe[d])
      BY <3>1, <3>2 DEF Good, Owned
    <3>4. QED
      BY <1>2, <2>2, <3>3
  <2>3. QED
    BY <2>1, <2>2
<1>6. \A d \in Slot : RunnerUp(d)' =>
         /\ server'[d] = "terminating" => runner'[d].stop = "begun"
         /\ runner'[d].stop = "done" => ~Up(d)'
  BY <1>5 DEF Good, Supervised, Running, RunnerUp, Up, Alive
<1>7. TypeOK'
  BY <1>3, <1>4, <1>6 DEF TypeOK, RunnerUp, Up
<1>8. QED
  BY <1>5, <1>7 DEF IInv

LEMMA SlotFacts ==
  ASSUME IInv, NEW c \in Slot
  PROVE  /\ call[c] \in Call /\ runner[c] \in Runner
         /\ server[c] \in Server /\ pipe[c] \in Seq(Line)
         /\ Good(c, holder, call[c], runner[c], server[c], pipe[c])
         /\ Up(c) <=> Alive(server[c])
         /\ RunnerUp(c) <=> Running(runner[c])
         /\ [call EXCEPT ![c] = call[c]] = call
         /\ [runner EXCEPT ![c] = runner[c]] = runner
         /\ [server EXCEPT ![c] = server[c]] = server
         /\ [pipe EXCEPT ![c] = pipe[c]] = pipe
  BY DEF IInv, TypeOK, Up, RunnerUp, Alive, Running

LEMMA NewSlot ==
  /\ \A pc \in {"none", "read"}, m \in Mode : NewCall(pc, m) \in Call
  /\ AnyMode \in Mode
  /\ \A pc \in {"none", "config", "exited"} : NewRunner(pc) \in Runner
  /\ \A ok \in BOOLEAN : Exited(ok) \in Runner
<1>1. AnyMode \in Mode
  BY CamofoxAssumption DEF AnyMode
<1>2. QED
  BY <1>1 DEF NewCall, NewRunner, Exited, Call, Runner

LEMMA InitIInv == Init => IInv
<1> SUFFICES ASSUME Init PROVE IInv
  OBVIOUS
<1> DEFINE l == NewCall("none", AnyMode)
           r == NewRunner("none")
<1>1. l \in Call /\ r \in Runner
  BY NewSlot
<1>2. TypeOK
  BY <1>1 DEF Init, TypeOK, Server, RunnerUp, NewRunner
<1>3. \A c \in Slot : Good(c, holder, l, r, "none", <<>>)
  BY DEF Good, Owned, Supervised, Reported, Nested, Alive, Running, NewCall, NewRunner
<1>4. QED
  BY <1>2, <1>3 DEF Init, IInv

-----------------------------------------------------------------------------
(* Kinds of steps.                                                          *)

\* A step of the caller that moves neither the lock nor the runner.
LEMMA CallerStep ==
  ASSUME IInv, NEW c \in Slot, NEW l \in Call, CallBecomes(c, l),
         UNCHANGED <<holder, runner, server, pipe>>,
         Good(c, holder, l, runner[c], server[c], pipe[c])
  PROVE  IInv'
<1>1. Update(c, holder, l, runner[c], server[c], pipe[c])
  BY SlotFacts DEF Update, CallBecomes
<1>2. Fits(c, holder, l, runner[c], server[c], pipe[c])
  BY SlotFacts DEF Fits
<1>3. QED
  BY <1>1, <1>2, SlotStep

\* A step of a runner that prints nothing: no result of it is under way yet.
LEMMA RunnerMoves ==
  ASSUME IInv, NEW c \in Slot, NEW r \in Runner, NEW s \in Server,
         RunnerUp(c), RunnerBecomes(c, r), ServerBecomes(c, s),
         UNCHANGED <<holder, call, pipe>>,
         Supervised(r, s), server[c] = "clean" => s = "clean",
         NoFaults => (Alive(s) => Running(r)) /\ ~r.stuck
  PROVE  IInv'
<1>1. Update(c, holder, call[c], r, s, pipe[c])
  BY SlotFacts DEF Update, RunnerBecomes, ServerBecomes
<1>2. Good(c, holder, call[c], runner[c], server[c], pipe[c]) /\ Running(runner[c])
  BY SlotFacts
<1>3. Reported(call[c], r, s, pipe[c])
  BY <1>2 DEF Good, Reported, Running
<1>4. Nested(call[c], r, s)
  BY <1>2 DEF Good, Nested
<1>5. Fits(c, holder, call[c], r, s, pipe[c])
  BY <1>2, <1>3, <1>4, SlotFacts DEF Fits, Good
<1>6. QED
  BY <1>1, <1>5, SlotStep

LEMMA RunnerMovesAlone ==
  ASSUME IInv, NEW c \in Slot, NEW r \in Runner,
         RunnerUp(c), RunnerBecomes(c, r), UNCHANGED <<holder, call, server, pipe>>,
         Supervised(r, server[c]),
         NoFaults => (Alive(server[c]) => Running(r)) /\ ~r.stuck
  PROVE  IInv'
<1>1. ServerBecomes(c, server[c]) /\ server[c] \in Server
  BY SlotFacts DEF ServerBecomes
<1>2. QED
  BY <1>1, RunnerMoves

\* stop(), called when the locals of the runner have become x.
LEMMA StoppingFacts ==
  ASSUME IInv, NEW c \in Slot, RunnerUp(c), NEW x \in Runner, Running(x),
         x.pc \notin {"config", "setup"} \/ server[c] = "none",
         x.stop = runner[c].stop, x.failed = runner[c].failed
  PROVE  /\ Stopping(c, x) \in Runner
         /\ Terminated(c) \in Server
         /\ Supervised(Stopping(c, x), Terminated(c))
         /\ Running(Stopping(c, x))
         /\ Stopping(c, x).stuck = x.stuck
         /\ server[c] = "clean" => Terminated(c) = "clean"
<1>1. /\ server[c] \in Server /\ Supervised(runner[c], server[c])
      /\ Running(runner[c]) /\ runner[c] \in Runner
  BY SlotFacts DEF Good
<1> DEFINE r == Stopping(c, x)
<1>2. /\ r \in Runner /\ r.pc = x.pc /\ r.stuck = x.stuck /\ r.failed = x.failed
      /\ r.stop = IF server[c] # "none" /\ x.stop = "no" THEN "begun" ELSE x.stop
  BY DEF Stopping, Runner
<1> HIDE DEF r
<1>3. Running(r)
  BY <1>2 DEF Running
<1>4. Terminated(c) \in Server
  BY <1>1 DEF Terminated, Server
<1>5. Supervised(r, Terminated(c))
  BY <1>1, <1>2 DEF Supervised, Terminated, Alive, Running, Server, Runner
<1>6. QED
  BY <1>2, <1>3, <1>4, <1>5 DEF r, Terminated

\* A step that calls stop().
LEMMA StopStep ==
  ASSUME IInv, NEW c \in Slot, RunnerUp(c), NEW x \in Runner, Running(x),
         x.pc \notin {"config", "setup"} \/ server[c] = "none",
         x.stop = runner[c].stop, x.failed = runner[c].failed,
         x.stuck = runner[c].stuck,
         RunnerBecomes(c, Stopping(c, x)), ServerBecomes(c, Terminated(c)),
         UNCHANGED <<holder, call, pipe>>
  PROVE  IInv'
<1>1. NoFaults => ~x.stuck
  BY SlotFacts DEF Good, Nested
<1>2. QED
  BY <1>1, StoppingFacts, RunnerMoves

-----------------------------------------------------------------------------
(* The caller's steps.                                                      *)

LEMMA StartStep ==
  ASSUME IInv, NEW c \in Slot, Start(c)
  PROVE  IInv'
<1>1. PICK m \in Mode : CallBecomes(c, NewCall("read", m))
  BY DEF Start
<1> DEFINE l == NewCall("read", m)
           r == NewRunner("config")
<1>2. Update(c, c, l, r, "none", pipe[c])
  BY <1>1, SlotFacts DEF Start, Update, CallBecomes, RunnerBecomes, ServerBecomes
<1>3. l \in Call /\ r \in Runner
  BY NewSlot
<1>4. pipe[c] = <<>>
  BY SlotFacts DEF Start, Good, Owned
<1>5. Good(c, c, l, r, "none", <<>>)
  BY DEF Good, Owned, Supervised, Reported, Nested, Alive, Running, NewCall, NewRunner
<1>6. Fits(c, c, l, r, "none", pipe[c])
  BY <1>3, <1>4, <1>5 DEF Fits, Start, LockFree, Server
<1> HIDE DEF l, r
<1>7. QED
  BY <1>2, <1>6, SlotStep

LEMMA StartRefusedStep ==
  ASSUME IInv, NEW c \in Slot, StartRefused(c)
  PROVE  IInv'
<1>1. PICK outcome \in {"failed", "profile_in_use"} :
         CallBecomes(c, [NewCall("none", AnyMode) EXCEPT !.outcome = outcome])
  BY DEF StartRefused
<1> DEFINE l == [NewCall("none", AnyMode) EXCEPT !.outcome = outcome]
<1>2. l \in Call
  BY NewSlot DEF NewCall, Call
<1>3. l.pc = "none" /\ ~l.got /\ l.outcome # "ok"
  BY DEF NewCall
<1> HIDE DEF l
<1>4. Good(c, holder, l, runner[c], server[c], pipe[c])
  BY <1>3, SlotFacts DEF StartRefused, Good, Owned, Reported, Nested
<1>5. QED
  BY <1>1, <1>2, <1>4, CallerStep DEF StartRefused, l

\* Being signalled changes nothing the invariant speaks of.
LEMMA SignalledFacts ==
  ASSUME IInv, NEW c \in Slot
  PROVE  /\ Signalled(c) \in Runner
         /\ Signalled(c).pc = runner[c].pc /\ Signalled(c).stop = runner[c].stop
         /\ Signalled(c).failed = runner[c].failed
         /\ Signalled(c).stuck = runner[c].stuck
  BY SlotFacts DEF Signalled, Runner, RunnerUp

\* What remains of the output when a line is read.
LEMMA TailFacts ==
  ASSUME NEW q \in Seq(Line), q # <<>>
  PROVE  /\ Tail(q) \in Seq(Line)
         /\ \A i \in DOMAIN Tail(q) : i + 1 \in DOMAIN q /\ Tail(q)[i] = q[i + 1]
         /\ 1 \in DOMAIN q /\ Head(q) = q[1]
  OBVIOUS

\* A step of a call that changes its output and, at most, signals its runner.
LEMMA OutputStep ==
  ASSUME IInv, NEW c \in Slot, NEW l \in Call, NEW q \in Seq(Line),
         NEW r \in {runner[c], Signalled(c)},
         CallBecomes(c, l), RunnerBecomes(c, r), pipe' = [pipe EXCEPT ![c] = q],
         UNCHANGED <<holder, server>>,
         l.pc # "none", call[c].pc # "none",
         Reported(l, runner[c], server[c], q)
  PROVE  IInv'
<1>1. Update(c, holder, l, r, server[c], q)
  BY SlotFacts DEF Update, CallBecomes, RunnerBecomes
<1>2. /\ r \in Runner /\ r.pc = runner[c].pc /\ r.stop = runner[c].stop
      /\ r.failed = runner[c].failed /\ r.stuck = runner[c].stuck
  BY SignalledFacts, SlotFacts
<1>3. Good(c, holder, l, r, server[c], q)
  BY <1>2, SlotFacts DEF Good, Owned, Supervised, Reported, Nested, Running
<1>4. Fits(c, holder, l, r, server[c], q)
  BY <1>2, <1>3, SlotFacts DEF Fits
<1>5. QED
  BY <1>1, <1>4, SlotStep

LEMMA ReadLineStep ==
  ASSUME IInv, NEW c \in Slot, ReadLine(c)
  PROVE  IInv'
<1> DEFINE q == Tail(pipe[c])
<1>1. /\ call[c] \in Call /\ pipe[c] \in Seq(Line) /\ pipe[c] # <<>>
      /\ Reported(call[c], runner[c], server[c], pipe[c])
      /\ pipe' = [pipe EXCEPT ![c] = q] /\ UNCHANGED <<holder, server>>
      /\ call[c].pc = "read"
  BY SlotFacts DEF ReadLine, Good
<1>2. q \in Seq(Line)
  BY <1>1, TailFacts
<1>3. \A i \in DOMAIN q : q[i] = "result" => runner[c].pc = "exited" /\ server[c] = "clean"
  BY <1>1, TailFacts DEF Reported
<1>4. Head(pipe[c]) = "result" => runner[c].pc = "exited" /\ server[c] = "clean"
  BY <1>1, TailFacts DEF Reported
<1> HIDE DEF q
<1>5. CASE Break(c)
  <2> DEFINE l == [call[c] EXCEPT !.pc = "wait", !.broken = TRUE]
  <2>1. /\ l \in Call /\ l.pc = "wait" /\ l.broken
        /\ l.got = call[c].got /\ l.outcome = call[c].outcome
    BY <1>1 DEF Call
  <2>2. CallBecomes(c, l) /\ RunnerBecomes(c, Signalled(c))
    BY <1>5 DEF Break
  <2> HIDE DEF l
  <2>3. Reported(l, runner[c], server[c], q)
    BY <1>1, <1>3, <2>1 DEF Reported
  <2>4. QED
    BY <1>1, <1>2, <2>1, <2>2, <2>3, OutputStep
<1>6. CASE CallBecomes(c, [call[c] EXCEPT !.presented = TRUE]) /\ UNCHANGED runner
  <2> DEFINE l == [call[c] EXCEPT !.presented = TRUE]
  <2>1. /\ l \in Call /\ l.pc = "read"
        /\ l.got = call[c].got /\ l.outcome = call[c].outcome
    BY <1>1 DEF Call
  <2>2. CallBecomes(c, l) /\ RunnerBecomes(c, runner[c])
    BY <1>6, SlotFacts DEF RunnerBecomes
  <2> HIDE DEF l
  <2>3. Reported(l, runner[c], server[c], q)
    BY <1>1, <1>3, <2>1 DEF Reported
  <2>4. QED
    BY <1>1, <1>2, <2>1, <2>2, <2>3, OutputStep
<1>7. CASE /\ Head(pipe[c]) = "result"
           /\ CallBecomes(c, [call[c] EXCEPT !.got = TRUE]) /\ UNCHANGED runner
  <2> DEFINE l == [call[c] EXCEPT !.got = TRUE]
  <2>1. l \in Call /\ l.pc = "read" /\ l.outcome = call[c].outcome
    BY <1>1 DEF Call
  <2>2. CallBecomes(c, l) /\ RunnerBecomes(c, runner[c])
    BY <1>7, SlotFacts DEF RunnerBecomes
  <2> HIDE DEF l
  <2>3. Reported(l, runner[c], server[c], q)
    BY <1>1, <1>3, <1>4, <1>7, <2>1 DEF Reported
  <2>4. QED
    BY <1>1, <1>2, <2>1, <2>2, <2>3, OutputStep
<1>8. QED
  BY <1>5, <1>6, <1>7 DEF ReadLine

LEMMA ReadEndStep ==
  ASSUME IInv, NEW c \in Slot, ReadEnd(c)
  PROVE  IInv'
<1> DEFINE l == [call[c] EXCEPT !.pc = "wait", !.broken = ~call[c].got]
<1>1. call[c] \in Call
  BY SlotFacts
<1>2. /\ l \in Call /\ l.pc = "wait" /\ l.broken = ~l.got
      /\ l.got = call[c].got /\ l.outcome = call[c].outcome
  BY <1>1 DEF Call
<1>3. CallBecomes(c, l)
  BY DEF ReadEnd
<1> HIDE DEF l
<1>4. Good(c, holder, l, runner[c], server[c], pipe[c])
  BY <1>2, SlotFacts DEF ReadEnd, Good, Owned, Reported, Nested
<1>5. QED
  BY <1>2, <1>3, <1>4, CallerStep DEF ReadEnd

\* A call that ends gives the lock up and leaves its output behind; its runner may
\* get another parent.
LEMMA ReleaseStep ==
  ASSUME IInv, NEW c \in Slot, call[c].pc # "none",
         NEW l \in Call, CallBecomes(c, l), l.pc = "none", ~l.got,
         NEW r \in Runner, RunnerBecomes(c, r), r.pc = runner[c].pc,
         r.stop = runner[c].stop, r.failed = runner[c].failed, r.stuck = runner[c].stuck,
         holder' = NoOne, pipe' = [pipe EXCEPT ![c] = <<>>], UNCHANGED server,
         l.outcome = "ok" => server[c] = "clean",
         NoFaults => ~RunnerUp(c)
  PROVE  IInv'
<1>1. Update(c, NoOne, l, r, server[c], <<>>)
  BY SlotFacts DEF Update, CallBecomes, RunnerBecomes
<1>2. /\ Good(c, holder, call[c], runner[c], server[c], pipe[c]) /\ holder = c
      /\ Running(runner[c]) <=> Running(r)
      /\ RunnerUp(c) <=> Running(runner[c])
  BY SlotFacts DEF Good, Owned, Running
<1>3. Good(c, NoOne, l, r, server[c], <<>>)
  BY <1>2 DEF Good, Owned, Supervised, Reported, Nested
<1>4. Fits(c, NoOne, l, r, server[c], <<>>)
  BY <1>2, <1>3, SlotFacts DEF Fits
<1>5. QED
  BY <1>1, <1>4, SlotStep

LEMMA WaitReturnsStep ==
  ASSUME IInv, NEW c \in Slot, WaitReturns(c)
  PROVE  IInv'
<1>1. PICK outcome \in {"ok", "canceled", "failed"} :
         /\ CallBecomes(c, [NewCall("none", AnyMode) EXCEPT !.outcome = outcome])
         /\ outcome = "ok" => ~call[c].broken
  BY DEF WaitReturns
<1>2. outcome = "ok" => server[c] = "clean"
  BY <1>1, SlotFacts DEF WaitReturns, Good, Reported, Call
<1> DEFINE l == [NewCall("none", AnyMode) EXCEPT !.outcome = outcome]
<1>3. l \in Call
  BY NewSlot DEF NewCall, Call
<1>4. l.pc = "none" /\ ~l.got /\ l.outcome = outcome /\ CallBecomes(c, l)
  BY <1>1 DEF NewCall
<1> HIDE DEF l
<1>5. RunnerBecomes(c, runner[c]) /\ runner[c] \in Runner
  BY SlotFacts DEF WaitReturns, RunnerBecomes
<1>6. QED
  BY <1>2, <1>3, <1>4, <1>5, ReleaseStep DEF WaitReturns, RunnerUp

LEMMA CrashStep ==
  ASSUME IInv, NEW c \in Slot, Crash(c)
  PROVE  IInv'
<1> DEFINE l == NewCall("none", AnyMode)
<1>1. l \in Call
  BY NewSlot
<1>2. l.pc = "none" /\ ~l.got /\ l.outcome = "none"
  BY DEF NewCall
<1> HIDE DEF l
<1>3. CallBecomes(c, l)
  BY DEF Crash, l
<1>4. PICK r \in {runner[c]}
                  \cup {[runner[c] EXCEPT !.parent = p] : p \in {"process_1", "reaper"}} :
         RunnerBecomes(c, r)
  BY SlotFacts DEF Crash, Adopted, RunnerBecomes
<1>5. /\ r \in Runner /\ r.pc = runner[c].pc /\ r.stop = runner[c].stop
      /\ r.failed = runner[c].failed /\ r.stuck = runner[c].stuck
  BY <1>4, SlotFacts DEF Runner
<1>6. QED
  BY <1>1, <1>2, <1>3, <1>4, <1>5, ReleaseStep DEF Crash, NoFaults

LEMMA ContextStep ==
  ASSUME IInv, NEW c \in Slot, EndContext(c) \/ Interrupt(c)
  PROVE  IInv'
<1>1. /\ call[c] \in Call /\ call[c].pc # "none" /\ pipe[c] \in Seq(Line)
      /\ Good(c, holder, call[c], runner[c], server[c], pipe[c])
  BY SlotFacts DEF EndContext, Interrupt
<1>2. PICK l \in {[call[c] EXCEPT !.live = FALSE], [call[c] EXCEPT !.signalled = TRUE]},
           r \in {runner[c], Signalled(c)} :
         CallBecomes(c, l) /\ RunnerBecomes(c, r)
  BY SlotFacts DEF EndContext, Interrupt, RunnerBecomes
<1>3. /\ l \in Call /\ l.pc = call[c].pc /\ l.got = call[c].got
      /\ l.broken = call[c].broken /\ l.outcome = call[c].outcome
  BY <1>1, <1>2 DEF Call
<1>4. Reported(l, runner[c], server[c], pipe[c])
  BY <1>1, <1>3 DEF Good, Reported
<1>5. pipe' = [pipe EXCEPT ![c] = pipe[c]] /\ UNCHANGED <<holder, server>>
  BY SlotFacts DEF EndContext, Interrupt
<1>6. QED
  BY <1>1, <1>2, <1>3, <1>4, <1>5, OutputStep

\* A runner that exits, with its server down if there are no faults.
LEMMA ExitStep ==
  ASSUME IInv, NEW c \in Slot, RunnerUp(c), NEW ok \in BOOLEAN,
         RunnerBecomes(c, Exited(ok)), UNCHANGED <<holder, call, server, pipe>>,
         NoFaults => ~Alive(server[c])
  PROVE  IInv'
<1>1. Exited(ok) \in Runner
  BY NewSlot
<1>2. Exited(ok).pc = "exited" /\ Exited(ok).stop = "no" /\ ~Exited(ok).stuck
  BY DEF Exited, NewRunner
<1>3. Supervised(Exited(ok), server[c])
  BY <1>2 DEF Supervised, Running
<1>4. QED
  BY <1>1, <1>2, <1>3, RunnerMovesAlone

LEMMA KillStep ==
  ASSUME IInv, NEW c \in Slot, Kill(c)
  PROVE  IInv'
<1>1. NoFaults => ~Alive(server[c])
  BY SlotFacts DEF Kill, WaitDelayOver, Good, Nested
<1>2. RunnerBecomes(c, Exited(FALSE))
  BY DEF Kill, Exited
<1>3. QED
  BY <1>1, <1>2, ExitStep DEF Kill

-----------------------------------------------------------------------------
(* The runner's and the server's steps.                                     *)

LEMMA ReadConfigStep ==
  ASSUME IInv, NEW c \in Slot, ReadConfig(c)
  PROVE  IInv'
<1>1. RunnerUp(c) /\ server[c] = "none"
  BY SlotFacts DEF ReadConfig, At, RunnerUp, Good, Supervised
<1>2. CASE RunnerBecomes(c, [runner[c] EXCEPT !.pc = "setup"])
  <2> DEFINE r == [runner[c] EXCEPT !.pc = "setup"]
  <2>1. /\ r \in Runner /\ r.pc = "setup" /\ r.stop = runner[c].stop
        /\ r.failed = runner[c].failed /\ ~r.stuck
    BY SlotFacts DEF ReadConfig, At, Runner
  <2>2. RunnerBecomes(c, r)
    BY <1>2
  <2> HIDE DEF r
  <2>3. Supervised(r, server[c])
    BY <1>1, <2>1, SlotFacts DEF Good, Supervised, Running
  <2>4. QED
    BY <1>1, <2>1, <2>2, <2>3, RunnerMovesAlone DEF ReadConfig, Alive
<1>3. CASE RunnerBecomes(c, Exited(FALSE))
  BY <1>1, <1>3, ExitStep DEF ReadConfig, Alive
<1>4. QED
  BY <1>2, <1>3 DEF ReadConfig

\* A runner that only changes locals of its own the invariant does not read.
LEMMA RunnerGoto ==
  ASSUME IInv, NEW c \in Slot, RunnerUp(c), NEW r \in Runner, RunnerBecomes(c, r),
         UNCHANGED <<holder, call, server, pipe>>,
         r.pc \in {runner[c].pc, "script"}, r.stop = runner[c].stop,
         r.failed = runner[c].failed \/ r.failed,
         r.stuck = runner[c].stuck \/ "stuck" \in Faults
  PROVE  IInv'
<1>1. /\ Supervised(runner[c], server[c]) /\ Nested(call[c], runner[c], server[c])
      /\ Running(runner[c])
  BY SlotFacts DEF Good
<1>2. Running(r)
  BY <1>1 DEF Running
<1>3. Supervised(r, server[c])
  BY <1>1, <1>2 DEF Supervised
<1>4. NoFaults => ~r.stuck
  BY <1>1 DEF Nested, NoFaults
<1>5. QED
  BY <1>2, <1>3, <1>4, RunnerMovesAlone

LEMMA SpawnStep ==
  ASSUME IInv, NEW c \in Slot, Spawn(c)
  PROVE  IInv'
<1> DEFINE r == [runner[c] EXCEPT !.pc = "boot"]
<1>1. /\ runner[c] \in Runner /\ runner[c].pc = "setup" /\ RunnerUp(c)
      /\ Supervised(runner[c], server[c]) /\ server[c] = "none"
      /\ ~runner[c].stuck
  BY SlotFacts DEF Spawn, At, RunnerUp, Good, Supervised
<1>2. /\ r \in Runner /\ r.pc = "boot" /\ r.stop = runner[c].stop
      /\ r.stuck = runner[c].stuck
  BY <1>1 DEF Runner
<1>3. RunnerBecomes(c, r)
  BY DEF Spawn
<1>4. PICK s \in {"running", "dirty"} : ServerBecomes(c, s)
  BY DEF Spawn
<1> HIDE DEF r
<1>5. runner[c].stop = "no"
  BY <1>1 DEF Supervised
<1>6. Running(r) /\ Supervised(r, s) /\ s \in Server
  BY <1>2, <1>4, <1>5 DEF Running, Supervised, Server
<1>7. UNCHANGED <<holder, call, pipe>>
  BY DEF Spawn
<1>8. QED
  BY <1>1, <1>2, <1>3, <1>4, <1>6, <1>7, RunnerMoves

LEMMA LocalsStep ==
  ASSUME IInv, NEW c \in Slot, Ready(c) \/ SetResult(c) \/ LogFailure(c) \/ Hang(c)
  PROVE  IInv'
<1>1. runner[c] \in Runner /\ RunnerUp(c) /\ UNCHANGED <<holder, call, server, pipe>>
  BY SlotFacts DEF Ready, SetResult, LogFailure, Hang, At, RunnerUp
<1>2. PICK r \in {[runner[c] EXCEPT !.pc = "script"], [runner[c] EXCEPT !.result = TRUE],
                  [runner[c] EXCEPT !.failed = TRUE]} \cup
                 {y \in {[runner[c] EXCEPT !.stuck = TRUE]} : "stuck" \in Faults} :
         RunnerBecomes(c, r)
  BY DEF Ready, SetResult, LogFailure, Hang
<1>3. /\ r \in Runner /\ r.pc \in {runner[c].pc, "script"} /\ r.stop = runner[c].stop
      /\ r.failed = runner[c].failed \/ r.failed
      /\ r.stuck = runner[c].stuck \/ "stuck" \in Faults
  BY <1>1, <1>2 DEF Runner
<1>4. QED
  BY <1>1, <1>2, <1>3, RunnerGoto

LEMMA StopsStep ==
  ASSUME IInv, NEW c \in Slot, RunFails(c) \/ EndScript(c)
  PROVE  IInv'
<1>1. /\ runner[c] \in Runner /\ RunnerUp(c) /\ UNCHANGED <<holder, call, pipe>>
      /\ ServerBecomes(c, Terminated(c))
  BY SlotFacts DEF RunFails, EndScript, Throw, At, RunnerUp
<1>2. PICK x \in {[runner[c] EXCEPT !.pc = "cleanup"], [runner[c] EXCEPT !.pc = "stop"]} :
         RunnerBecomes(c, Stopping(c, x))
  BY DEF RunFails, EndScript, Throw
<1>3. /\ x \in Runner /\ x.pc \in {"cleanup", "stop"} /\ x.stop = runner[c].stop
      /\ x.failed = runner[c].failed /\ x.stuck = runner[c].stuck
  BY <1>1, <1>2 DEF Runner
<1>4. Running(x)
  BY <1>3 DEF Running
<1>5. QED
  BY <1>1, <1>2, <1>3, <1>4, StopStep

LEMMA CancelStep ==
  ASSUME IInv, NEW c \in Slot, HandleSignal(c) \/ WatchParent(c)
  PROVE  IInv'
<1> DEFINE x == [runner[c] EXCEPT !.signal = FALSE, !.cancelled = TRUE]
<1>1. /\ runner[c] \in Runner /\ RunnerUp(c) /\ CancelRun(c)
      /\ runner[c].pc # "config" /\ Supervised(runner[c], server[c])
  BY SlotFacts DEF HandleSignal, WatchParent, At, RunnerUp, Good
<1>2. /\ x \in Runner /\ x.pc = runner[c].pc /\ x.stop = runner[c].stop
      /\ x.failed = runner[c].failed /\ x.stuck = runner[c].stuck
  BY <1>1 DEF Runner
<1>3. /\ RunnerBecomes(c, Stopping(c, x)) /\ ServerBecomes(c, Terminated(c))
      /\ UNCHANGED <<holder, call, pipe>>
  BY <1>1 DEF CancelRun
<1> HIDE DEF x
<1>4. Running(x) /\ (x.pc \notin {"config", "setup"} \/ server[c] = "none")
  BY <1>1, <1>2 DEF Running, RunnerUp, Supervised
<1>5. QED
  BY <1>1, <1>2, <1>3, <1>4, StopStep

\* A link goes out from a script that has no result yet.
LEMMA SendQRStep ==
  ASSUME IInv, NEW c \in Slot, SendQR(c)
  PROVE  IInv'
<1>1. /\ runner[c] \in Runner /\ RunnerUp(c) /\ pipe[c] \in Seq(Line)
      /\ Good(c, holder, call[c], runner[c], server[c], pipe[c])
      /\ runner[c].pc = "script" /\ ~runner[c].stuck
      /\ UNCHANGED <<holder, call, server>>
  BY SlotFacts DEF SendQR, At, RunnerUp
<1>2. CASE Orphan(c)
  <2>1. ~NoFaults
    BY <1>1, <1>2 DEF Good, Nested, Running, Orphan
  <2>2. RunnerBecomes(c, Exited(FALSE)) /\ UNCHANGED pipe
    BY <1>2 DEF SendQR
  <2>3. QED
    BY <1>1, <2>1, <2>2, ExitStep
<1>3. CASE ~Orphan(c)
  <2> DEFINE r == [runner[c] EXCEPT !.qr = TRUE]
             q == Append(pipe[c], "qr")
  <2>1. /\ r \in Runner /\ r.pc = "script" /\ r.stop = runner[c].stop
        /\ r.failed = runner[c].failed /\ r.stuck = runner[c].stuck
    BY <1>1 DEF Runner
  <2>2. Update(c, holder, call[c], r, server[c], q)
    BY <1>3, SlotFacts DEF SendQR, Update, RunnerBecomes
  <2>3. q \in Seq(Line) /\ \A i \in DOMAIN q : q[i] = "result" => i \in DOMAIN pipe[c] /\ pipe[c][i] = "result"
    BY <1>1 DEF Line
  <2> HIDE DEF r, q
  <2>4. Good(c, holder, call[c], r, server[c], q)
    BY <1>1, <1>3, <2>1, <2>3
       DEF Good, Owned, Supervised, Reported, Nested, Running, Orphan
  <2>5. Fits(c, holder, call[c], r, server[c], q)
    BY <2>1, <2>3, <2>4, SlotFacts DEF Fits
  <2>6. QED
    BY <2>2, <2>5, SlotStep
<1>4. QED
  BY <1>2, <1>3

\* The result goes out only after stop() has found a clean end.
LEMMA PrintResultStep ==
  ASSUME IInv, NEW c \in Slot, PrintResult(c)
  PROVE  IInv'
<1>1. /\ runner[c] \in Runner /\ RunnerUp(c) /\ pipe[c] \in Seq(Line)
      /\ Good(c, holder, call[c], runner[c], server[c], pipe[c])
      /\ runner[c].pc = "stop" /\ runner[c].stop = "done" /\ ~runner[c].stuck
      /\ UNCHANGED <<holder, call, server>>
  BY SlotFacts DEF PrintResult, At, RunnerUp
<1>2. ~Alive(server[c]) /\ (~runner[c].failed => server[c] = "clean")
  BY <1>1 DEF Good, Supervised, Running
<1>3. GoodEnding(c) \in BOOLEAN
  BY <1>1 DEF GoodEnding, Runner
<1>4. CASE GoodEnding(c) /\ ~Orphan(c)
  <2> DEFINE r == Exited(TRUE)
             q == Append(pipe[c], "result")
  <2>1. server[c] = "clean" /\ call[c].pc # "none"
    BY <1>1, <1>2, <1>4 DEF GoodEnding, Orphan
  <2>2. Update(c, holder, call[c], r, server[c], q)
    BY <1>4, SlotFacts DEF PrintResult, Update, RunnerBecomes
  <2>3. r \in Runner /\ r.pc = "exited" /\ r.stop = "no" /\ ~r.stuck
    BY NewSlot DEF Exited, NewRunner
  <2>4. q \in Seq(Line)
    BY <1>1 DEF Line
  <2> HIDE DEF r, q
  <2>5. Good(c, holder, call[c], r, server[c], q)
    BY <1>1, <1>2, <2>1, <2>3
       DEF Good, Owned, Supervised, Reported, Nested, Running
  <2>6. Fits(c, holder, call[c], r, server[c], q)
    BY <2>3, <2>4, <2>5, SlotFacts DEF Fits
  <2>7. QED
    BY <2>2, <2>6, SlotStep
<1>5. CASE ~(GoodEnding(c) /\ ~Orphan(c))
  <2>1. UNCHANGED pipe /\ RunnerBecomes(c, Exited(GoodEnding(c)))
    BY <1>5 DEF PrintResult
  <2>2. QED
    BY <1>1, <1>2, <1>3, <2>1, ExitStep
<1>6. QED
  BY <1>4, <1>5

LEMMA CleanupStep ==
  ASSUME IInv, NEW c \in Slot, Cleanup(c)
  PROVE  IInv'
<1>1. RunnerUp(c) /\ ~Alive(server[c])
  BY SlotFacts DEF Cleanup, At, RunnerUp, StopAwaited, Good, Supervised, Alive
<1>2. QED
  BY <1>1, ExitStep DEF Cleanup

LEMMA ServerClosedStep ==
  ASSUME IInv, NEW c \in Slot, ServerClosed(c)
  PROVE  IInv'
<1> DEFINE r == [runner[c] EXCEPT !.stop = "done",
                                  !.failed = @ \/ server[c] # "clean"]
<1>1. /\ runner[c] \in Runner /\ RunnerUp(c) /\ ~runner[c].stuck
      /\ Good(c, holder, call[c], runner[c], server[c], pipe[c])
      /\ runner[c].stop = "begun" /\ ~Alive(server[c])
  BY SlotFacts DEF ServerClosed
<1>2. /\ r \in Runner /\ r.pc = runner[c].pc /\ r.stop = "done"
      /\ r.stuck = runner[c].stuck /\ (~r.failed => server[c] = "clean")
  BY <1>1 DEF Runner
<1>3. RunnerBecomes(c, r)
  BY DEF ServerClosed
<1> HIDE DEF r
<1>4. Supervised(r, server[c])
  BY <1>1, <1>2 DEF Good, Supervised, Running, Alive
<1>5. QED
  BY <1>1, <1>2, <1>3, <1>4, RunnerMovesAlone DEF ServerClosed

LEMMA KillServerStep ==
  ASSUME IInv, NEW c \in Slot, KillServer(c)
  PROVE  IInv'
<1> DEFINE r == [runner[c] EXCEPT !.failed = TRUE]
<1>1. /\ runner[c] \in Runner /\ RunnerUp(c) /\ ~runner[c].stuck
      /\ Supervised(runner[c], server[c]) /\ server[c] = "terminating"
      /\ runner[c].stop = "begun" /\ UNCHANGED <<holder, call, pipe>>
  BY SlotFacts DEF KillServer, GraceOver, Good
<1>2. /\ r \in Runner /\ r.pc = runner[c].pc /\ r.stop = "begun"
      /\ r.stuck = runner[c].stuck
  BY <1>1 DEF Runner
<1>3. RunnerBecomes(c, r) /\ ServerBecomes(c, "dirty") /\ "dirty" \in Server
  BY DEF KillServer, Server
<1> HIDE DEF r
<1>4. Supervised(r, "dirty") /\ ~Alive("dirty")
  BY <1>1, <1>2 DEF Supervised, Alive
<1>5. QED
  BY <1>1, <1>2, <1>3, <1>4, RunnerMoves

\* The server ends by itself, with its runner or after it.
LEMMA ServerStep ==
  ASSUME IInv, NEW c \in Slot, ServerFails(c) \/ ServerShutsDown(c)
  PROVE  IInv'
<1>1. /\ Good(c, holder, call[c], runner[c], server[c], pipe[c])
      /\ Alive(server[c])
  BY SlotFacts DEF ServerFails, ServerShutsDown, Alive
<1>2. PICK s \in {"dirty", "clean", "unsaved"} :
         /\ ServerBecomes(c, s)
         /\ s # "dirty" => server[c] = "terminating"
  BY DEF ServerFails, ServerShutsDown
<1>3. Update(c, holder, call[c], runner[c], s, pipe[c])
  BY <1>2, SlotFacts DEF ServerFails, ServerShutsDown, Update, ServerBecomes
<1>4. Supervised(runner[c], s)
  BY <1>1, <1>2 DEF Good, Supervised, Alive
<1>5. Reported(call[c], runner[c], s, pipe[c]) /\ Nested(call[c], runner[c], s)
  BY <1>1, <1>2 DEF Good, Reported, Nested, Alive
<1>6. Fits(c, holder, call[c], runner[c], s, pipe[c])
  BY <1>1, <1>2, <1>4, <1>5, SlotFacts DEF Fits, Good, Server
<1>7. QED
  BY <1>3, <1>6, SlotStep

-----------------------------------------------------------------------------
(* The theorems.                                                            *)

LEMMA StepIInv == IInv /\ [Next]_vars => IInv'
<1> SUFFICES ASSUME IInv, [Next]_vars PROVE IInv'
  OBVIOUS
<1>1. CASE UNCHANGED vars
  BY <1>1 DEF vars, IInv, TypeOK, RunnerUp, Up
<1>2. ASSUME NEW c \in Slot,
             \/ Start(c) \/ StartRefused(c) \/ EndContext(c) \/ Crash(c)
             \/ CallStep(c)
             \/ RunnerStep(c) \/ SendQR(c) \/ SetResult(c) \/ EndScript(c) \/ Hang(c)
             \/ LogFailure(c) \/ ServerFails(c) \/ ServerShutsDown(c)
      PROVE  IInv'
  <2>1. CASE CallStep(c)
    BY <2>1, ReadLineStep, ReadEndStep, WaitReturnsStep, ContextStep, KillStep
       DEF CallStep
  <2>2. CASE RunnerStep(c)
    BY <2>2, ReadConfigStep, SpawnStep, LocalsStep, StopsStep, PrintResultStep,
       CleanupStep, CancelStep, ServerClosedStep, KillServerStep DEF RunnerStep
  <2>3. QED
    BY <1>2, <2>1, <2>2, StartStep, StartRefusedStep, ContextStep, CrashStep,
       SendQRStep, LocalsStep, StopsStep, ServerStep
<1>3. QED
  BY <1>1, <1>2 DEF Next

\* The invariant of the runs, for any slots, modes and faults.
THEOREM Invariance == Spec => []IInv
<1>1. QED
  BY InitIInv, StepIInv, PTL DEF Spec

\* Types, and the runner's knowledge of its server (camofox_runner.mjs, stop).
THEOREM TypeCorrect == Spec => []TypeOK
<1>1. IInv => TypeOK
  BY DEF IInv
<1>2. QED
  BY <1>1, Invariance, PTL

\* Calls that neither crash nor meet a hung runner never put two servers on the
\* profile (profile_lock_unix.go with camofox.go and the runner's stop).
THEOREM ProfileIsExclusive ==
  ASSUME NoFaults
  PROVE  Spec => []OneServerPerProfile
<1>1. IInv => OneServerPerProfile
  <2> SUFFICES ASSUME IInv, NEW c \in Slot, NEW d \in Slot, Up(c), Up(d)
               PROVE  c = d
    BY DEF OneServerPerProfile
  <2>1. holder = c /\ holder = d
    BY SlotFacts DEF Good, Nested, Owned
  <2>2. QED
    BY <2>1
<1>2. QED
  BY <1>1, Invariance, PTL

\* Even with crashes and hung runners, a returned result implies that the server
\* has saved the profile and exited cleanly.
THEOREM ResultsArePersisted == Spec => []ResultMeansPersisted
<1>1. IInv => ResultMeansPersisted
  BY DEF IInv, Good, Reported, ResultMeansPersisted
<1>2. QED
  BY <1>1, Invariance, PTL

=============================================================================

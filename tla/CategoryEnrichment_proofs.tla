---------------------- MODULE CategoryEnrichment_proofs ----------------------
(***************************************************************************)
(* What the category tables, the calls that fill them and the reports on   *)
(* them promise, proved for any number of callers, products, documents,    *)
(* budgets, saves and changes of the orders.                               *)
(*                                                                         *)
(* IInv adds to CacheEndsHistory that nothing was observed after the       *)
(* present and that the outcome a call has stamped and not yet saved is    *)
(* still the last of its product, unless the call was overtaken.           *)
(*                                                                         *)
(* CallsInv says what a running call is bound to (Listing), what a         *)
(* complete one has done (Claimed) and whose turn a recheck is (Turns,     *)
(* Queued, InTime): a product rechecked twice more than another is due     *)
(* after it, and a list names a product saved before only behind all that  *)
(* are due before it.                                                      *)
(***************************************************************************)
EXTENDS CategoryEnrichment, FiniteSetLemmas

Locals == {"pc", "recheck", "pending", "listed", "began", "truncated",
           "throughout", "saved", "outcome", "at", "overtaken", "complete"}

Shaped == DOMAIN call = Caller /\ \A p \in Caller : DOMAIN call[p] = Locals

ObservedByNow ==
    /\ clock \in Nat
    /\ \A o \in observed : o.at \in Int /\ o.at <= clock

StampStands(c) ==
    c.pc = "save" =>
        /\ c.at \in Int /\ c.at <= clock
        /\ ~c.overtaken =>
               \A o \in observed : o.product = Head(c.pending) => o.at <= c.at

IInv ==
    /\ Shaped
    /\ ObservedByNow
    /\ \A p \in Caller : StampStands(call[p])
    /\ CacheEndsHistory

LEMMA IdleCall == NoCall.pc = "idle" /\ DOMAIN NoCall = Locals
  BY DEF NoCall, Locals

\* A ledger left by an older release has one row a product, and its
\* observations are seeded from them.
LEMMA InitHolds ==
    ASSUME Init
    PROVE  IInv
<1>1. /\ clock = 0 /\ observed = cached
      /\ call = [p \in Caller |-> NoCall]
      /\ \A r, s \in cached : /\ r.at \in Int /\ r.at <= 0
                              /\ r.product = s.product => r = s
  BY EnrichmentAssumption DEF Init
<1>2. ObservedByNow
  BY <1>1 DEF ObservedByNow
<1>3. ASSUME NEW r \in cached
      PROVE  /\ \E o \in observed : ObservationKey(o) = ObservationKey(r) /\ o.path = r.path
             /\ \A o \in observed : o.product = r.product => o.at <= r.at
  <2>1. r \in observed
    BY <1>1
  <2>2. ASSUME NEW o \in observed, o.product = r.product
        PROVE  o.at <= r.at
    <3>1. o = r /\ r.at \in Int
      BY <1>1, <2>2
    <3> QED BY <3>1
  <2> QED BY <2>1, <2>2
<1>4. CacheEndsHistory
  BY <1>3 DEF CacheEndsHistory
<1>5. Shaped /\ \A p \in Caller : StampStands(call[p])
  BY <1>1, IdleCall DEF Shaped, StampStands
<1> QED BY <1>2, <1>4, <1>5 DEF IInv

\* A step that writes no row and stamps no outcome.
LEMMA RowsUnchanged ==
    ASSUME IInv, UNCHANGED <<tables, clock, behind>>, Shaped',
           \A p \in Caller :
               \/ call'[p].pc # "save"
               \/ /\ call'[p].pc = call[p].pc /\ call'[p].pending = call[p].pending
                  /\ call'[p].at = call[p].at /\ call'[p].overtaken = call[p].overtaken
    PROVE  IInv'
<1>1. cached' = cached /\ observed' = observed /\ clock' = clock /\ behind' = behind
  BY DEF tables
<1>2. ObservedByNow'
  BY <1>1 DEF IInv, ObservedByNow
<1>3. CacheEndsHistory'
  BY <1>1 DEF IInv, CacheEndsHistory, ObservationKey
<1>4. ASSUME NEW p \in Caller
      PROVE  StampStands(call[p])'
  <2>1. StampStands(call[p])
    BY DEF IInv
  <2> QED BY <1>1, <2>1 DEF StampStands
<1> QED BY <1>2, <1>3, <1>4 DEF IInv

\* Goto replaces one call.
LEMMA GotoSets ==
    ASSUME Shaped, NEW p \in Caller, NEW new, DOMAIN new = Locals, Goto(p, new)
    PROVE  /\ Shaped'
           /\ call'[p] = new
           /\ \A q \in Caller \ {p} : call'[q] = call[q]
  BY DEF Shaped, Goto

\* The steps of a call that only change its own locals.
LEMMA OwnLocals ==
    ASSUME IInv, NEW p \in Caller, NEW new, DOMAIN new = Locals, new.pc # "save",
           Goto(p, new), UNCHANGED <<tables, clock, behind>>
    PROVE  IInv'
<1>1. /\ Shaped' /\ call'[p] = new
      /\ \A q \in Caller \ {p} : call'[q] = call[q]
  BY GotoSets DEF IInv
<1>2. \A q \in Caller :
         \/ call'[q].pc # "save"
         \/ /\ call'[q].pc = call[q].pc /\ call'[q].pending = call[q].pending
            /\ call'[q].at = call[q].at /\ call'[q].overtaken = call[q].overtaken
  BY <1>1
<1> QED BY <1>1, <1>2, RowsUnchanged

LEMMA StartKeeps ==
    ASSUME IInv, NEW p \in Caller, StartCall(p)
    PROVE  IInv'
<1>1. PICK recheck \in BOOLEAN, budget \in Budget :
          LET pending == ProductsForEnrichment(budget, recheck)
          IN  Goto(p, [NoCall EXCEPT
                   !.pc = IF recheck THEN "count" ELSE "next",
                   !.recheck = recheck, !.pending = pending, !.listed = Len(pending),
                   !.began = eligible, !.throughout = eligible])
  BY DEF StartCall
<1> DEFINE pending == ProductsForEnrichment(budget, recheck)
           new == [NoCall EXCEPT
                   !.pc = IF recheck THEN "count" ELSE "next",
                   !.recheck = recheck, !.pending = pending, !.listed = Len(pending),
                   !.began = eligible, !.throughout = eligible]
<1>2. Goto(p, new) /\ UNCHANGED <<tables, clock, behind>>
  BY <1>1 DEF StartCall
<1> HIDE DEF pending
<1>3. DOMAIN new = Locals /\ new.pc # "save"
  BY IdleCall DEF NoCall, Locals
<1> HIDE DEF new
<1> QED BY <1>2, <1>3, OwnLocals

LEMMA CountKeeps ==
    ASSUME IInv, NEW p \in Caller, CountCandidates(p)
    PROVE  IInv'
<1> DEFINE new == [call[p] EXCEPT !.pc = "next", !.truncated = Truncated(p)]
<1>1. Goto(p, new) /\ UNCHANGED <<tables, clock, behind>>
  BY DEF CountCandidates
<1>2. DOMAIN new = Locals /\ new.pc # "save"
  BY DEF IInv, Shaped, Locals
<1> HIDE DEF new
<1> QED BY <1>1, <1>2, OwnLocals

LEMMA EndKeeps ==
    ASSUME IInv, NEW p \in Caller, FailCall(p) \/ FinishCall(p)
    PROVE  IInv'
<1>1. UNCHANGED <<tables, clock, behind>>
  BY DEF FailCall, FinishCall
<1>2. PICK new \in {NoCall, [call[p] EXCEPT !.pc = "idle", !.complete = TRUE]} : Goto(p, new)
  BY DEF FailCall, FinishCall
<1>3. DOMAIN new = Locals /\ new.pc # "save"
  BY <1>2, IdleCall DEF IInv, Shaped, Locals
<1> QED BY <1>1, <1>2, <1>3, OwnLocals

\* An outcome is stamped after everything observed.
LEMMA EnrichKeeps ==
    ASSUME IInv, NEW p \in Caller, EnrichProduct(p)
    PROVE  IInv'
<1>1. PICK outcome \in Outcomes :
          Goto(p, [call[p] EXCEPT !.pc = "save", !.outcome = outcome, !.at = clock + 1,
                                  !.overtaken = FALSE])
  BY DEF EnrichProduct
<1> DEFINE new == [call[p] EXCEPT !.pc = "save", !.outcome = outcome, !.at = clock + 1,
                                  !.overtaken = FALSE]
<1>2. DOMAIN new = Locals /\ new.at = clock + 1 /\ new.pending = call[p].pending
  BY DEF IInv, Shaped, Locals
<1> HIDE DEF new
<1>3. /\ Shaped' /\ call'[p] = new
      /\ \A q \in Caller \ {p} : call'[q] = call[q]
  BY <1>1, <1>2, GotoSets DEF IInv, new
<1>4. /\ cached' = cached /\ observed' = observed /\ behind' = behind
      /\ clock' = clock + 1 /\ clock \in Nat
      /\ \A o \in observed : o.at \in Int /\ o.at <= clock
  BY DEF EnrichProduct, tables, IInv, ObservedByNow
<1>5. ObservedByNow'
  BY <1>4 DEF ObservedByNow
<1>6. CacheEndsHistory'
  BY <1>4 DEF IInv, CacheEndsHistory, ObservationKey
<1>7. ASSUME NEW q \in Caller
      PROVE  StampStands(call[q])'
  <2>1. CASE q = p
    <3>1. call'[q].at \in Int /\ call'[q].at <= clock'
      BY <1>2, <1>3, <1>4, <2>1
    <3>2. \A o \in observed' : o.at <= call'[q].at
      BY <1>2, <1>3, <1>4, <2>1
    <3> QED BY <3>1, <3>2 DEF StampStands
  <2>2. CASE q # p
    <3>1. StampStands(call[q]) /\ call'[q] = call[q]
      BY <1>3, <2>2 DEF IInv
    <3> QED BY <1>4, <3>1 DEF StampStands
  <2> QED BY <2>1, <2>2
<1> QED BY <1>3, <1>5, <1>6, <1>7 DEF IInv

\* What the transaction of an outcome writes.
LEMMA SaveWrites ==
    ASSUME Shaped, NEW p \in Caller, SaveOutcome(p)
    PROVE  \E row :
             /\ row.product = Head(call[p].pending) /\ row.at = call[p].at
             /\ cached' = {r \in cached : r.product # row.product} \cup {row}
             /\ observed' = observed \cup {row}
             /\ call[p].pc = "save" /\ call'[p].pc = "next"
             /\ \A q \in Caller \ {p} :
                   /\ call'[q].pc = call[q].pc /\ call'[q].pending = call[q].pending
                   /\ call'[q].at = call[q].at
                   /\ call'[q].overtaken =
                          (call[q].overtaken \/ Stamped(q, row.product))
             /\ behind' = IF call[p].overtaken THEN behind \cup {row.product}
                          ELSE behind \ {row.product}
             /\ clock' = clock
             /\ Shaped'
<1> DEFINE k == Head(call[p].pending)
           row == [product |-> k, source |-> call[p].outcome.source,
                   path |-> call[p].outcome.path, at |-> call[p].at]
<1>1. /\ Save(row)
      /\ behind' = IF call[p].overtaken THEN behind \cup {k} ELSE behind \ {k}
      /\ call[p].pc = "save" /\ clock' = clock
  BY DEF SaveOutcome
<1>2. call' = [q \in Caller |->
                  IF q = p THEN [call[p] EXCEPT !.pc = "next", !.pending = Tail(@),
                                                !.saved = @ \cup {k}, !.at = 0]
                  ELSE [call[q] EXCEPT !.overtaken = @ \/ Stamped(q, k)]]
  BY DEF SaveOutcome
<1> HIDE DEF k
<1>3. row.product = k /\ row.at = call[p].at
  OBVIOUS
<1>4. /\ DOMAIN call' = Caller
      /\ call'[p].pc = "next" /\ DOMAIN call'[p] = Locals
  BY <1>2 DEF Shaped, Locals
<1>5. ASSUME NEW q \in Caller \ {p}
      PROVE  /\ call'[q].pc = call[q].pc /\ call'[q].pending = call[q].pending
             /\ call'[q].at = call[q].at
             /\ call'[q].overtaken = (call[q].overtaken \/ Stamped(q, k))
             /\ DOMAIN call'[q] = Locals
  <2> DEFINE flag == call[q].overtaken \/ Stamped(q, k)
  <2>1. call'[q] = [call[q] EXCEPT !.overtaken = flag]
    BY <1>2
  <2> HIDE DEF flag
  <2>2. /\ call'[q].pc = call[q].pc /\ call'[q].pending = call[q].pending
        /\ call'[q].at = call[q].at /\ call'[q].overtaken = flag
        /\ DOMAIN call'[q] = Locals
    BY <2>1 DEF Shaped, Locals
  <2> QED BY <2>2 DEF flag
<1>6. Shaped'
  BY <1>4, <1>5 DEF Shaped
<1>7. /\ cached' = {r \in cached : r.product # row.product} \cup {row}
      /\ observed' = observed \cup {row}
  BY <1>1 DEF Save, WithObservation
<1> HIDE DEF row
<1> WITNESS row
<1> QED BY <1>1, <1>3, <1>4, <1>5, <1>6, <1>7 DEF k

LEMMA SaveKeeps ==
    ASSUME IInv, NEW p \in Caller, SaveOutcome(p)
    PROVE  IInv'
<1>1. PICK row :
         /\ row.product = Head(call[p].pending) /\ row.at = call[p].at
         /\ cached' = {r \in cached : r.product # row.product} \cup {row}
         /\ observed' = observed \cup {row}
         /\ call[p].pc = "save" /\ call'[p].pc = "next"
         /\ \A q \in Caller \ {p} :
               /\ call'[q].pc = call[q].pc /\ call'[q].pending = call[q].pending
               /\ call'[q].at = call[q].at
               /\ call'[q].overtaken = (call[q].overtaken \/ Stamped(q, row.product))
         /\ behind' = IF call[p].overtaken THEN behind \cup {row.product}
                      ELSE behind \ {row.product}
         /\ clock' = clock
         /\ Shaped'
  BY SaveWrites DEF IInv
<1>2. /\ clock \in Nat
      /\ \A o \in observed : o.at \in Int /\ o.at <= clock
      /\ CacheEndsHistory
      /\ row.at \in Int /\ row.at <= clock
      /\ ~call[p].overtaken =>
             \A o \in observed : o.product = row.product => o.at <= row.at
  BY <1>1 DEF IInv, ObservedByNow, StampStands
<1>3. ObservedByNow'
  BY <1>1, <1>2 DEF ObservedByNow
<1>4. ASSUME NEW q \in Caller
      PROVE  StampStands(call[q])'
  <2>1. CASE q = p
    BY <1>1, <2>1 DEF StampStands
  <2>2. CASE q # p
    <3>1. StampStands(call[q])
      BY DEF IInv
    <3>2. ASSUME call'[q].pc = "save"
          PROVE  call'[q].at \in Int /\ call'[q].at <= clock'
      BY <1>1, <2>2, <3>1, <3>2 DEF StampStands
    <3>3. ASSUME call'[q].pc = "save", ~call'[q].overtaken,
                 NEW o \in observed', o.product = Head(call'[q].pending)
          PROVE  o.at <= call'[q].at
      <4>1. call[q].pc = "save" /\ ~call[q].overtaken /\ ~Stamped(q, row.product)
        BY <1>1, <2>2, <3>3
      <4>2. o # row
        BY <1>1, <2>2, <3>3, <4>1 DEF Stamped
      <4>3. o \in observed
        BY <1>1, <4>2
      <4> QED BY <1>1, <2>2, <3>1, <3>3, <4>1, <4>3 DEF StampStands
    <3> QED BY <3>2, <3>3 DEF StampStands
  <2> QED BY <2>1, <2>2
<1>5. ASSUME NEW r \in cached'
      PROVE  /\ \E o \in observed' : ObservationKey(o) = ObservationKey(r) /\ o.path = r.path
             /\ r.product \notin behind' =>
                    \A o \in observed' : o.product = r.product => o.at <= r.at
  <2>1. CASE r = row
    <3>1. row \in observed'
      BY <1>1
    <3>2. ASSUME r.product \notin behind', NEW o \in observed', o.product = r.product
          PROVE  o.at <= r.at
      <4>1. ~call[p].overtaken
        BY <1>1, <2>1, <3>2
      <4>2. CASE o = row
        BY <1>2, <2>1, <4>2
      <4>3. CASE o \in observed
        BY <1>2, <2>1, <3>2, <4>1, <4>3
      <4> QED BY <1>1, <4>2, <4>3
    <3> QED BY <2>1, <3>1, <3>2
  <2>2. CASE r # row
    <3>1. r \in cached /\ r.product # row.product
      BY <1>1, <2>2
    <3>2. PICK o \in observed : ObservationKey(o) = ObservationKey(r) /\ o.path = r.path
      BY <1>2, <3>1 DEF CacheEndsHistory
    <3>3. ASSUME r.product \notin behind', NEW q \in observed', q.product = r.product
          PROVE  q.at <= r.at
      <4>1. q \in observed /\ r.product \notin behind
        BY <1>1, <3>1, <3>3
      <4> QED BY <1>2, <3>1, <3>3, <4>1 DEF CacheEndsHistory
    <3> QED BY <1>1, <3>2, <3>3
  <2> QED BY <2>1, <2>2
<1>6. CacheEndsHistory'
  BY <1>5 DEF CacheEndsHistory, ObservationKey
<1> QED BY <1>1, <1>3, <1>4, <1>6 DEF IInv

\* What syncs and purges change of the calls.
LEMMA OrdersChangedCalls ==
    ASSUME IInv, NEW new, OrdersChanged(new)
    PROVE  /\ Shaped'
           /\ \A p \in Caller :
                 \/ call'[p].pc # "save"
                 \/ /\ call'[p].pc = call[p].pc /\ call'[p].pending = call[p].pending
                    /\ call'[p].at = call[p].at /\ call'[p].overtaken = call[p].overtaken
<1>1. call' = [p \in Caller |->
                  IF call[p].complete THEN NoCall
                  ELSE [call[p] EXCEPT !.throughout = @ \cap new]]
  BY DEF OrdersChanged
<1>2. ASSUME NEW p \in Caller
      PROVE  /\ DOMAIN call'[p] = Locals
             /\ \/ call'[p].pc # "save"
                \/ /\ call'[p].pc = call[p].pc /\ call'[p].pending = call[p].pending
                   /\ call'[p].at = call[p].at /\ call'[p].overtaken = call[p].overtaken
  <2>1. CASE call[p].complete
    BY <1>1, <2>1, IdleCall
  <2>2. CASE ~call[p].complete
    <3>1. call'[p] = [call[p] EXCEPT !.throughout = @ \cap new]
      BY <1>1, <2>2
    <3> QED BY <3>1 DEF IInv, Shaped, Locals
  <2> QED BY <2>1, <2>2
<1> QED BY <1>1, <1>2 DEF Shaped

LEMMA PurgeKeeps ==
    ASSUME IInv, Purge
    PROVE  IInv'
<1>1. cached' = {} /\ observed' = {} /\ clock' = clock /\ OrdersChanged({})
  BY DEF Purge, Empty
<1>2. ASSUME NEW p \in Caller
      PROVE  StampStands(call[p])'
  <2>1. StampStands(call[p])
    BY DEF IInv
  <2> QED BY <1>1, <2>1, OrdersChangedCalls DEF StampStands
<1>3. Shaped'
  BY <1>1, OrdersChangedCalls
<1> QED BY <1>1, <1>2, <1>3 DEF IInv, ObservedByNow, CacheEndsHistory

LEMMA ReplaceKeeps ==
    ASSUME IInv, ReplaceOrders
    PROVE  IInv'
<1>1. PICK new : OrdersChanged(new)
  BY DEF ReplaceOrders
<1>2. UNCHANGED <<tables, clock, behind>>
  BY DEF ReplaceOrders
<1> QED BY <1>1, <1>2, OrdersChangedCalls, RowsUnchanged

LEMMA NextKeeps ==
    ASSUME IInv, [Next]_vars
    PROVE  IInv'
<1>1. ASSUME NEW p \in Caller, CallStep(p)
      PROVE  IInv'
  BY <1>1, StartKeeps, CountKeeps, EnrichKeeps, SaveKeeps, EndKeeps DEF CallStep
<1>2. CASE ReplaceOrders
  BY <1>2, ReplaceKeeps
<1>3. CASE Purge
  BY <1>3, PurgeKeeps
<1>4. CASE UNCHANGED vars
  <2>1. /\ UNCHANGED <<tables, clock, behind>> /\ call' = call
    BY <1>4 DEF vars
  <2>2. Shaped'
    BY <2>1 DEF IInv, Shaped
  <2> QED BY <2>1, <2>2, RowsUnchanged
<1> QED BY <1>1, <1>2, <1>3, <1>4 DEF Next

THEOREM Invariant == Spec => []IInv
<1>1. Init => IInv
  BY InitHolds
<1>2. IInv /\ [Next]_vars => IInv'
  BY NextKeeps
<1> QED BY <1>1, <1>2, PTL DEF Spec

\* What the cache answers for a product is in its recorded history, and is the
\* end of it unless its save was overtaken, whoever enriches, rechecks, syncs or
\* purges (internal/store/categories.go).
THEOREM CacheIsLast == Spec => []CacheEndsHistory
<1>1. IInv => CacheEndsHistory
  BY DEF IInv
<1> QED BY <1>1, Invariant, PTL

-----------------------------------------------------------------------------
(* Sequences in order.                                                     *)

Orders(order, S) ==
    /\ \A x \in S : <<x, x>> \notin order
    /\ \A x, y \in S : x # y => <<x, y>> \in order \/ <<y, x>> \in order
    /\ \A x, y, z \in S : <<x, y>> \in order /\ <<y, z>> \in order => <<x, z>> \in order

\* A sequence that repeats nothing has as many elements as places.
LEMMA ElementsOf ==
    ASSUME NEW S, NEW s \in Seq(S)
    PROVE  /\ IsFiniteSet(Range(s)) /\ Range(s) \subseteq S
           /\ Cardinality(Range(s)) \in Nat /\ Len(s) \in Nat
           /\ IsInjective(s) => Cardinality(Range(s)) = Len(s)
<1>1. Len(s) \in Nat /\ DOMAIN s = 1..Len(s) /\ s \in [1..Len(s) -> S]
  OBVIOUS
<1>2. IsFiniteSet(1..Len(s)) /\ Cardinality(1..Len(s)) = Len(s)
  BY <1>1, FS_Interval
<1>3. s \in Surjection(1..Len(s), Range(s)) /\ Range(s) \subseteq S
  BY <1>1 DEF Surjection, Range
<1>4. /\ IsFiniteSet(Range(s))
      /\ Cardinality(Range(s)) = Cardinality(1..Len(s)) <=> s \in Injection(1..Len(s), Range(s))
  BY <1>2, <1>3, FS_Surjection
<1>5. IsInjective(s) => s \in Injection(1..Len(s), Range(s))
  BY <1>1 DEF Injection, Range
<1> QED BY <1>1, <1>2, <1>3, <1>4, <1>5, FS_CardinalityType

\* The elements of a finite set in order: each of them once, and behind all that
\* come before it.
LEMMA InOrderIs ==
    ASSUME NEW S, IsFiniteSet(S), NEW order, Orders(order, S)
    PROVE  /\ InOrder(S, order) \in Seq(S)
           /\ Len(InOrder(S, order)) = Cardinality(S) /\ Cardinality(S) \in Nat
           /\ IsInjective(InOrder(S, order))
           /\ Range(InOrder(S, order)) = S
           /\ \A i \in DOMAIN InOrder(S, order), x \in S :
                  <<x, InOrder(S, order)[i]>> \in order =>
                      \E l \in 1..i - 1 : InOrder(S, order)[l] = x
<1> DEFINE before(x) == {y \in S : <<y, x>> \in order}
           n == Cardinality(S)
           rank == [x \in S |-> Cardinality(before(x)) + 1]
           s == InOrder(S, order)
<1>1. n \in Nat /\ IsFiniteSet(1..n) /\ Cardinality(1..n) = n
  <2>1. n \in Nat
    BY FS_CardinalityType
  <2> QED BY <2>1, FS_Interval
<1>2. ASSUME NEW x \in S
      PROVE  /\ IsFiniteSet(before(x)) /\ Cardinality(before(x)) \in Nat
             /\ Cardinality(before(x)) + 1 \in 1..n
  <2>1. before(x) \in SUBSET S /\ before(x) # S
    BY DEF Orders
  <2>2. /\ IsFiniteSet(before(x)) /\ Cardinality(before(x)) <= n
        /\ Cardinality(before(x)) \in Nat /\ Cardinality(before(x)) # n
    BY <2>1, FS_Subset, FS_CardinalityType
  <2> QED BY <1>1, <2>2
<1>3. ASSUME NEW x \in S, NEW y \in S, <<x, y>> \in order
      PROVE  rank[x] < rank[y]
  <2>1. before(x) \in SUBSET before(y) /\ x \in before(y) /\ x \notin before(x)
    BY <1>3 DEF Orders
  <2>2. before(x) # before(y)
    BY <2>1
  <2>3. /\ IsFiniteSet(before(y)) /\ Cardinality(before(y)) \in Nat
        /\ Cardinality(before(x)) \in Nat
    BY <1>2
  <2> HIDE DEF before
  <2>4. /\ Cardinality(before(x)) <= Cardinality(before(y))
        /\ Cardinality(before(x)) # Cardinality(before(y))
    BY <2>1, <2>2, <2>3, FS_Subset
  <2>5. rank[x] = Cardinality(before(x)) + 1 /\ rank[y] = Cardinality(before(y)) + 1
    OBVIOUS
  <2> QED BY <2>3, <2>4, <2>5
<1>4. rank \in [S -> 1..n]
  <2> HIDE DEF before, n
  <2> QED BY <1>2
<1>r. \A x \in S : rank[x] = Cardinality(before(x)) + 1
  OBVIOUS
<1>5. IsInjective(rank)
  <2> HIDE DEF rank
  <2> SUFFICES ASSUME NEW x \in S, NEW y \in S, rank[x] = rank[y]
               PROVE  x = y
    BY <1>4 DEF IsInjective
  <2>1. <<x, y>> \notin order /\ <<y, x>> \notin order
    BY <1>1, <1>3, <1>4
  <2> QED BY <2>1 DEF Orders
<1> HIDE DEF rank
<1>6. rank \in Injection(S, 1..n)
  BY <1>4, <1>5 DEF Injection
<1>7. rank \in Surjection(S, 1..n)
  <2>1. Cardinality(S) = Cardinality(1..n)
    BY <1>1
  <2> QED BY <1>1, <1>6, <2>1, FS_Injection
<1>8. \A k \in 1..n : \E x \in S : rank[x] = k
  BY <1>7 DEF Surjection
<1>9. DOMAIN s = 1..n /\ \A k \in 1..n : s[k] = CHOOSE x \in S : Cardinality(before(x)) = k - 1
  BY DEF InOrder
<1>10. ASSUME NEW k \in 1..n
       PROVE  s[k] \in S /\ rank[s[k]] = k
  <2>1. PICK x \in S : rank[x] = k
    BY <1>8
  <2>2. Cardinality(before(x)) = k - 1
    <3> HIDE DEF before, s
    <3>1. rank[x] = Cardinality(before(x)) + 1 /\ Cardinality(before(x)) \in Nat
      BY <1>2, <1>r
    <3> QED BY <2>1, <3>1
  <2>3. s[k] \in S /\ Cardinality(before(s[k])) = k - 1
    <3> HIDE DEF s, before
    <3> QED BY <1>9, <2>2
  <2> HIDE DEF s
  <2>4. rank[s[k]] = (k - 1) + 1
    BY <1>r, <2>3
  <2> QED BY <1>1, <2>3, <2>4
<1>11. ASSUME NEW x \in S
       PROVE  rank[x] \in 1..n /\ s[rank[x]] = x
  <2>1. rank[x] \in 1..n
    BY <1>4
  <2>2. s[rank[x]] \in S /\ rank[s[rank[x]]] = rank[x]
    BY <1>10, <2>1
  <2> QED BY <1>4, <1>5, <2>1, <2>2 DEF IsInjective
<1>12. s \in Seq(S) /\ Len(s) = n
  <2> DEFINE g(k) == CHOOSE x \in S : Cardinality(before(x)) = k - 1
  <2>1. s = [k \in 1..n |-> g(k)]
    BY DEF InOrder
  <2> HIDE DEF s, g
  <2>2. \A k \in 1..n : g(k) \in S
    BY <1>10, <2>1
  <2>4. s \in [1..n -> S]
    BY <2>1, <2>2
  <2> HIDE DEF n
  <2> QED BY <1>1, <2>4
<1> HIDE DEF s
<1>13. IsInjective(s)
  BY <1>9, <1>10 DEF IsInjective
<1>14. Range(s) = S
  BY <1>9, <1>10, <1>11 DEF Range
<1>15. ASSUME NEW i \in DOMAIN s, NEW x \in S, <<x, s[i]>> \in order
       PROVE  \E l \in 1..i - 1 : s[l] = x
  <2>1. i \in 1..n /\ s[i] \in S /\ rank[s[i]] = i
    BY <1>9, <1>10
  <2>2. rank[x] < i /\ rank[x] \in 1..n
    BY <1>3, <1>4, <1>15, <2>1
  <2>3. rank[x] \in 1..i - 1
    BY <1>1, <2>1, <2>2
  <2> QED BY <1>11, <2>3
<1> QED BY <1>1, <1>12, <1>13, <1>14, <1>15 DEF s

\* The first elements of a sequence are found at the same places.
LEMMA FirstOfIs ==
    ASSUME NEW S, NEW s \in Seq(S), NEW n \in Nat
    PROVE  /\ FirstOf(s, n) \in Seq(S)
           /\ Len(FirstOf(s, n)) = IF Len(s) < n THEN Len(s) ELSE n
           /\ \A i \in DOMAIN FirstOf(s, n) : i \in DOMAIN s /\ FirstOf(s, n)[i] = s[i]
           /\ IsInjective(s) => IsInjective(FirstOf(s, n))
           /\ Len(FirstOf(s, n)) >= Len(s) => FirstOf(s, n) = s
<1> DEFINE m == IF Len(s) < n THEN Len(s) ELSE n
           t == FirstOf(s, n)
<1>1. m \in Nat /\ m <= Len(s) /\ Len(s) \in Nat
  OBVIOUS
<1>2. t = SubSeq(s, 1, m)
  BY DEF FirstOf
<1> HIDE DEF m, t
<1>3. t \in Seq(S) /\ Len(t) = m /\ DOMAIN t = 1..m /\ \A i \in 1..m : t[i] = s[i]
  BY <1>1, <1>2
<1>4. \A i \in DOMAIN t : i \in DOMAIN s
  BY <1>1, <1>3
<1>5. IsInjective(s) => IsInjective(t)
  BY <1>3, <1>4 DEF IsInjective
<1>6. Len(t) >= Len(s) => t = s
  BY <1>1, <1>3
<1> QED BY <1>3, <1>4, <1>5, <1>6 DEF m, t

-----------------------------------------------------------------------------
(* What the reader gives, and in which order products are due.             *)

\* A function on 1..n is a sequence of its values.
LEMMA SequenceOfValues ==
    ASSUME NEW n \in Nat, NEW S, NEW f \in [1..n -> S]
    PROVE  /\ f \in Seq(Range(f)) /\ Len(f) = n /\ DOMAIN f = 1..n
           /\ n # 0 => f # NoPath
<1>1. f \in Seq(S) /\ Len(f) = n /\ DOMAIN f = 1..n
  OBVIOUS
<1>2. f \in [1..n -> Range(f)]
  BY DEF Range
<1>3. f \in Seq(Range(f))
  BY <1>2
<1> QED BY <1>1, <1>3 DEF NoPath

\* A breadcrumb that is read is a sequence with at least one category.
LEMMA PathOfRows ==
    ASSUME NEW rows, Len(rows) \in Nat, DOMAIN rows = 1..Len(rows),
           CategoryPath(rows).kind = "path"
    PROVE  /\ CategoryPath(rows).path \in Seq(Range(CategoryPath(rows).path))
           /\ CategoryPath(rows).path # NoPath
           /\ Len(CategoryPath(rows).path) \in Nat
           /\ DOMAIN CategoryPath(rows).path = 1..Len(CategoryPath(rows).path)
<1> DEFINE categories == {i \in DOMAIN rows : rows[i].target > 0}
           sorted == InOrder(categories, {c \in categories \X categories :
                                              rows[c[1]].position < rows[c[2]].position})
           path == [k \in DOMAIN sorted |-> Node(rows[sorted[k]])]
           n == Cardinality(categories)
<1>1. CategoryPath(rows).path = path /\ categories # {}
  BY DEF CategoryPath
<1>2. DOMAIN sorted = 1..n
  BY DEF InOrder
<1>3. IsFiniteSet(1..Len(rows)) /\ categories \in SUBSET (1..Len(rows))
  BY FS_Interval
<1> HIDE DEF categories, sorted
<1>4. IsFiniteSet(categories) /\ n \in Nat /\ n # 0
  BY <1>1, <1>3, FS_Subset, FS_CardinalityType, FS_EmptySet
<1> DEFINE value(k) == Node(rows[sorted[k]])
<1>5. path = [k \in 1..n |-> value(k)]
  BY <1>2
<1> HIDE DEF path, value, n
<1>6. path \in [1..n -> {value(k) : k \in 1..n}]
  BY <1>5
<1>7. path \in Seq(Range(path)) /\ Len(path) = n /\ DOMAIN path = 1..n /\ path # NoPath
  BY <1>4, <1>6, SequenceOfValues DEF n
<1> QED BY <1>1, <1>4, <1>7 DEF n

Settles(outcome) ==
    /\ outcome.path \in Seq(Range(outcome.path))
    /\ outcome.source = "breadcrumb" => outcome.path # NoPath

\* Whatever the reader gives resolves the product it was read for.
LEMMA OutcomesSettle == \A outcome \in Outcomes : Settles(outcome)
<1>0. NoPath \in Seq(Range(NoPath)) /\ DOMAIN NoPath = 1..Len(NoPath) /\ Len(NoPath) \in Nat
  <2>1. NoPath \in Seq({}) /\ Len(NoPath) = 0
    BY DEF NoPath
  <2>2. Seq({}) \subseteq Seq(Range(NoPath))
    OBVIOUS
  <2> QED BY <2>1, <2>2
<1>1. Settles(Unavailable)
  BY <1>0 DEF Settles, Unavailable
<1>2. ASSUME NEW rows, Len(rows) \in Nat, DOMAIN rows = 1..Len(rows)
      PROVE  Settles(Outcome(rows))
  <2>1. CASE CategoryPath(rows).kind = "path"
    <3>1. Outcome(rows) = [source |-> "breadcrumb", path |-> CategoryPath(rows).path]
      BY <2>1 DEF Outcome
    <3> QED BY <1>2, <2>1, <3>1, PathOfRows DEF Settles
  <2>2. CASE CategoryPath(rows).kind # "path"
    <3>1. Outcome(rows) = [source |-> "missing", path |-> NoPath]
      BY <2>2 DEF Outcome
    <3> QED BY <1>0, <3>1 DEF Settles
  <2> QED BY <2>1, <2>2
<1>3. ASSUME NEW rows \in Documents, ReaderResult(rows).kind = "ok"
      PROVE  /\ Len(ReaderResult(rows).rows) \in Nat
             /\ DOMAIN ReaderResult(rows).rows = 1..Len(ReaderResult(rows).rows)
  <2>1. Len(rows) \in Nat /\ DOMAIN rows = 1..Len(rows)
    BY EnrichmentAssumption
  <2>2. CASE rows = <<>>
    BY <1>0, <2>2 DEF ReaderResult, NoPath
  <2>3. CASE rows # <<>>
    <3>1. CategoryPath(rows).kind = "path"
      BY <1>3, <2>3 DEF ReaderResult
    <3> DEFINE path == CategoryPath(rows).path
               value(i) == [position |-> path[i].position, target |-> path[i].id]
               n == Len(path)
    <3>2. ReaderResult(rows).rows = Reencoded(path)
      BY <2>3, <3>1 DEF ReaderResult
    <3>3. n \in Nat /\ DOMAIN path = 1..n
      BY <2>1, <3>1, PathOfRows
    <3>4. Reencoded(path) = [i \in DOMAIN path |-> value(i)]
      BY DEF Reencoded
    <3> HIDE DEF path, n, value
    <3>5. Reencoded(path) \in [1..n -> {value(i) : i \in 1..n}]
      BY <3>3, <3>4
    <3>6. Len(Reencoded(path)) = n /\ DOMAIN Reencoded(path) = 1..n
      BY <3>3, <3>5, SequenceOfValues
    <3> QED BY <3>2, <3>3, <3>6
  <2> QED BY <2>2, <2>3
<1> SUFFICES ASSUME NEW outcome \in Outcomes
             PROVE  Settles(outcome)
  OBVIOUS
<1>4. CASE outcome = Unavailable
  BY <1>1, <1>4
<1>5. CASE outcome # Unavailable
  <2>1. outcome \in {Outcome(ReaderResult(rows).rows) :
                        rows \in {d \in Documents : ReaderResult(d).kind = "ok"}}
    BY <1>5 DEF Outcomes
  <2>2. PICK rows \in Documents : /\ ReaderResult(rows).kind = "ok"
                                  /\ outcome = Outcome(ReaderResult(rows).rows)
    BY <2>1
  <2> QED BY <1>2, <1>3, <2>2
<1> QED BY <1>4, <1>5

\* One cached row a product, paths that are sequences, and finitely many rows.
RowsTyped ==
    /\ eligible \subseteq Product
    /\ rechecks \in [Product -> Nat]
    /\ IsFiniteSet(observed)
    /\ \A r \in cached : r.at \in Int /\ r.path \in Seq(Range(r.path))
    /\ \A r, s \in cached : r.product = s.product => r = s

LEMMA CacheRowIs ==
    ASSUME RowsTyped, NEW k \in CacheKeys
    PROVE  CacheRow(k) \in cached /\ CacheRow(k).product = k /\ CacheRow(k).at \in Int
<1>1. \E r \in cached : r.product = k
  BY DEF CacheKeys
<1>2. CacheRow(k) \in cached /\ CacheRow(k).product = k
  BY <1>1, Zenon DEF CacheRow
<1> QED BY <1>2 DEF RowsTyped

LEMMA RowOfKey ==
    ASSUME RowsTyped, NEW r \in cached
    PROVE  r.product \in CacheKeys /\ CacheRow(r.product) = r
<1>1. r.product \in CacheKeys
  BY DEF CacheKeys
<1>2. CacheRow(r.product) \in cached /\ CacheRow(r.product).product = r.product
  BY <1>1, CacheRowIs
<1> QED BY <1>1, <1>2 DEF RowsTyped

\* Products are due in one order: one after the other, never in a circle.
LEMMA DueInOrder ==
    ASSUME RowsTyped
    PROVE  /\ Orders(RecheckOrder, eligible)
           /\ \A j, k \in eligible : <<j, k>> \in RecheckOrder <=> RecheckBefore(j, k)
           /\ Orders(TextOrder, Pending)
           /\ IsFiniteSet(eligible) /\ IsFiniteSet(Pending)
           /\ eligible \subseteq Nat
<1>1. /\ IsFiniteSet(eligible) /\ IsFiniteSet(Pending)
      /\ eligible \subseteq Nat /\ Pending \subseteq eligible
  BY EnrichmentAssumption, FS_Subset DEF RowsTyped, Pending
<1> DEFINE fresh(k) == k \notin CacheKeys
           at(k) == CacheRow(k).at
<1>2. \A k \in eligible : fresh(k) \/ at(k) \in Int
  BY CacheRowIs
<1>3. ASSUME NEW j \in eligible, NEW k \in eligible
      PROVE  RecheckBefore(j, k) <=>
                \/ fresh(j) /\ ~fresh(k)
                \/ fresh(j) /\ fresh(k) /\ j < k
                \/ ~fresh(j) /\ ~fresh(k) /\ at(j) < at(k)
                \/ ~fresh(j) /\ ~fresh(k) /\ at(j) = at(k) /\ j < k
  <2>1. CASE fresh(j) \/ fresh(k)
    BY <2>1 DEF RecheckBefore
  <2>2. CASE ~fresh(j) /\ ~fresh(k)
    <3>1. RecheckBefore(j, k) <=> OldestFirst(j, k)
      BY <2>2 DEF RecheckBefore
    <3>2. /\ at(j) # at(k) => (OldestFirst(j, k) <=> at(j) < at(k))
          /\ at(j) = at(k) => (OldestFirst(j, k) <=> j < k)
      BY DEF OldestFirst
    <3>3. at(j) \in Int /\ at(k) \in Int
      BY <1>2, <2>2
    <3> HIDE DEF at, fresh
    <3>4. at(j) < at(k) => at(j) # at(k)
      BY <3>3
    <3> QED BY <2>2, <3>1, <3>2, <3>4
  <2> QED BY <2>1, <2>2
<1>4. \A j, k \in eligible : <<j, k>> \in RecheckOrder <=> RecheckBefore(j, k)
  BY DEF RecheckOrder
<1> HIDE DEF fresh, at
<1>5. Orders(RecheckOrder, eligible)
  <2> DEFINE R(j, k) == \/ fresh(j) /\ ~fresh(k)
                        \/ fresh(j) /\ fresh(k) /\ j < k
                        \/ ~fresh(j) /\ ~fresh(k) /\ at(j) < at(k)
                        \/ ~fresh(j) /\ ~fresh(k) /\ at(j) = at(k) /\ j < k
  <2>1. \A j, k \in eligible : <<j, k>> \in RecheckOrder <=> R(j, k)
    BY <1>3, <1>4
  <2>2. \A j \in eligible : ~R(j, j)
    BY <1>1, <1>2
  <2>3. \A j, k \in eligible : j # k => R(j, k) \/ R(k, j)
    BY <1>1, <1>2
  <2>4. \A i, j, k \in eligible : R(i, j) /\ R(j, k) => R(i, k)
    BY <1>1, <1>2
  <2> HIDE DEF R
  <2> QED BY <2>1, <2>2, <2>3, <2>4 DEF Orders
<1>6. Orders(TextOrder, Pending)
  <2>1. \A j, k \in Pending : <<j, k>> \in TextOrder <=> j < k
    BY <1>1 DEF TextOrder
  <2>2. \A j \in Pending : j \in Nat
    BY <1>1
  <2> QED BY <2>1, <2>2 DEF Orders
<1> QED BY <1>1, <1>4, <1>5, <1>6

-----------------------------------------------------------------------------
(* The invariant of the calls: what they claim, and whose turn it is.      *)

\* A call that rechecks all it listed has, or will have, saved every product the
\* list was taken from.
Listing(c) ==
    c.pc # "idle" =>
        /\ c.pending \in Seq(Product) /\ IsInjective(c.pending) /\ c.listed \in Nat
        /\ c.pc = "save" => c.pending # <<>> /\ Settles(c.outcome)
        /\ c.began \subseteq Product /\ c.throughout \subseteq eligible
        /\ c.throughout \subseteq c.began
        /\ c.recheck =>
              /\ c.listed >= Cardinality(c.began) => c.began \subseteq c.saved \cup Range(c.pending)
              /\ c.pc # "count" /\ ~c.truncated /\ c.throughout = c.began =>
                    c.listed >= Cardinality(c.began)

Claimed(c) ==
    c.complete =>
        /\ c.pc = "idle" /\ Pending = {}
        /\ c.recheck /\ c.throughout = c.began => c.throughout \subseteq c.saved

\* A product rechecked twice more than another has to wait for it.
Turns ==
    \A j, k \in eligible :
        /\ rechecks[j] <= rechecks[k] + 2
        /\ rechecks[j] >= rechecks[k] + 2 => <<k, j>> \in RecheckOrder

\* What has been saved since is resolved.
Settled == \A k \in Pending : rechecks[k] = 0

\* A product saved before is listed behind all that are due before it.
Queued(c) ==
    c.pc # "idle" =>
        \A i \in DOMAIN c.pending :
            \/ rechecks[c.pending[i]] = 0
            \/ \A k \in eligible : <<k, c.pending[i]>> \in RecheckOrder =>
                   \E l \in 1..i - 1 : c.pending[l] = k

\* Only the first save since may have been stamped before another one.
InTime(c) ==
    c.pc = "save" =>
        \/ \A k \in Product : rechecks[k] = 0
        \/ \A r \in cached : r.at < c.at

CallInv(c) == Listing(c) /\ Claimed(c) /\ Queued(c) /\ InTime(c)

CallsInv == RowsTyped /\ Turns /\ Settled /\ \A p \in Caller : CallInv(call[p])

LEMMA IdleInv == CallInv(NoCall)
<1>1. NoCall.pc = "idle" /\ NoCall.complete = FALSE
  BY DEF NoCall
<1> HIDE DEF NoCall
<1> QED BY <1>1 DEF CallInv, Listing, Claimed, Queued, InTime

LEMMA CallsStart ==
    ASSUME Init
    PROVE  CallsInv
<1>1. /\ observed = cached /\ cached \in LegacyCategories
      /\ eligible \in Ordered
      /\ call = [p \in Caller |-> NoCall]
      /\ rechecks = [k \in Product |-> 0]
  BY DEF Init
<1>2. /\ IsFiniteSet(observed)
      /\ \A r \in cached : r.at \in Int /\ r.path \in Seq(Range(r.path))
      /\ \A r, s \in cached : r.product = s.product => r = s
      /\ eligible \subseteq Product
  BY <1>1, EnrichmentAssumption
<1>3. RowsTyped
  BY <1>1, <1>2 DEF RowsTyped
<1>4. Turns /\ Settled
  <2>1. Pending \subseteq Product
    BY <1>2 DEF Pending
  <2> QED BY <1>1, <1>2, <2>1 DEF Turns, Settled
<1>5. \A p \in Caller : CallInv(call[p])
  BY <1>1, IdleInv
<1> QED BY <1>3, <1>4, <1>5 DEF CallsInv

LEMMA SameRows ==
    ASSUME UNCHANGED <<cached, eligible>>
    PROVE  Pending' = Pending /\ RecheckOrder' = RecheckOrder
  BY DEF Pending, RecheckOrder, Unresolved, RecheckBefore, OldestFirst, CacheKeys, CacheRow

\* A step that writes no row, leaves the orders as they are and changes at most
\* one call.
LEMMA OneCallChanges ==
    ASSUME CallsInv, UNCHANGED <<tables, eligible, rechecks>>,
           \A q \in Caller : CallInv(call'[q])
    PROVE  CallsInv'
<1>1. /\ cached' = cached /\ observed' = observed /\ eligible' = eligible
      /\ rechecks' = rechecks
  BY DEF tables
<1>2. Pending' = Pending /\ RecheckOrder' = RecheckOrder
  BY <1>1, SameRows
<1>3. RowsTyped' /\ Turns' /\ Settled'
  BY <1>1, <1>2 DEF CallsInv, RowsTyped, Turns, Settled
<1>4. ASSUME NEW q \in Caller
      PROVE  CallInv(call[q])'
  <2>1. CallInv(call'[q])
    OBVIOUS
  <2> QED BY <1>1, <1>2, <2>1 DEF CallInv, Listing, Claimed, Queued, InTime
<1> QED BY <1>3, <1>4 DEF CallsInv

LEMMA OwnCall ==
    ASSUME IInv, CallsInv, NEW p \in Caller, NEW new, DOMAIN new = Locals, CallInv(new),
           Goto(p, new), UNCHANGED <<tables, eligible, rechecks>>
    PROVE  CallsInv'
<1>1. \A q \in Caller : call'[q] = new \/ call'[q] = call[q]
  BY GotoSets DEF IInv
<1>2. \A q \in Caller : CallInv(call'[q])
  BY <1>1 DEF CallsInv
<1> QED BY <1>2, OneCallChanges

\* The list a call begins with: products in the order they are due, all of them
\* when none was cut off.
LEMMA ListOfProducts ==
    ASSUME RowsTyped, NEW limit \in Nat, NEW recheck \in BOOLEAN
    PROVE  /\ ProductsForEnrichment(limit, recheck) \in Seq(eligible)
           /\ IsInjective(ProductsForEnrichment(limit, recheck))
           /\ recheck =>
                 /\ Len(ProductsForEnrichment(limit, recheck)) >= Cardinality(eligible) =>
                        Range(ProductsForEnrichment(limit, recheck)) = eligible
                 /\ \A i \in DOMAIN ProductsForEnrichment(limit, recheck), k \in eligible :
                       <<k, ProductsForEnrichment(limit, recheck)[i]>> \in RecheckOrder =>
                           \E l \in 1..i - 1 : ProductsForEnrichment(limit, recheck)[l] = k
           /\ ~recheck => \A i \in DOMAIN ProductsForEnrichment(limit, recheck) :
                              ProductsForEnrichment(limit, recheck)[i] \in Pending
<1> DEFINE list == ProductsForEnrichment(limit, recheck)
<1>1. CASE recheck
  <2> DEFINE s == InOrder(eligible, RecheckOrder)
  <2>1. list = FirstOf(s, limit)
    BY <1>1 DEF ProductsForEnrichment
  <2>2. /\ s \in Seq(eligible) /\ Len(s) = Cardinality(eligible) /\ IsInjective(s)
        /\ Range(s) = eligible
        /\ \A i \in DOMAIN s, x \in eligible :
               <<x, s[i]>> \in RecheckOrder => \E l \in 1..i - 1 : s[l] = x
    BY DueInOrder, InOrderIs
  <2> HIDE DEF s
  <2>3. /\ list \in Seq(eligible) /\ IsInjective(list)
        /\ \A i \in DOMAIN list : i \in DOMAIN s /\ list[i] = s[i]
        /\ Len(list) >= Len(s) => list = s
    BY <2>1, <2>2, FirstOfIs
  <2> HIDE DEF list
  <2>4. ASSUME NEW i \in DOMAIN list, NEW k \in eligible, <<k, list[i]>> \in RecheckOrder
        PROVE  \E l \in 1..i - 1 : list[l] = k
    <3>1. PICK l \in 1..i - 1 : s[l] = k
      BY <2>2, <2>3, <2>4
    <3>2. l \in DOMAIN list
      BY <2>3
    <3> QED BY <2>3, <3>1, <3>2
  <2> QED BY <1>1, <2>2, <2>3, <2>4 DEF list
<1>2. CASE ~recheck
  <2> DEFINE s == InOrder(Pending, TextOrder)
  <2>1. list = FirstOf(s, limit)
    BY <1>2 DEF ProductsForEnrichment
  <2>2. s \in Seq(Pending) /\ IsInjective(s) /\ Pending \subseteq eligible
    BY DueInOrder, InOrderIs DEF Pending
  <2> HIDE DEF s
  <2>3. list \in Seq(Pending) /\ IsInjective(list)
    BY <2>1, <2>2, FirstOfIs
  <2> HIDE DEF list
  <2>4. list \in Seq(eligible) /\ \A i \in DOMAIN list : list[i] \in Pending
    BY <2>2, <2>3
  <2> QED BY <1>2, <2>3, <2>4 DEF list
<1> QED BY <1>1, <1>2

LEMMA StartClaims ==
    ASSUME IInv, CallsInv, NEW p \in Caller, StartCall(p)
    PROVE  CallsInv'
<1>1. PICK recheck \in BOOLEAN, budget \in Budget :
          LET pending == ProductsForEnrichment(budget, recheck)
          IN  Goto(p, [NoCall EXCEPT
                   !.pc = IF recheck THEN "count" ELSE "next",
                   !.recheck = recheck, !.pending = pending, !.listed = Len(pending),
                   !.began = eligible, !.throughout = eligible])
  BY DEF StartCall
<1> DEFINE pending == ProductsForEnrichment(budget, recheck)
           new == [NoCall EXCEPT
                   !.pc = IF recheck THEN "count" ELSE "next",
                   !.recheck = recheck, !.pending = pending, !.listed = Len(pending),
                   !.began = eligible, !.throughout = eligible]
<1>2. Goto(p, new) /\ UNCHANGED <<tables, eligible, rechecks>>
  BY <1>1 DEF StartCall
<1>3. /\ eligible \subseteq Product /\ RowsTyped /\ budget \in Nat
      /\ rechecks \in [Product -> Nat]
  BY EnrichmentAssumption DEF CallsInv, RowsTyped
<1>4. /\ pending \in Seq(eligible) /\ IsInjective(pending)
      /\ recheck =>
            /\ Len(pending) >= Cardinality(eligible) => Range(pending) = eligible
            /\ \A i \in DOMAIN pending, k \in eligible :
                  <<k, pending[i]>> \in RecheckOrder => \E l \in 1..i - 1 : pending[l] = k
      /\ ~recheck => \A i \in DOMAIN pending : pending[i] \in Pending
  BY <1>3, ListOfProducts
<1> HIDE DEF pending
<1>5. /\ new.pc = IF recheck THEN "count" ELSE "next"
      /\ new.recheck = recheck /\ new.pending = pending /\ new.listed = Len(pending)
      /\ new.began = eligible /\ new.throughout = eligible /\ new.saved = {}
      /\ new.complete = FALSE /\ DOMAIN new = Locals
  BY DEF NoCall, Locals
<1> HIDE DEF new
<1>6. Listing(new)
  <2>1. new.pending \in Seq(Product) /\ new.listed \in Nat
    BY <1>3, <1>4, <1>5
  <2>2. new.pc # "save"
    BY <1>5
  <2>3. new.recheck => /\ new.pc = "count"
                       /\ new.listed >= Cardinality(new.began) =>
                              new.began \subseteq new.saved \cup Range(new.pending)
    BY <1>4, <1>5
  <2> QED BY <1>3, <1>4, <1>5, <2>1, <2>2, <2>3 DEF Listing
<1>7. Queued(new)
  <2>1. CASE recheck
    BY <1>4, <1>5, <2>1 DEF Queued
  <2>2. CASE ~recheck
    <3>1. \A i \in DOMAIN pending : rechecks[pending[i]] = 0
      BY <1>4, <2>2 DEF CallsInv, Settled
    <3> QED BY <1>5, <3>1 DEF Queued
  <2> QED BY <2>1, <2>2
<1>8. Claimed(new) /\ InTime(new)
  BY <1>5 DEF Claimed, InTime
<1>9. CallInv(new)
  BY <1>6, <1>7, <1>8 DEF CallInv
<1> QED BY <1>2, <1>5, <1>9, OwnCall

\* The candidates are counted once the list is fixed: those that are left of the
\* products it was taken from are among them.
LEMMA CountClaims ==
    ASSUME IInv, CallsInv, NEW p \in Caller, CountCandidates(p)
    PROVE  CallsInv'
<1> DEFINE new == [call[p] EXCEPT !.pc = "next", !.truncated = Truncated(p)]
<1>1. /\ Goto(p, new) /\ UNCHANGED <<tables, eligible, rechecks>> /\ call[p].pc = "count"
  BY DEF CountCandidates
<1>2. /\ new.pc = "next" /\ new.truncated = Truncated(p) /\ new.recheck = call[p].recheck
      /\ new.pending = call[p].pending /\ new.listed = call[p].listed
      /\ new.began = call[p].began /\ new.throughout = call[p].throughout
      /\ new.saved = call[p].saved /\ new.complete = call[p].complete
      /\ DOMAIN new = Locals
  BY DEF IInv, Shaped, Locals
<1> HIDE DEF new
<1>3. CallInv(call[p]) /\ RowsTyped
  BY DEF CallsInv
<1>4. ASSUME ~new.truncated, new.throughout = new.began
      PROVE  new.listed >= Cardinality(new.began)
  <2>1. ~(Cardinality(eligible) > call[p].listed)
    BY <1>2, <1>4 DEF Truncated
  <2>2. IsFiniteSet(eligible) /\ new.began \subseteq eligible /\ call[p].listed \in Nat
    BY <1>1, <1>2, <1>3, <1>4, DueInOrder DEF CallInv, Listing
  <2>3. /\ Cardinality(new.began) <= Cardinality(eligible)
        /\ Cardinality(new.began) \in Nat /\ Cardinality(eligible) \in Nat
    BY <2>2, FS_Subset, FS_CardinalityType
  <2> QED BY <1>2, <2>1, <2>2, <2>3
<1>5. Listing(new)
  BY <1>1, <1>2, <1>3, <1>4 DEF CallInv, Listing
<1>6. Claimed(new)
  BY <1>1, <1>2, <1>3 DEF CallInv, Claimed
<1>7. Queued(new)
  BY <1>1, <1>2, <1>3 DEF CallInv, Queued
<1>8. InTime(new)
  BY <1>2 DEF InTime
<1>9. CallInv(new)
  BY <1>5, <1>6, <1>7, <1>8 DEF CallInv
<1> QED BY <1>1, <1>2, <1>9, OwnCall

\* The stamp is newer than whatever is cached.
LEMMA EnrichClaims ==
    ASSUME IInv, CallsInv, NEW p \in Caller, EnrichProduct(p)
    PROVE  CallsInv'
<1>1. PICK outcome \in Outcomes :
          Goto(p, [call[p] EXCEPT !.pc = "save", !.outcome = outcome, !.at = clock + 1,
                                  !.overtaken = FALSE])
  BY DEF EnrichProduct
<1> DEFINE new == [call[p] EXCEPT !.pc = "save", !.outcome = outcome, !.at = clock + 1,
                                  !.overtaken = FALSE]
<1>2. /\ Goto(p, new) /\ UNCHANGED <<tables, eligible, rechecks>>
      /\ call[p].pc = "next" /\ call[p].pending # <<>>
  BY <1>1 DEF EnrichProduct
<1>3. /\ new.pc = "save" /\ new.outcome = outcome /\ new.at = clock + 1
      /\ new.truncated = call[p].truncated /\ new.recheck = call[p].recheck
      /\ new.pending = call[p].pending /\ new.listed = call[p].listed
      /\ new.began = call[p].began /\ new.throughout = call[p].throughout
      /\ new.saved = call[p].saved /\ new.complete = call[p].complete
      /\ DOMAIN new = Locals
  BY DEF IInv, Shaped, Locals
<1> HIDE DEF new
<1>4. CallInv(call[p]) /\ RowsTyped
  BY DEF CallsInv
<1>5. Listing(new)
  <2>1. Settles(new.outcome)
    BY <1>3, OutcomesSettle
  <2> QED BY <1>2, <1>3, <1>4, <2>1 DEF CallInv, Listing
<1>6. Claimed(new)
  BY <1>2, <1>3, <1>4 DEF CallInv, Claimed
<1>7. Queued(new)
  BY <1>2, <1>3, <1>4 DEF CallInv, Queued
<1>8. InTime(new)
  <2>1. ASSUME NEW r \in cached
        PROVE  r.at < new.at
    <3>1. PICK o \in observed : ObservationKey(o) = ObservationKey(r)
      BY DEF IInv, CacheEndsHistory
    <3>2. o.at = r.at
      BY <3>1 DEF ObservationKey
    <3>3. o.at \in Int /\ o.at <= clock /\ clock \in Nat
      BY DEF IInv, ObservedByNow
    <3> QED BY <1>3, <3>2, <3>3
  <2> QED BY <2>1 DEF InTime
<1>9. CallInv(new)
  BY <1>5, <1>6, <1>7, <1>8 DEF CallInv
<1> QED BY <1>2, <1>3, <1>9, OwnCall

LEMMA FailClaims ==
    ASSUME IInv, CallsInv, NEW p \in Caller, FailCall(p)
    PROVE  CallsInv'
<1>1. Goto(p, NoCall) /\ UNCHANGED <<tables, eligible, rechecks>>
  BY DEF FailCall
<1> QED BY <1>1, IdleCall, IdleInv, OwnCall

\* A call that has saved its whole list, cut off nowhere, may say so.
LEMMA FinishClaims ==
    ASSUME IInv, CallsInv, NEW p \in Caller, FinishCall(p)
    PROVE  CallsInv'
<1>1. /\ UNCHANGED <<tables, eligible, rechecks>>
      /\ call[p].pc = "next" /\ call[p].pending = <<>>
  BY DEF FinishCall
<1>2. CASE RemainingProducts = 0 /\ ~call[p].truncated
  <2> DEFINE new == [call[p] EXCEPT !.pc = "idle", !.complete = TRUE]
  <2>1. Goto(p, new)
    BY <1>2 DEF FinishCall
  <2>2. /\ new.pc = "idle" /\ new.complete = TRUE /\ new.recheck = call[p].recheck
        /\ new.began = call[p].began /\ new.throughout = call[p].throughout
        /\ new.saved = call[p].saved /\ DOMAIN new = Locals
    BY DEF IInv, Shaped, Locals
  <2> HIDE DEF new
  <2>3. CallInv(call[p]) /\ RowsTyped
    BY DEF CallsInv
  <2>4. Pending = {}
    BY <1>2, <2>3, DueInOrder, FS_EmptySet DEF RemainingProducts
  <2>5. ASSUME new.recheck, new.throughout = new.began
        PROVE  new.throughout \subseteq new.saved
    <3>1. call[p].listed >= Cardinality(call[p].began)
      BY <1>1, <1>2, <2>2, <2>3, <2>5 DEF CallInv, Listing
    <3>2. call[p].began \subseteq call[p].saved \cup Range(call[p].pending)
      BY <1>1, <2>2, <2>3, <2>5, <3>1 DEF CallInv, Listing
    <3>3. Range(call[p].pending) = {}
      BY <1>1 DEF Range
    <3> QED BY <2>2, <2>5, <3>2, <3>3
  <2>6. CallInv(new)
    BY <2>2, <2>4, <2>5 DEF CallInv, Listing, Claimed, Queued, InTime
  <2> QED BY <1>1, <2>1, <2>2, <2>6, OwnCall
<1>3. CASE ~(RemainingProducts = 0 /\ ~call[p].truncated)
  <2>1. Goto(p, NoCall)
    BY <1>3 DEF FinishCall
  <2> QED BY <1>1, <2>1, IdleCall, IdleInv, OwnCall
<1> QED BY <1>2, <1>3

\* What saving a row changes: its product is resolved, the others are due as
\* before, and behind them all comes the row saved if it is the newest.
LEMMA AfterSave ==
    ASSUME RowsTyped, NEW row, row.at \in Int,
           row.source = "breadcrumb" => row.path # NoPath,
           cached' = {r \in cached : r.product # row.product} \cup {row},
           eligible' = eligible
    PROVE  /\ Pending' = Pending \ {row.product}
           /\ \A i, j \in eligible \ {row.product} :
                 <<i, j>> \in RecheckOrder' <=> <<i, j>> \in RecheckOrder
           /\ (\A r \in cached : r.at < row.at) =>
                 \A j \in eligible \ {row.product} :
                    /\ <<row.product, j>> \notin RecheckOrder'
                    /\ row.product \in eligible => <<j, row.product>> \in RecheckOrder'
<1> DEFINE k == row.product
<1>1. CacheKeys' = CacheKeys \cup {k}
  <2>1. ASSUME NEW j
        PROVE  (\E r \in cached' : r.product = j) <=> (j = k \/ \E r \in cached : r.product = j)
    OBVIOUS
  <2> QED BY <2>1 DEF CacheKeys
<1>2. (CHOOSE r \in cached' : r.product = k) = row
  OBVIOUS
<1>3. ASSUME NEW j \in CacheKeys \ {k}
      PROVE  (CHOOSE r \in cached' : r.product = j) = CacheRow(j)
  <2>1. CacheRow(j) \in cached /\ CacheRow(j).product = j
    BY CacheRowIs
  <2>2. CacheRow(j) \in cached'
    BY <2>1
  <2> DEFINE r0 == CHOOSE r \in cached' : r.product = j
  <2>3. r0 \in cached' /\ r0.product = j
    BY <2>1, <2>2, Zenon
  <2> HIDE DEF r0
  <2>4. r0 \in cached
    BY <2>3
  <2>5. r0 = CacheRow(j)
    BY <2>1, <2>3, <2>4 DEF RowsTyped
  <2> QED BY <2>5 DEF r0
<1>4. ASSUME NEW j \in eligible
      PROVE  Unresolved(j)' <=> j # k /\ Unresolved(j)
  <2>1. CASE j = k
    BY <1>1, <1>2, <2>1 DEF Unresolved, CacheRow
  <2>2. CASE j # k
    BY <1>1, <1>3, <2>2 DEF Unresolved, CacheRow
  <2> QED BY <2>1, <2>2
<1>5. Pending' = Pending \ {k}
  BY <1>4 DEF Pending
<1>6. ASSUME NEW i \in eligible, NEW j \in eligible
      PROVE  <<i, j>> \in RecheckOrder' <=> RecheckBefore(i, j)'
  BY DEF RecheckOrder
<1>7. ASSUME NEW i \in eligible \ {k}, NEW j \in eligible \ {k}
      PROVE  RecheckBefore(i, j)' <=> RecheckBefore(i, j)
  <2>1. CASE i \in CacheKeys /\ j \in CacheKeys
    <3>1. CacheRow(i)' = CacheRow(i) /\ CacheRow(j)' = CacheRow(j)
      BY <1>3, <2>1 DEF CacheRow
    <3>2. i \in CacheKeys' /\ j \in CacheKeys'
      BY <1>1, <2>1
    <3> QED BY <2>1, <3>1, <3>2 DEF RecheckBefore, OldestFirst
  <2>2. CASE i \notin CacheKeys \/ j \notin CacheKeys
    BY <1>1, <2>2 DEF RecheckBefore
  <2> QED BY <2>1, <2>2
<1>8. ASSUME \A r \in cached : r.at < row.at, NEW j \in eligible \ {k}
      PROVE  /\ ~RecheckBefore(k, j)'
             /\ RecheckBefore(j, k)'
  <2>1. CASE j \in CacheKeys
    <3>1. CacheRow(j).at \in Int /\ CacheRow(j).at < row.at
      BY <1>8, <2>1, CacheRowIs
    <3>2. (CHOOSE r \in cached' : r.product = j) = CacheRow(j)
      BY <1>3, <2>1
    <3>3. CacheRow(j).at # row.at /\ ~(row.at < CacheRow(j).at)
      BY <3>1
    <3>4. k \in CacheKeys' /\ j \in CacheKeys'
      BY <1>1, <2>1
    <3>5. CacheRow(k)' = row /\ CacheRow(j)' = CacheRow(j)
      BY <1>2, <3>2 DEF CacheRow
    <3> QED BY <3>1, <3>3, <3>4, <3>5 DEF RecheckBefore, OldestFirst
  <2>2. CASE j \notin CacheKeys
    BY <1>1, <2>2 DEF RecheckBefore
  <2> QED BY <2>1, <2>2
<1>9. RecheckOrder \subseteq eligible \X eligible /\ \A i, j \in eligible :
          <<i, j>> \in RecheckOrder <=> RecheckBefore(i, j)
  BY DEF RecheckOrder
<1>10. \A i, j \in eligible \ {k} : <<i, j>> \in RecheckOrder' <=> <<i, j>> \in RecheckOrder
  BY <1>6, <1>7, <1>9
<1>11. \A i, j : <<i, j>> \in RecheckOrder' => i \in eligible /\ j \in eligible
  BY DEF RecheckOrder
<1>12. ASSUME \A r \in cached : r.at < row.at, NEW j \in eligible \ {k}
       PROVE  /\ <<k, j>> \notin RecheckOrder'
              /\ k \in eligible => <<j, k>> \in RecheckOrder'
  BY <1>6, <1>8, <1>11, <1>12
<1> QED BY <1>5, <1>10, <1>12

\* What the transaction of an outcome leaves of the calls and the count.
LEMMA SaveLeaves ==
    ASSUME IInv, CallsInv, NEW p \in Caller, SaveOutcome(p)
    PROVE  \E row :
             /\ row.product = Head(call[p].pending) /\ row.at = call[p].at
             /\ row.source = call[p].outcome.source /\ row.path = call[p].outcome.path
             /\ cached' = {r \in cached : r.product # row.product} \cup {row}
             /\ observed' = observed \cup {row} /\ eligible' = eligible
             /\ rechecks' = IF Alone(p) THEN [rechecks EXCEPT ![row.product] = @ + 1]
                            ELSE [j \in Product |-> 0]
             /\ call[p].pc = "save" /\ call'[p].pc = "next"
             /\ call'[p].pending = Tail(call[p].pending)
             /\ call'[p].saved = call[p].saved \cup {row.product}
             /\ call'[p].listed = call[p].listed /\ call'[p].recheck = call[p].recheck
             /\ call'[p].began = call[p].began /\ call'[p].throughout = call[p].throughout
             /\ call'[p].truncated = call[p].truncated
             /\ call'[p].complete = call[p].complete
             /\ \A q \in Caller \ {p} :
                   /\ call'[q].pc = call[q].pc /\ call'[q].pending = call[q].pending
                   /\ call'[q].saved = call[q].saved /\ call'[q].listed = call[q].listed
                   /\ call'[q].recheck = call[q].recheck /\ call'[q].began = call[q].began
                   /\ call'[q].throughout = call[q].throughout
                   /\ call'[q].truncated = call[q].truncated
                   /\ call'[q].complete = call[q].complete
                   /\ call'[q].outcome = call[q].outcome
<1> DEFINE k == Head(call[p].pending)
           row == [product |-> k, source |-> call[p].outcome.source,
                   path |-> call[p].outcome.path, at |-> call[p].at]
<1>1. /\ Save(row) /\ eligible' = eligible /\ call[p].pc = "save"
      /\ rechecks' = IF Alone(p) THEN [rechecks EXCEPT ![k] = @ + 1]
                     ELSE [j \in Product |-> 0]
  BY DEF SaveOutcome
<1>2. call' = [q \in Caller |->
                  IF q = p THEN [call[p] EXCEPT !.pc = "next", !.pending = Tail(@),
                                                !.saved = @ \cup {k}, !.at = 0]
                  ELSE [call[q] EXCEPT !.overtaken = @ \/ Stamped(q, k)]]
  BY DEF SaveOutcome
<1> HIDE DEF k
<1>3. /\ row.product = k /\ row.at = call[p].at
      /\ row.source = call[p].outcome.source /\ row.path = call[p].outcome.path
  OBVIOUS
<1>4. /\ call'[p].pc = "next" /\ call'[p].pending = Tail(call[p].pending)
      /\ call'[p].saved = call[p].saved \cup {k}
      /\ call'[p].listed = call[p].listed /\ call'[p].recheck = call[p].recheck
      /\ call'[p].began = call[p].began /\ call'[p].throughout = call[p].throughout
      /\ call'[p].truncated = call[p].truncated /\ call'[p].complete = call[p].complete
  BY <1>2 DEF IInv, Shaped, Locals
<1>5. ASSUME NEW q \in Caller \ {p}
      PROVE  /\ call'[q].pc = call[q].pc /\ call'[q].pending = call[q].pending
             /\ call'[q].saved = call[q].saved /\ call'[q].listed = call[q].listed
             /\ call'[q].recheck = call[q].recheck /\ call'[q].began = call[q].began
             /\ call'[q].throughout = call[q].throughout
             /\ call'[q].truncated = call[q].truncated
             /\ call'[q].complete = call[q].complete
             /\ call'[q].outcome = call[q].outcome
  <2> DEFINE flag == call[q].overtaken \/ Stamped(q, k)
  <2>1. call'[q] = [call[q] EXCEPT !.overtaken = flag]
    BY <1>2
  <2> HIDE DEF flag
  <2> QED BY <2>1 DEF IInv, Shaped, Locals
<1>6. /\ cached' = {r \in cached : r.product # row.product} \cup {row}
      /\ observed' = observed \cup {row}
  BY <1>1 DEF Save, WithObservation
<1> HIDE DEF row
<1> WITNESS row
<1> QED BY <1>1, <1>3, <1>4, <1>5, <1>6 DEF k

\* The head and the tail of a list that repeats nothing.
LEMMA HeadAndTail ==
    ASSUME NEW S, NEW s \in Seq(S), s # <<>>, IsInjective(s)
    PROVE  /\ Head(s) \in S /\ Tail(s) \in Seq(S) /\ IsInjective(Tail(s))
           /\ Range(s) = {Head(s)} \cup Range(Tail(s))
           /\ 1 \in DOMAIN s /\ s[1] = Head(s)
           /\ \A i \in DOMAIN Tail(s) : /\ i + 1 \in DOMAIN s /\ Tail(s)[i] = s[i + 1]
                                        /\ Tail(s)[i] # Head(s) /\ i \in Nat
<1>1. /\ Tail(s) \in Seq(S) /\ Len(Tail(s)) = Len(s) - 1 /\ Len(s) \in Nat /\ Len(s) # 0
      /\ DOMAIN s = 1..Len(s) /\ DOMAIN Tail(s) = 1..Len(s) - 1
      /\ \A i \in 1..Len(s) - 1 : Tail(s)[i] = s[i + 1]
      /\ Head(s) = s[1] /\ Head(s) \in S
  OBVIOUS
<1>2. \A i \in DOMAIN Tail(s) : i + 1 \in DOMAIN s /\ Tail(s)[i] = s[i + 1] /\ i \in Nat
  BY <1>1
<1>3. IsInjective(Tail(s))
  BY <1>1, <1>2 DEF IsInjective
<1>4. \A i \in DOMAIN Tail(s) : Tail(s)[i] # Head(s)
  BY <1>1, <1>2 DEF IsInjective
<1>5. Range(s) = {Head(s)} \cup Range(Tail(s))
  <2>1. ASSUME NEW i \in DOMAIN s, i # 1
        PROVE  i - 1 \in DOMAIN Tail(s) /\ s[i] = Tail(s)[i - 1]
    <3>1. i - 1 \in DOMAIN Tail(s) /\ (i - 1) + 1 = i
      BY <1>1, <2>1
    <3> QED BY <1>2, <3>1
  <2>2. s[1] \in Range(s) /\ \A i \in DOMAIN Tail(s) : Tail(s)[i] \in Range(s)
    BY <1>1, <1>2 DEF Range
  <2>3. ASSUME NEW x \in Range(s), x # s[1]
        PROVE  x \in Range(Tail(s))
    <3>1. PICK i \in DOMAIN s : x = s[i]
      BY DEF Range
    <3>2. i - 1 \in DOMAIN Tail(s) /\ x = Tail(s)[i - 1]
      BY <2>1, <2>3, <3>1
    <3> QED BY <3>2 DEF Range
  <2>4. \A x \in Range(Tail(s)) : x \in Range(s)
    BY <2>2 DEF Range
  <2> QED BY <1>1, <2>2, <2>3, <2>4
<1> QED BY <1>1, <1>2, <1>3, <1>4, <1>5

LEMMA SaveClaims ==
    ASSUME IInv, CallsInv, NEW p \in Caller, SaveOutcome(p)
    PROVE  CallsInv'
<1>1. PICK row :
             /\ row.product = Head(call[p].pending) /\ row.at = call[p].at
             /\ row.source = call[p].outcome.source /\ row.path = call[p].outcome.path
             /\ cached' = {r \in cached : r.product # row.product} \cup {row}
             /\ observed' = observed \cup {row} /\ eligible' = eligible
             /\ rechecks' = IF Alone(p) THEN [rechecks EXCEPT ![row.product] = @ + 1]
                            ELSE [j \in Product |-> 0]
             /\ call[p].pc = "save" /\ call'[p].pc = "next"
             /\ call'[p].pending = Tail(call[p].pending)
             /\ call'[p].saved = call[p].saved \cup {row.product}
             /\ call'[p].listed = call[p].listed /\ call'[p].recheck = call[p].recheck
             /\ call'[p].began = call[p].began /\ call'[p].throughout = call[p].throughout
             /\ call'[p].truncated = call[p].truncated
             /\ call'[p].complete = call[p].complete
             /\ \A q \in Caller \ {p} :
                   /\ call'[q].pc = call[q].pc /\ call'[q].pending = call[q].pending
                   /\ call'[q].saved = call[q].saved /\ call'[q].listed = call[q].listed
                   /\ call'[q].recheck = call[q].recheck /\ call'[q].began = call[q].began
                   /\ call'[q].throughout = call[q].throughout
                   /\ call'[q].truncated = call[q].truncated
                   /\ call'[q].complete = call[q].complete
                   /\ call'[q].outcome = call[q].outcome
  BY SaveLeaves
<1> DEFINE k == row.product
           s == call[p].pending
<1>2. RowsTyped /\ Turns /\ Settled /\ \A q \in Caller : CallInv(call[q])
  BY DEF CallsInv
<1>3. /\ s \in Seq(Product) /\ s # <<>> /\ IsInjective(s) /\ k = Head(s)
      /\ Settles(call[p].outcome)
  BY <1>1, <1>2 DEF CallInv, Listing
<1>4. /\ k \in Product /\ Tail(s) \in Seq(Product) /\ IsInjective(Tail(s))
      /\ Range(s) = {k} \cup Range(Tail(s)) /\ 1 \in DOMAIN s /\ s[1] = k
      /\ \A i \in DOMAIN Tail(s) : /\ i + 1 \in DOMAIN s /\ Tail(s)[i] = s[i + 1]
                                   /\ Tail(s)[i] # k /\ i \in Nat
  BY <1>3, HeadAndTail
<1>5. /\ row.at \in Int /\ row.path \in Seq(Range(row.path))
      /\ row.source = "breadcrumb" => row.path # NoPath
  BY <1>1, <1>3 DEF IInv, StampStands, Settles
<1>6. /\ Pending' = Pending \ {k}
      /\ \A i, j \in eligible \ {k} :
            <<i, j>> \in RecheckOrder' <=> <<i, j>> \in RecheckOrder
      /\ (\A r \in cached : r.at < row.at) =>
            \A j \in eligible \ {k} :
               /\ <<k, j>> \notin RecheckOrder'
               /\ k \in eligible => <<j, k>> \in RecheckOrder'
  BY <1>1, <1>2, <1>5, AfterSave
<1>7. /\ rechecks \in [Product -> Nat] /\ eligible \subseteq Product
      /\ Pending \subseteq eligible
  BY <1>2 DEF RowsTyped, Pending
<1> HIDE DEF k, s
<1>8. RowsTyped'
  <2>1. rechecks' \in [Product -> Nat]
    <3>1. CASE Alone(p)
      <4>1. rechecks' = [rechecks EXCEPT ![k] = rechecks[k] + 1]
        BY <1>1, <3>1 DEF k
      <4>2. rechecks[k] + 1 \in Nat
        BY <1>4, <1>7
      <4> QED BY <1>7, <4>1, <4>2
    <3>2. CASE ~Alone(p)
      BY <1>1, <3>2
    <3> QED BY <3>1, <3>2
  <2>2. IsFiniteSet(observed')
    BY <1>1, <1>2, FS_AddElement DEF RowsTyped
  <2>3. \A r \in cached' : r.at \in Int /\ r.path \in Seq(Range(r.path))
    BY <1>1, <1>2, <1>5 DEF RowsTyped
  <2>4. \A r, t \in cached' : r.product = t.product => r = t
    BY <1>1, <1>2 DEF RowsTyped
  <2> QED BY <1>1, <1>7, <2>1, <2>2, <2>3, <2>4 DEF RowsTyped
<1>9. ASSUME NEW q \in Caller
      PROVE  Listing(call[q])' /\ Claimed(call[q])'
  <2>1. CASE q = p
    <3>1. Listing(call[p])
      BY <1>2 DEF CallInv
    <3>2. ~call[p].complete
      BY <1>1, <1>2 DEF CallInv, Claimed
    <3>3. call[p].recheck =>
              /\ call[p].listed >= Cardinality(call[p].began) =>
                     call[p].began \subseteq (call[p].saved \cup {k}) \cup Range(Tail(s))
              /\ ~call[p].truncated /\ call[p].throughout = call[p].began =>
                     call[p].listed >= Cardinality(call[p].began)
      BY <1>1, <1>4, <3>1 DEF Listing, s
    <3>4. /\ call'[p].pending \in Seq(Product) /\ IsInjective(call'[p].pending)
          /\ call'[p].listed \in Nat /\ call'[p].began \subseteq Product
          /\ call'[p].throughout \subseteq eligible'
          /\ call'[p].throughout \subseteq call'[p].began
      BY <1>1, <1>4, <3>1 DEF Listing, s
    <3>5. call'[p].recheck =>
              /\ call'[p].listed >= Cardinality(call'[p].began) =>
                     call'[p].began \subseteq call'[p].saved \cup Range(call'[p].pending)
              /\ ~call'[p].truncated /\ call'[p].throughout = call'[p].began =>
                     call'[p].listed >= Cardinality(call'[p].began)
      BY <1>1, <3>3 DEF k, s
    <3>6. Listing(call[p])'
      BY <1>1, <3>4, <3>5 DEF Listing
    <3>7. Claimed(call[p])'
      BY <1>1, <3>2 DEF Claimed
    <3> QED BY <2>1, <3>6, <3>7
  <2>2. CASE q # p
    <3>1. Listing(call[q]) /\ Claimed(call[q])
      BY <1>2 DEF CallInv
    <3>2. Listing(call[q])'
      BY <1>1, <2>2, <3>1 DEF Listing
    <3>3. Claimed(call[q])'
      BY <1>1, <1>6, <2>2, <3>1 DEF Claimed
    <3> QED BY <3>2, <3>3
  <2> QED BY <2>1, <2>2
<1>10. CASE ~Alone(p)
  <2>1. rechecks' = [j \in Product |-> 0]
    BY <1>1, <1>10
  <2>2. Turns' /\ Settled'
    <3>1. Pending' \subseteq Product
      BY <1>6, <1>7
    <3>2. eligible' \subseteq Product
      BY <1>1, <1>7
    <3> QED BY <2>1, <3>1, <3>2 DEF Turns, Settled
  <2>3. ASSUME NEW q \in Caller
        PROVE  CallInv(call[q])'
    <3>1. Listing(call[q])' /\ Claimed(call[q])'
      BY <1>9
    <3>2. InTime(call[q])'
      BY <2>1 DEF InTime
    <3>3. call'[q].pc # "idle" =>
              \A i \in DOMAIN call'[q].pending : rechecks'[call'[q].pending[i]] = 0
      <4>1. call'[q].pc # "idle" => call'[q].pending \in Seq(Product)
        BY <3>1 DEF Listing
      <4> QED BY <2>1, <4>1
    <3>4. Queued(call[q])'
      BY <3>3 DEF Queued
    <3> QED BY <3>1, <3>2, <3>4 DEF CallInv
  <2> QED BY <1>8, <2>2, <2>3 DEF CallsInv
<1>11. CASE Alone(p)
  <2>1. rechecks' = [rechecks EXCEPT ![k] = @ + 1]
    BY <1>1, <1>11 DEF k
  <2>2. /\ rechecks'[k] = rechecks[k] + 1 /\ rechecks[k] \in Nat
        /\ \A j \in Product \ {k} : rechecks'[j] = rechecks[j]
        /\ \A j \in Product : rechecks[j] \in Nat
    BY <1>4, <1>7, <2>1
  <2>3. \/ \A j \in Product : rechecks[j] = 0
        \/ \A r \in cached : r.at < row.at
    BY <1>1, <1>2 DEF CallInv, InTime
  <2>4. Settled'
    BY <1>2, <1>6, <1>7, <2>2 DEF Settled
  <2>5. \/ rechecks[k] = 0
        \/ \A j \in eligible : <<j, k>> \notin RecheckOrder
    <3>1. \/ rechecks[s[1]] = 0
          \/ \A j \in eligible : <<j, s[1]>> \in RecheckOrder => \E l \in 1..1 - 1 : s[l] = j
      BY <1>1, <1>2, <1>4 DEF CallInv, Queued, s
    <3>2. 1..1 - 1 = {}
      OBVIOUS
    <3> QED BY <1>4, <3>1, <3>2
  <2>6. Turns'
    <3>1. ASSUME NEW i \in eligible, NEW j \in eligible
          PROVE  /\ rechecks'[i] <= rechecks'[j] + 2
                 /\ rechecks'[i] >= rechecks'[j] + 2 => <<j, i>> \in RecheckOrder'
      <4>1. /\ rechecks[i] <= rechecks[j] + 2
            /\ rechecks[i] >= rechecks[j] + 2 => <<j, i>> \in RecheckOrder
            /\ rechecks[i] \in Nat /\ rechecks[j] \in Nat /\ i \in Product /\ j \in Product
        BY <1>2, <1>7, <2>2 DEF Turns
      <4>2. CASE i = k /\ j = k
        BY <2>2, <4>1, <4>2
      <4>3. CASE i # k /\ j # k
        BY <1>6, <2>2, <4>1, <4>3
      <4>4. CASE i # k /\ j = k
        BY <2>2, <4>1, <4>4
      <4>5. CASE i = k /\ j # k
        <5>1. rechecks[k] = 0 \/ ~(rechecks[k] >= rechecks[j] + 2)
          BY <2>5, <4>1, <4>5
        <5>2. rechecks'[i] = rechecks[k] + 1 /\ rechecks'[j] = rechecks[j]
          BY <2>2, <4>1, <4>5
        <5>3. rechecks'[i] <= rechecks'[j] + 2
          BY <2>2, <4>1, <5>1, <5>2
        <5>4. CASE \A l \in Product : rechecks[l] = 0
          <6>1. rechecks[k] = 0 /\ rechecks[j] = 0
            BY <1>4, <4>1, <5>4
          <6> QED BY <5>2, <5>3, <6>1
        <5>5. CASE \A r \in cached : r.at < row.at
          BY <1>6, <4>5, <5>3, <5>5
        <5> QED BY <2>3, <5>4, <5>5
      <4> QED BY <4>2, <4>3, <4>4, <4>5
    <3> QED BY <1>1, <3>1 DEF Turns
  <2>7. ASSUME NEW q \in Caller
        PROVE  Queued(call[q])' /\ InTime(call[q])'
    <3>1. CASE q # p
      <4>1. call'[q].pc = "idle"
        BY <1>1, <1>11, <3>1 DEF Alone
      <4> QED BY <4>1 DEF Queued, InTime
    <3>2. CASE q = p
      <4>1. InTime(call[p])'
        BY <1>1 DEF InTime
      <4>2. ASSUME NEW i \in DOMAIN Tail(s), rechecks'[Tail(s)[i]] # 0,
                   NEW j \in eligible, <<j, Tail(s)[i]>> \in RecheckOrder'
            PROVE  \E l \in 1..i - 1 : Tail(s)[l] = j
        <5> DEFINE y == Tail(s)[i]
        <5>1. y = s[i + 1] /\ i + 1 \in DOMAIN s /\ y # k /\ i \in Nat
          BY <1>4
        <5>2. y \in Product
          BY <1>4
        <5>3. y \in eligible
          BY <1>1, <4>2 DEF RecheckOrder
        <5>4. rechecks[y] # 0
          BY <2>2, <4>2, <5>1, <5>2
        <5>5. \A r \in cached : r.at < row.at
          BY <2>3, <5>2, <5>4
        <5>6. j # k
          BY <1>6, <4>2, <5>1, <5>3, <5>5
        <5>7. <<j, s[i + 1]>> \in RecheckOrder
          BY <1>6, <4>2, <5>1, <5>3, <5>6
        <5>8. PICK l \in 1..(i + 1) - 1 : s[l] = j
          BY <1>1, <1>2, <5>1, <5>4, <5>7 DEF CallInv, Queued, s
        <5>9. l # 1 /\ l \in 1..i /\ l - 1 \in 1..i - 1
          BY <1>4, <5>1, <5>6, <5>8
        <5>10. l - 1 \in DOMAIN Tail(s) /\ (l - 1) + 1 = l
          BY <1>4, <5>1, <5>9
        <5>11. Tail(s)[l - 1] = j
          BY <1>4, <5>8, <5>10
        <5> QED BY <5>9, <5>11
      <4>3. Queued(call[p])'
        BY <1>1, <4>2 DEF Queued, s
      <4> QED BY <3>2, <4>1, <4>3
    <3> QED BY <3>1, <3>2
  <2>8. \A q \in Caller : CallInv(call[q])'
    BY <1>9, <2>7 DEF CallInv
  <2> QED BY <1>8, <2>4, <2>6, <2>8 DEF CallsInv
<1> QED BY <1>10, <1>11

\* A change of the orders starts all counts again, and takes back what calls have
\* claimed.
LEMMA OrdersChangedClaims ==
    ASSUME IInv, CallsInv, NEW new, new \subseteq Product, OrdersChanged(new), RowsTyped'
    PROVE  CallsInv'
<1>1. /\ eligible' = new /\ rechecks' = [k \in Product |-> 0]
      /\ call' = [p \in Caller |->
                  IF call[p].complete THEN NoCall
                  ELSE [call[p] EXCEPT !.throughout = @ \cap new]]
  BY DEF OrdersChanged
<1>2. Turns' /\ Settled'
  BY <1>1 DEF Turns, Settled, Pending
<1>3. ASSUME NEW p \in Caller
      PROVE  CallInv(call[p])'
  <2>1. CASE call[p].complete
    <3>1. call'[p] = NoCall
      BY <1>1, <2>1
    <3>2. call'[p].pc = "idle" /\ call'[p].complete = FALSE
      BY <3>1 DEF NoCall
    <3> QED BY <3>2 DEF CallInv, Listing, Claimed, Queued, InTime
  <2>2. CASE ~call[p].complete
    <3> DEFINE c == call[p]
    <3>1. call'[p] = [c EXCEPT !.throughout = c.throughout \cap new]
      BY <1>1, <2>2
    <3>2. /\ call'[p].pc = c.pc /\ call'[p].pending = c.pending
          /\ call'[p].listed = c.listed /\ call'[p].outcome = c.outcome
          /\ call'[p].began = c.began /\ call'[p].recheck = c.recheck
          /\ call'[p].saved = c.saved /\ call'[p].truncated = c.truncated
          /\ call'[p].complete = c.complete
          /\ call'[p].throughout = c.throughout \cap new
      BY <3>1 DEF IInv, Shaped, Locals
    <3>3. Listing(c)
      BY DEF CallsInv, CallInv
    <3> HIDE DEF c
    <3>4. c.pc # "idle" /\ c.throughout \cap new = c.began => c.throughout = c.began
      BY <3>3 DEF Listing
    <3>5. Listing(call[p])'
      BY <1>1, <3>2, <3>3, <3>4 DEF Listing
    <3>6. Claimed(call[p])'
      BY <2>2, <3>2 DEF Claimed, c
    <3>7. InTime(call[p])'
      BY <1>1 DEF InTime
    <3>8. c.pc # "idle" => \A i \in DOMAIN c.pending : rechecks'[c.pending[i]] = 0
      BY <1>1, <3>3 DEF Listing
    <3>9. Queued(call[p])'
      BY <3>2, <3>8 DEF Queued
    <3> QED BY <3>5, <3>6, <3>7, <3>9 DEF CallInv
  <2> QED BY <2>1, <2>2
<1> QED BY <1>2, <1>3 DEF CallsInv

LEMMA EditsClaim ==
    ASSUME IInv, CallsInv, ReplaceOrders \/ Purge
    PROVE  CallsInv'
<1>0. RowsTyped /\ eligible \subseteq Product
  BY DEF CallsInv, RowsTyped
<1>1. CASE ReplaceOrders
  <2>1. PICK k \in Product :
            OrdersChanged(IF k \in eligible THEN eligible \ {k} ELSE eligible \cup {k})
    BY <1>1 DEF ReplaceOrders
  <2> DEFINE new == IF k \in eligible THEN eligible \ {k} ELSE eligible \cup {k}
  <2>2. new \subseteq Product /\ OrdersChanged(new)
    BY <1>0, <2>1
  <2> HIDE DEF new
  <2>3. cached' = cached /\ observed' = observed
    BY <1>1 DEF ReplaceOrders, tables
  <2>4. eligible' = new /\ rechecks' = [j \in Product |-> 0]
    BY <2>2 DEF OrdersChanged
  <2>5. RowsTyped'
    BY <1>0, <2>2, <2>3, <2>4 DEF RowsTyped
  <2> QED BY <2>2, <2>5, OrdersChangedClaims
<1>2. CASE Purge
  <2>1. cached' = {} /\ observed' = {} /\ OrdersChanged({})
    BY <1>2 DEF Purge, Empty
  <2>2. eligible' = {} /\ rechecks' = [j \in Product |-> 0]
    BY <2>1 DEF OrdersChanged
  <2>3. RowsTyped'
    BY <2>1, <2>2, FS_EmptySet DEF RowsTyped
  <2> QED BY <2>1, <2>3, OrdersChangedClaims
<1> QED BY <1>1, <1>2

LEMMA StepsClaim ==
    ASSUME IInv, CallsInv, [Next]_vars
    PROVE  CallsInv'
<1>1. ASSUME NEW p \in Caller, CallStep(p)
      PROVE  CallsInv'
  BY <1>1, StartClaims, CountClaims, EnrichClaims, SaveClaims, FailClaims, FinishClaims
     DEF CallStep
<1>2. CASE ReplaceOrders \/ Purge
  BY <1>2, EditsClaim
<1>3. CASE UNCHANGED vars
  <2>1. UNCHANGED <<tables, eligible, rechecks>> /\ call' = call
    BY <1>3 DEF vars
  <2>2. \A q \in Caller : CallInv(call'[q])
    BY <2>1 DEF CallsInv
  <2> QED BY <2>1, <2>2, OneCallChanges
<1> QED BY <1>1, <1>2, <1>3 DEF Next

\* Every call keeps its word and every product its turn: what the two properties
\* below rest on.
THEOREM CallsKeepTheirWord == Spec => []CallsInv
<1>1. Init => CallsInv
  BY CallsStart
<1>2. IInv /\ CallsInv /\ [Next]_vars => CallsInv'
  BY StepsClaim
<1> QED BY <1>1, <1>2, Invariant, PTL DEF Spec

\* A complete result has left no product of the orders unresolved, and a complete
\* recheck has stored every product its list was taken from, unless one has left
\* the orders meanwhile (EnrichCategories of internal/orders/service.go).
THEOREM CompletionIsEarned == Spec => []CompleteIsEarned
<1>1. CallsInv => CompleteIsEarned
  <2> SUFFICES ASSUME CallsInv, NEW p \in Caller, call[p].complete
               PROVE  /\ \A k \in eligible : ~Unresolved(k)
                      /\ call[p].recheck /\ call[p].throughout = call[p].began =>
                             call[p].throughout \subseteq call[p].saved
    BY DEF CompleteIsEarned
  <2>1. Claimed(call[p])
    BY DEF CallsInv, CallInv
  <2>2. Pending = {}
    BY <2>1 DEF Claimed
  <2>3. \A k \in eligible : ~Unresolved(k)
    BY <2>2 DEF Pending
  <2> QED BY <2>1, <2>3 DEF Claimed
<1> QED BY <1>1, CallsKeepTheirWord, PTL

\* However many products there are and wherever calls end, no product is
\* rechecked more than twice while another of the orders waits
\* (CategoryProductsForEnrichment of internal/store/categories.go).
THEOREM RechecksTakeTurns == Spec => []RechecksAreFair
<1>1. CallsInv => RechecksAreFair
  BY DEF CallsInv, Turns, RechecksAreFair
<1> QED BY <1>1, CallsKeepTheirWord, PTL

-----------------------------------------------------------------------------
(* The two reports.                                                        *)

\* A set with elements that all agree has at most one of them.
LEMMA AtMostOne ==
    ASSUME NEW S, \A x, y \in S : x = y
    PROVE  ~(Cardinality(S) > 1)
<1>1. CASE S = {}
  <2>1. Cardinality(S) = 0
    BY <1>1, FS_EmptySet
  <2> QED BY <2>1
<1>2. CASE S # {}
  <2>1. PICK x \in S : S = {x}
    BY <1>2
  <2>2. Cardinality(S) = 1
    BY <2>1, FS_Singleton
  <2> QED BY <2>2
<1> QED BY <1>1, <1>2

\* A finite set with two elements has at least two.
LEMMA AtLeastTwo ==
    ASSUME NEW S, IsFiniteSet(S), NEW x \in S, NEW y \in S, x # y
    PROVE  Cardinality(S) >= 2 /\ Cardinality(S) > 1
<1>1. Cardinality({x, y}) = 2 /\ {x, y} \in SUBSET S
  <2>1. IsFiniteSet({x}) /\ Cardinality({x}) = 1
    BY FS_Singleton
  <2>2. Cardinality({x} \cup {y}) = Cardinality({x}) + 1
    BY <2>1, FS_AddElement
  <2>3. {x} \cup {y} = {x, y}
    OBVIOUS
  <2> QED BY <2>1, <2>2, <2>3
<1>2. Cardinality({x, y}) <= Cardinality(S) /\ Cardinality(S) \in Nat
  BY <1>1, FS_Subset, FS_CardinalityType
<1> QED BY <1>1, <1>2

LEMMA StabilityHolds ==
    ASSUME RowsTyped
    PROVE  StabilityIsLongitudinal
<1> SUFFICES ASSUME Assessment = "stable_within_local_observation_window"
             PROVE  /\ \E k \in eligible : \E a, b \in BreadcrumbsOf(k) :
                           a.at \div Day # b.at \div Day
                    /\ \A k \in eligible : \A a, b \in BreadcrumbsOf(k) : a.path = b.path
  BY DEF StabilityIsLongitudinal
<1>1. Changed = {} /\ MultiDay # {}
  BY DEF Assessment
<1>2. \E k \in eligible : \E a, b \in BreadcrumbsOf(k) : a.at \div Day # b.at \div Day
  <2>1. PICK k \in MultiDay : TRUE
    BY <1>1
  <2>2. k \in eligible /\ Cardinality(DaysOf(BreadcrumbsOf(k))) > 1
    BY DEF MultiDay, Rechecked
  <2>3. PICK d \in DaysOf(BreadcrumbsOf(k)), e \in DaysOf(BreadcrumbsOf(k)) : d # e
    BY <2>2, AtMostOne
  <2>4. PICK a \in BreadcrumbsOf(k) : d = a.at \div Day
    BY DEF DaysOf
  <2>5. PICK b \in BreadcrumbsOf(k) : e = b.at \div Day
    BY DEF DaysOf
  <2> QED BY <2>2, <2>3, <2>4, <2>5
<1>3. ASSUME NEW k \in eligible, NEW a \in BreadcrumbsOf(k), NEW b \in BreadcrumbsOf(k),
             a.path # b.path
      PROVE  FALSE
  <2> DEFINE os == BreadcrumbsOf(k)
             paths == {o.path : o \in os}
             pathOf == [o \in os |-> o.path]
  <2>1. IsFiniteSet(os)
    <3>1. os \in SUBSET observed
      BY DEF BreadcrumbsOf
    <3> QED BY <3>1, FS_Subset DEF RowsTyped
  <2>2. a \in os /\ b \in os /\ a # b
    BY <1>3
  <2> HIDE DEF os
  <2>3. Cardinality(os) >= 2
    BY <2>1, <2>2, AtLeastTwo
  <2>4. k \in Rechecked
    BY <2>3 DEF Rechecked, os
  <2>5. pathOf \in Surjection(os, paths)
    BY DEF Surjection
  <2>6. IsFiniteSet(paths)
    BY <2>1, <2>5, FS_Surjection
  <2>7. a.path \in paths /\ b.path \in paths
    BY <2>2
  <2> HIDE DEF paths
  <2>8. Cardinality(paths) > 1
    BY <1>3, <2>6, <2>7, AtLeastTwo
  <2>9. k \in Changed
    BY <2>4, <2>8 DEF Changed, paths, os
  <2> QED BY <1>1, <2>9
<1> QED BY <1>2, <1>3

\* A prefix has the elements of the sequence at its places.
LEMMA PrefixIs ==
    ASSUME NEW T, NEW s \in Seq(T), NEW t \in Seq(T)
    PROVE  IsPrefix(s, t) <=> Len(s) <= Len(t) /\ \A i \in 1..Len(s) : s[i] = t[i]
<1>1. /\ Len(s) \in Nat /\ Len(t) \in Nat
      /\ DOMAIN s = 1..Len(s) /\ DOMAIN t = 1..Len(t)
  OBVIOUS
<1>2. ASSUME Len(s) <= Len(t)
      PROVE  /\ SubSeq(t, 1, Len(s)) \in Seq(T) /\ Len(SubSeq(t, 1, Len(s))) = Len(s)
             /\ \A i \in 1..Len(s) : SubSeq(t, 1, Len(s))[i] = t[i]
  BY <1>1, <1>2
<1>3. SubSeq(s, 1, Len(s)) = s
  BY <1>1
<1>4. ASSUME Len(s) <= Len(t)
      PROVE  s = SubSeq(t, 1, Len(s)) <=> \A i \in 1..Len(s) : s[i] = t[i]
  BY <1>1, <1>2, <1>4
<1> QED BY <1>3, <1>4 DEF IsPrefix

\* The prefix of a given length.
LEMMA CutIs ==
    ASSUME NEW T, NEW t \in Seq(T), NEW l \in 0..Len(t)
    PROVE  /\ SubSeq(t, 1, l) \in Seq(T) /\ Len(SubSeq(t, 1, l)) = l
           /\ \A i \in 1..l : SubSeq(t, 1, l)[i] = t[i]
           /\ l # 0 => SubSeq(t, 1, l) # NoPath
<1>1. SubSeq(t, 1, l) \in Seq(T) /\ Len(SubSeq(t, 1, l)) = l
  OBVIOUS
<1>2. \A i \in 1..l : SubSeq(t, 1, l)[i] = t[i]
  OBVIOUS
<1>3. l # 0 => SubSeq(t, 1, l) # NoPath
  <2>1. Len(NoPath) = 0
    BY DEF NoPath
  <2> QED BY <1>1, <2>1
<1> QED BY <1>1, <1>2, <1>3

\* Sequences of one length with the same elements are one.
LEMMA SameSequence ==
    ASSUME NEW T, NEW s \in Seq(T), NEW t \in Seq(T), Len(s) = Len(t),
           \A i \in 1..Len(s) : s[i] = t[i]
    PROVE  s = t
  OBVIOUS

Labels == UNION {Range(PathOf(k)) : k \in Classified}

LEMMA PathsAre ==
    ASSUME RowsTyped
    PROVE  /\ IsFiniteSet(Classified)
           /\ \A k \in Classified : PathOf(k) \in Seq(Labels)
           /\ \A e \in Entries : /\ e \in Seq(Labels) /\ Len(e) \in Nat \ {0}
                                 /\ \E k \in Classified : IsPrefix(e, PathOf(k))
<1>1. IsFiniteSet(Classified)
  <2>1. Classified \in SUBSET eligible
    BY DEF Classified
  <2> QED BY <2>1, DueInOrder, FS_Subset
<1>2. ASSUME NEW k \in Classified
      PROVE  PathOf(k) \in Seq(Labels)
  <2>1. k \in CacheKeys
    BY DEF Classified
  <2>2. PathOf(k) \in Seq(Range(PathOf(k)))
    BY <2>1, CacheRowIs DEF RowsTyped, PathOf
  <2>3. Range(PathOf(k)) \subseteq Labels
    BY DEF Labels
  <2> QED BY <2>2, <2>3
<1>3. ASSUME NEW e \in Entries
      PROVE  /\ e \in Seq(Labels) /\ Len(e) \in Nat \ {0}
             /\ \E k \in Classified : IsPrefix(e, PathOf(k))
  <2>1. PICK k \in Classified : e \in Prefixes(PathOf(k)) \ {NoPath}
    BY DEF Entries
  <2> DEFINE t == PathOf(k)
  <2>2. PICK l \in 0..Len(t) : e = SubSeq(t, 1, l)
    BY <2>1 DEF Prefixes
  <2>3. t \in Seq(Labels)
    BY <1>2
  <2> HIDE DEF t
  <2>4. /\ e \in Seq(Labels) /\ Len(e) = l /\ \A i \in 1..l : e[i] = t[i]
    BY <2>2, <2>3, CutIs
  <2>5. l # 0
    <3>1. SubSeq(t, 1, 0) = <<>>
      BY <2>3
    <3> QED BY <2>1, <2>2, <3>1 DEF NoPath
  <2>6. IsPrefix(e, t)
    BY <2>3, <2>4, PrefixIs
  <2> QED BY <2>4, <2>5, <2>6 DEF t
<1> QED BY <1>1, <1>2, <1>3

\* The entries one level below an entry.
Children(entry) == {e \in Entries : Len(e) = Len(entry) + 1 /\ IsPrefix(entry, e)}

\* The products below an entry that are not its own leaves.
Passing(entry) == {k \in Below(entry) : ~IsLeafOf(entry, k)}

\* Each of them is below one child of the entry, and what is below a child is one
\* of them.
LEMMA OneChild ==
    ASSUME RowsTyped, NEW entry \in Entries
    PROVE  /\ \A k \in Passing(entry) :
                 /\ SubSeq(PathOf(k), 1, Len(entry) + 1) \in Children(entry)
                 /\ k \in Below(SubSeq(PathOf(k), 1, Len(entry) + 1))
           /\ \A e \in Children(entry) : \A k \in Below(e) :
                 k \in Passing(entry) /\ e = SubSeq(PathOf(k), 1, Len(entry) + 1)
           /\ \A e \in Children(entry) : Below(e) # {}
<1> DEFINE L == Len(entry)
<1>1. entry \in Seq(Labels) /\ L \in Nat \ {0}
  BY PathsAre
<1>2. \A k \in Classified : PathOf(k) \in Seq(Labels) /\ Len(PathOf(k)) \in Nat
  BY PathsAre
<1>3. \A e \in Entries : e \in Seq(Labels) /\ \E k \in Classified : IsPrefix(e, PathOf(k))
  BY PathsAre
<1>4. ASSUME NEW k \in Passing(entry)
      PROVE  /\ SubSeq(PathOf(k), 1, L + 1) \in Children(entry)
             /\ k \in Below(SubSeq(PathOf(k), 1, L + 1))
  <2> DEFINE t == PathOf(k)
             c == SubSeq(t, 1, L + 1)
  <2>1. k \in Classified /\ IsPrefix(entry, t) /\ L # Len(t)
    BY DEF Passing, Below, IsLeafOf
  <2>2. t \in Seq(Labels) /\ Len(t) \in Nat
    BY <1>2, <2>1
  <2> HIDE DEF t
  <2>3. L <= Len(t) /\ \A i \in 1..L : entry[i] = t[i]
    BY <1>1, <2>1, <2>2, PrefixIs
  <2>4. L + 1 \in 0..Len(t) /\ L + 1 # 0 /\ L + 1 <= Len(t) /\ L <= L + 1
    BY <1>1, <2>1, <2>2, <2>3
  <2>5. c \in Seq(Labels) /\ Len(c) = L + 1 /\ c # NoPath /\ \A i \in 1..L + 1 : c[i] = t[i]
    BY <2>2, <2>4, CutIs
  <2>6. c \in Prefixes(t)
    BY <2>4 DEF Prefixes
  <2>7. c \in Entries
    BY <2>1, <2>5, <2>6 DEF Entries, t
  <2> HIDE DEF c
  <2>8. IsPrefix(c, t)
    BY <2>2, <2>4, <2>5, PrefixIs
  <2>9. \A i \in 1..L : i \in 1..L + 1
    BY <1>1
  <2>10. \A i \in 1..L : entry[i] = c[i]
    BY <2>3, <2>5, <2>9
  <2>11. IsPrefix(entry, c)
    BY <1>1, <2>4, <2>5, <2>10, PrefixIs
  <2>12. c \in Children(entry)
    BY <2>5, <2>7, <2>11 DEF Children
  <2>13. k \in Below(c)
    BY <2>1, <2>8 DEF Below, t
  <2> QED BY <2>12, <2>13 DEF c, t
<1>5. ASSUME NEW e \in Children(entry), NEW k \in Below(e)
      PROVE  k \in Passing(entry) /\ e = SubSeq(PathOf(k), 1, L + 1)
  <2> DEFINE t == PathOf(k)
             c == SubSeq(t, 1, L + 1)
  <2>1. /\ e \in Entries /\ Len(e) = L + 1 /\ IsPrefix(entry, e)
        /\ k \in Classified /\ IsPrefix(e, t)
    BY DEF Children, Below
  <2>2. t \in Seq(Labels) /\ Len(t) \in Nat /\ e \in Seq(Labels)
    BY <1>2, <1>3, <2>1
  <2> HIDE DEF t
  <2>3. L + 1 <= Len(t) /\ \A i \in 1..L + 1 : e[i] = t[i]
    BY <2>1, <2>2, PrefixIs
  <2>4. \A i \in 1..L : entry[i] = e[i]
    BY <1>1, <2>1, <2>2, PrefixIs
  <2>5. L + 1 \in 0..Len(t) /\ L <= Len(t) /\ L # Len(t)
    BY <1>1, <2>2, <2>3
  <2>6. c \in Seq(Labels) /\ Len(c) = L + 1 /\ \A i \in 1..L + 1 : c[i] = t[i]
    BY <2>2, <2>5, CutIs
  <2> HIDE DEF c
  <2>7. e = c
    BY <2>1, <2>2, <2>3, <2>6, SameSequence
  <2>8. \A i \in 1..L : i \in 1..L + 1
    BY <1>1
  <2>9. \A i \in 1..L : entry[i] = t[i]
    BY <2>3, <2>4, <2>8
  <2>10. IsPrefix(entry, t)
    BY <1>1, <2>2, <2>5, <2>9, PrefixIs
  <2>11. k \in Passing(entry)
    BY <2>1, <2>5, <2>10 DEF Passing, Below, IsLeafOf, t
  <2> QED BY <2>7, <2>11 DEF c, t
<1>6. ASSUME NEW e \in Children(entry)
      PROVE  Below(e) # {}
  BY <1>3 DEF Children, Below
<1> QED BY <1>4, <1>5, <1>6

LEMMA CatalogHolds ==
    ASSUME RowsTyped
    PROVE  CatalogAddsUp
<1> SUFFICES ASSUME NEW entry \in Entries
             PROVE  /\ AncestorCount(entry) =
                           SumFunctionOnSet([e \in Entries |-> ObservedCount(e)],
                                            Children(entry))
                    /\ Role(entry) = "never_leaf" <=> \A k \in Classified : PathOf(k) # entry
  BY DEF CatalogAddsUp, Children
<1>1. \A e \in Entries : IsFiniteSet(Below(e))
  <2>1. \A e \in Entries : Below(e) \in SUBSET Classified
    BY DEF Below
  <2> QED BY <2>1, PathsAre, FS_Subset
<1> DEFINE child == [k \in Passing(entry) |-> SubSeq(PathOf(k), 1, Len(entry) + 1)]
           f == [e \in Entries |-> ObservedCount(e)]
           A == [e \in Entries |-> Below(e)]
<1>2. Children(entry) \subseteq Entries /\ Passing(entry) \in SUBSET Below(entry)
  BY DEF Children, Passing
<1>3. IsFiniteSet(Passing(entry))
  BY <1>1, <1>2, FS_Subset
<1>4. child \in Surjection(Passing(entry), Children(entry))
  <2>1. child \in [Passing(entry) -> Children(entry)]
    BY OneChild
  <2>2. \A e \in Children(entry) : \E k \in Passing(entry) : child[k] = e
    BY OneChild
  <2> HIDE DEF child
  <2> QED BY <2>1, <2>2 DEF Surjection
<1>5. IsFiniteSet(Children(entry))
  BY <1>3, <1>4, FS_Surjection
<1>6. /\ Disjoint(A, Children(entry))
      /\ \A e \in Children(entry) : IsFiniteSet(A[e]) /\ f[e] = Cardinality(A[e])
  <2>1. \A e \in Children(entry) : IsFiniteSet(A[e]) /\ f[e] = Cardinality(A[e])
    BY <1>1, <1>2 DEF ObservedCount
  <2>2. \A d, e \in Children(entry) : d # e => Below(d) \cap Below(e) = {}
    BY OneChild
  <2>3. \A d, e \in Children(entry) : d # e => A[d] \cap A[e] = {}
    BY <1>2, <2>2
  <2> HIDE DEF A, f
  <2> QED BY <2>1, <2>3 DEF Disjoint
<1>7. Together(A, Children(entry)) = Passing(entry)
  <2>1. ASSUME NEW k
        PROVE  k \in Passing(entry) <=> \E e \in Children(entry) : k \in Below(e)
    BY OneChild
  <2>2. \A e \in Children(entry) : A[e] = Below(e)
    BY <1>2
  <2> HIDE DEF A
  <2> QED BY <2>1, <2>2 DEF Together
<1>8. AncestorCount(entry) = Cardinality(Passing(entry))
  BY DEF AncestorCount, Passing
<1>9. AncestorCount(entry) = SumFunctionOnSet(f, Children(entry))
  <2> HIDE DEF A, f
  <2> QED BY <1>5, <1>6, <1>7, <1>8, SizesAddUp
<1>10. Role(entry) = "never_leaf" <=> \A k \in Classified : PathOf(k) # entry
  <2> DEFINE leaves == {k \in Below(entry) : IsLeafOf(entry, k)}
  <2>1. \A k \in Classified : k \in leaves <=> PathOf(k) = entry
    <3>1. entry \in Seq(Labels) /\ Len(entry) \in Nat
      BY PathsAre
    <3> SUFFICES ASSUME NEW k \in Classified
                 PROVE  IsPrefix(entry, PathOf(k)) /\ Len(entry) = Len(PathOf(k))
                            <=> PathOf(k) = entry
      BY DEF Below, IsLeafOf
    <3> DEFINE t == PathOf(k)
    <3>2. t \in Seq(Labels)
      BY PathsAre
    <3> HIDE DEF t
    <3>3. IsPrefix(entry, t) /\ Len(entry) = Len(t) => t = entry
      BY <3>1, <3>2, PrefixIs, SameSequence
    <3>4. t = entry => IsPrefix(entry, t) /\ Len(entry) = Len(t)
      BY <3>1, PrefixIs
    <3> QED BY <3>3, <3>4 DEF t
  <2>2. leaves \in SUBSET Classified /\ leaves \in SUBSET Below(entry)
    BY DEF Below
  <2>3. LeafCount(entry) = Cardinality(leaves)
    BY DEF LeafCount
  <2> HIDE DEF leaves
  <2>4. LeafCount(entry) \in Nat /\ (LeafCount(entry) = 0 <=> leaves = {})
    BY <1>1, <2>2, <2>3, FS_Subset, FS_CardinalityType, FS_EmptySet
  <2>5. AncestorCount(entry) \in Nat
    BY <1>3, <1>8, FS_CardinalityType
  <2>6. Role(entry) = "never_leaf" <=> LeafCount(entry) = 0
    BY <2>4, <2>5 DEF Role
  <2> QED BY <2>1, <2>2, <2>4, <2>6
<1> QED BY <1>9, <1>10

\* The catalogue counts every product below an entry once, level by level, and
\* stability is only claimed when some product was seen on two days and none
\* with two paths (CategoryCatalog and CategoryStability of
\* internal/store/categories.go).
THEOREM ReportsGrounded == Spec => []CategoryReportsGrounded
<1>1. CallsInv => CategoryReportsGrounded
  BY CatalogHolds, StabilityHolds DEF CallsInv, CategoryReportsGrounded
<1> QED BY <1>1, CallsKeepTheirWord, PTL

=============================================================================

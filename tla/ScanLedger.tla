----------------------------- MODULE ScanLedger -----------------------------
(***************************************************************************)
(* What order synchronisation promises about the ledger, with no attempts, *)
(* processes, locks, run rows or failures: a single walk through the       *)
(* upstream history that can be left open, started over, or finished.      *)
(***************************************************************************)
CONSTANTS
    Cursor,     \* positions of the upstream history
    Order,      \* source references of orders
    Nil         \* the start of the history

VARIABLES
    at,         \* the position the next page is read from
    open,       \* whether a walk is under way
    walked,     \* the positions the open walk has committed
    held        \* the orders the ledger retains

vars == <<at, open, walked, held>>

\* A ledger may have been left at some position by an older release.
Init ==
    /\ at \in Cursor \cup {Nil}
    /\ open = FALSE
    /\ walked = {}
    /\ held = {}

Begin ==
    /\ ~open
    /\ open' = TRUE
    /\ UNCHANGED <<at, walked, held>>

StartOver ==
    /\ open' = TRUE
    /\ at' = Nil
    /\ walked' = {}
    /\ UNCHANGED held

\* A page is committed: its orders are held and the walk moves on.  A position
\* is committed once per walk.
Commit(batch) ==
    /\ open
    /\ at \notin walked
    /\ held' = held \cup batch
    /\ \/ /\ at' \in Cursor
          /\ walked' = walked \cup {at}
          /\ UNCHANGED open
       \/ /\ at' = Nil
          /\ walked' = {}
          /\ open' = FALSE

Import(batch) ==
    /\ held' = held \cup batch
    /\ UNCHANGED <<at, open, walked>>

Purge ==
    /\ held' = {}
    /\ UNCHANGED <<at, open, walked>>

Next ==
    \/ Begin
    \/ StartOver
    \/ \E batch \in SUBSET Order : Commit(batch) \/ Import(batch)
    \/ Purge

Spec == Init /\ [][Next]_vars

=============================================================================

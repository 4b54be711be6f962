--------------------------- MODULE CategoryTables ---------------------------
(***************************************************************************)
(* The two category tables of a ledger and the statements that write them. *)
(* product_categories caches the last outcome of a product;                *)
(* product_category_observations keeps every outcome, unique by product,   *)
(* source and time.                                                        *)
(*                                                                         *)
(* EntryAlone and OtherRowsToo are not used by the specification: each is  *)
(* a plausible mistake in the operator next to it.                         *)
(***************************************************************************)
EXTENDS Naturals, FiniteSets, Sequences

VARIABLES
    cached,     \* product_categories
    observed    \* product_category_observations

ObservationKey(r) == <<r.product, r.source, r.at>>

\* Cached rows INSERT OR IGNORE ... SELECT adds an observation for.
Unseeded == {r \in cached : \A o \in observed : ObservationKey(o) # ObservationKey(r)}

\* The statement every open runs: releases before version 12 cached only.
Seed == observed' = observed \cup Unseeded /\ UNCHANGED cached

\* saveProductCategoryOutcome: cache and observation in one transaction.
EntryAlone(row) == observed
WithObservation(row) == observed \cup {row}

Save(row) ==
    /\ \A o \in observed : ObservationKey(o) # ObservationKey(row)
    /\ cached' = {r \in cached : r.product # row.product} \cup {row}
    /\ observed' = WithObservation(row)

\* The part of Purge that concerns them.
Empty == cached' = {} /\ observed' = {}

=============================================================================

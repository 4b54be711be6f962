--------------------------- MODULE MCLedgerSchema ---------------------------
(* Instances of LedgerSchema small enough for TLC.                         *)
EXTENDS LedgerSchema, TLC

CategoryRow(source, at) ==
    [product |-> 1, source |-> source, path |-> <<10>>, at |-> at]

MCLegacyCategories == {{}, {CategoryRow("breadcrumb", 0)}}
MCNewCategories == {CategoryRow("missing", 1)}

Symmetry == Permutations(Opener)

=============================================================================

--------------------------- MODULE MCAccountLedger ---------------------------
(* Instances of AccountLedger small enough for TLC.                        *)
EXTENDS AccountLedger, TLC

Symmetry == Permutations(Caller) \cup Permutations(Key)

=============================================================================

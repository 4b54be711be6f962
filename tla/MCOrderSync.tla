---------------------------- MODULE MCOrderSync ----------------------------
(* Instances of OrderSync small enough for TLC.                            *)
EXTENDS OrderSync, TLC

Symmetry == Permutations(Attempt) \cup Permutations(Cursor)
                \cup Permutations(Order)

=============================================================================

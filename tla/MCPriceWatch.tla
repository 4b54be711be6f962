---------------------------- MODULE MCPriceWatch ----------------------------
(* Instances of PriceWatch small enough for TLC.                           *)
EXTENDS PriceWatch, TLC

Symmetry == Permutations(Adder) \cup Permutations(Refresher)

=============================================================================

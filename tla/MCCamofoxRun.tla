---------------------------- MODULE MCCamofoxRun ----------------------------
(* Instances of CamofoxRun small enough for TLC.                           *)
EXTENDS CamofoxRun, TLC

Symmetry == Permutations(Slot)

=============================================================================

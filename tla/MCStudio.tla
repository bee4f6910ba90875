------------------------------ MODULE MCStudio ------------------------------
(***************************************************************************)
(* Instances of Studio for TLC.                                            *)
(***************************************************************************)
EXTENDS Studio, TLC

MCSymmetry == Permutations(Request) \cup Permutations(Tab) \cup Permutations(Existing)
=============================================================================

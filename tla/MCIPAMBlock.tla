----------------------------- MODULE MCIPAMBlock ----------------------------
(* A finite instance of IPAMBlock for TLC.                                 *)
EXTENDS IPAMBlock, TLC

MCSymmetry == Permutations(Handles)
=============================================================================

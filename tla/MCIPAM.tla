------------------------------- MODULE MCIPAM -------------------------------
(* Finite instances of IPAM for TLC.                                       *)
EXTENDS IPAMInv, TLC

\* Clients and handles are interchangeable.
MCSymmetry == Permutations(Clients) \cup Permutations(Handles)
=============================================================================

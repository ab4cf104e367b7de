------------------------------ MODULE MCIPPool ------------------------------
(* Finite instances of IPPoolController for TLC.                           *)
EXTENDS IPPoolController
=============================================================================

---------------------------- MODULE MCHelmRelease ----------------------------
(* Finite instances of HelmRelease for TLC.                                *)
EXTENDS HelmRelease
=============================================================================

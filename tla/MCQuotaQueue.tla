---------------------------- MODULE MCQuotaQueue ----------------------------
(* A finite instance of QuotaQueue for TLC.                                *)
EXTENDS QuotaQueue, TLC
CONSTANTS r1, r2, r3, r4, n1, n2
\* Three requests of one namespace and one of another.
MCNsOf == (r1 :> n1 @@ r2 :> n1 @@ r3 :> n1 @@ r4 :> n2)
=============================================================================

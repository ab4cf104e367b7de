-------------------------- MODULE MCQuotaAdmission --------------------------
(* Finite instances of QuotaAdmission for TLC.                             *)
EXTENDS QuotaAdmission
CONSTANTS r2, r3, n1, n2
\* r3 has a namespace to itself.
MCNsOf  == [w \in Waiters |-> IF w = r3 THEN n2 ELSE n1]
\* Every request takes one of what a quota limits, but quota 1 does not match r2.
MCDelta == [w \in Waiters |-> [q \in Quotas |-> IF w = r2 /\ q = 1 THEN 0 ELSE 1]]
MCHard  == [q \in Quotas |-> q]
=============================================================================

\* Two workers race for two quotas; nothing is recounted.
CONSTANTS
  r2 = r2
  r3 = r3
  n1 = n1
  n2 = n2
  Waiters = {r1, r2, r3, r4}
  Namespaces = {n1, n2}
  Quotas = {1, 2}
  NsOf <- MCNsOf
  Delta <- MCDelta
  Hard <- MCHard
  DryRun = {r4}
  Retries = 1
  MaxFaults = 0
  Recount = FALSE
  None = None
SPECIFICATION Spec
INVARIANTS AdmittedPaid ChargedOnce LedgerExact NoOvercommit TotalIsSum NoCircularWait
PROPERTY NoLostUpdate
CHECK_DEADLOCK FALSE

\* A request that names both quotas is tried again for one of them.
CONSTANTS
  r2 = r2
  r3 = r3
  n1 = n1
  n2 = n2
  Waiters = {r1, r2, r3}
  Namespaces = {n1, n2}
  Quotas = {1, 2}
  NsOf <- MCNsOf
  Delta <- MCDelta
  Hard <- MCHard
  DryRun = {}
  Retries = 2
  MaxFaults = 0
  Recount = FALSE
  None = None
SPECIFICATION Spec
INVARIANT RefusedNotAdmitted
CHECK_DEADLOCK FALSE

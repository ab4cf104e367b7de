\* Two workers and a recount of the one quota; one call fails.
CONSTANTS
  r2 = r2
  r3 = r3
  n1 = n1
  n2 = n2
  Waiters = {r1, r3}
  Namespaces = {n1, n2}
  Quotas = {1}
  NsOf <- MCNsOf
  Delta <- MCDelta
  Hard <- MCHard
  DryRun = {}
  Retries = 1
  MaxFaults = 1
  Recount = TRUE
  None = None
SPECIFICATION FairSpec
INVARIANTS TotalIsSum QuotaInv
PROPERTIES EveryoneAnswered UsageConverges
CHECK_DEADLOCK FALSE

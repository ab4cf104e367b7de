\* Two workers; three requests of one namespace and one of another.
CONSTANTS
  r1 = r1
  r2 = r2
  r3 = r3
  r4 = r4
  n1 = n1
  n2 = n2
  Waiters = {r1, r2, r3, r4}
  Namespaces = {n1, n2}
  Workers = {k1, k2}
  NsOf <- MCNsOf
  None = None
SPECIFICATION FairSpec
INVARIANTS QueueInv NoneLost Woken
PROPERTY ImplementsBatches
CHECK_DEADLOCK FALSE

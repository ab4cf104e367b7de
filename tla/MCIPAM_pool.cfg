\* A VLAN pool: one block, its first and last address reserved; it is disabled
\* and deleted by the IPPool controller, API calls fail and processes crash.
CONSTANTS
  Clients = {c1, c2}
  Handles = {h1, h2}
  BlockSize = 4
  Reserved = {0, 3}
  NumBlocks = 1
  datastoreRetries = 2
  SharedHandles = FALSE
  Faults = {"poolChange", "crash", "apiError"}
  MaxHandleCount = 1
  Free = Free
  ReservedHandle = ReservedHandle
  None = None
SPECIFICATION Spec
SYMMETRY MCSymmetry
INVARIANTS ReservedKept SafeInv
PROPERTY ImplementsAddressPool

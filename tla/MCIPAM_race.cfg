\* Two clients race on two handles over two blocks of one address; no faults.
CONSTANTS
  Clients = {c1, c2}
  Handles = {h1, h2}
  BlockSize = 1
  Reserved = {}
  NumBlocks = 2
  datastoreRetries = 2
  SharedHandles = FALSE
  Faults = {}
  MaxHandleCount = 1
  Free = Free
  ReservedHandle = ReservedHandle
  None = None
SPECIFICATION Spec
SYMMETRY MCSymmetry
INVARIANTS HandleCovers ReleasedClean GrantsRecorded
PROPERTY ImplementsAddressPool

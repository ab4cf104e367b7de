\* A block is marked deleted, assigned from, and then deleted.
CONSTANTS
  Clients = {c1, c2}
  Handles = {h1, h2}
  BlockSize = 2
  Reserved = {}
  NumBlocks = 1
  datastoreRetries = 2
  SharedHandles = FALSE
  Faults = {}
  MaxHandleCount = 1
  Free = Free
  ReservedHandle = ReservedHandle
  None = None
SPECIFICATION Spec
INVARIANT MissingBlockUnallocated

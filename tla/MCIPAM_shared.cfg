\* Two clients work on one handle at the same time; every call returns.
CONSTANTS
  Clients = {c1, c2}
  Handles = {h1}
  BlockSize = 2
  Reserved = {}
  NumBlocks = 1
  datastoreRetries = 2
  SharedHandles = TRUE
  Faults = {}
  MaxHandleCount = 0
  Free = Free
  ReservedHandle = ReservedHandle
  None = None
SPECIFICATION FairSpec
INVARIANT TypeOK
PROPERTY Termination

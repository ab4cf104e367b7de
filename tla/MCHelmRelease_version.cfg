\* Two requests compute the next version from the same old copy.
CONSTANTS
  MaxEdits = 3
  MaxFaults = 0
  MaxWrites = 6
  None = None
SPECIFICATION Spec
INVARIANT VersionTellsChart
CHECK_DEADLOCK FALSE

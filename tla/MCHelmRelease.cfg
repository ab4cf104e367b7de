\* Created, then two upgrades or modifications, with a fault anywhere.
CONSTANTS
  MaxEdits = 3
  MaxFaults = 1
  MaxWrites = 5
  None = None
SPECIFICATION FairSpec
INVARIANTS NothingLeft VersionDeployed HelmInv
PROPERTIES NeverOlder DeletionCompletes ReleaseSettles
CHECK_DEADLOCK FALSE

\* Two callers; five edits in any order; one failed call or restart.
CONSTANTS
  Callers = {a1, a2}
  None = None
  MaxEdits = 5
  MaxFaults = 1
SPECIFICATION FairSpec
INVARIANTS ControllerTypeOK NothingForgotten
PROPERTIES ProtectsUse DeletionCompletes StatusConverges
CHECK_DEADLOCK FALSE

SPECIFICATION Spec
CONSTANTS
  Job = {j1}
  MaxRuns = 2
  Env = {"pause", "cancel", "kill", "stop", "crash"}
  None = None
INVARIANTS
  OneRunAtATime
PROPERTIES
  RecoveryTouchesNoOwner
  ImplementsService
CHECK_DEADLOCK FALSE

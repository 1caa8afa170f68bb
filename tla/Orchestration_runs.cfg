SPECIFICATION Spec
CONSTANTS
  Job = {j1}
  Retried = {}
  MaxRuns = 2
  MaxJobs = 1
  Modes = {"parallel"}
  Env = {"cancel", "slow", "crash", "stop"}
INVARIANTS
  OneActiveRun
  OneJobHunter
  ActiveHasDriver
PROPERTIES
  OverIsOver
CHECK_DEADLOCK FALSE

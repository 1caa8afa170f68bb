SPECIFICATION FairSpec
CONSTANTS
  Job = {j1, j2}
  MaxRuns = 1
  Env = {"pause", "cancel", "retry", "kill", "stop", "crash", "faults"}
  None = None
INVARIANTS
  TypeOK
  CompletedIsCounted
  StrandedOnlyByClosing
PROPERTIES
  WaitingWorkerObeys
  WorkerHalts
CHECK_DEADLOCK FALSE

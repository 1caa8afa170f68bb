SPECIFICATION FairSpec
CONSTANTS
  Job = {j1, j2}
  Retried = {j2}
  MaxRuns = 1
  MaxJobs = 1
  Modes = {"sequential", "parallel", "synthetic"}
  Env = {"cancel", "timeouts", "faults", "kill", "user"}
INVARIANTS
  TypeOK
  NoOrphanChild
  CompletedIsEarned
  ImportIsBacked
  PassesBounded
PROPERTIES
  ThreadEnds
CHECK_DEADLOCK FALSE

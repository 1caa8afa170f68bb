SPECIFICATION Spec
CONSTANTS
  Job = {j1}
  Field = {f1}
  Client = {c1}
  FileStatus = {"ready_to_apply", "queued", "applied"}
  Lines = 2
  Actors = {"live", "retry", "import", "cli", "kill", "faults"}
  None = None
PROPERTY SavedAnswersStay
CHECK_DEADLOCK FALSE

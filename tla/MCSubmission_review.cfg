SPECIFICATION Spec
CONSTANTS
  App = {a1}
  Snap = {s1, s2}
  Clean = {s1}
  Risky = {s1}
  Attempt = {r1, r2}
  Observer = {o1, o2}
  Path = {"service", "direct"}
  Env = {"approve", "interventions", "restart"}
  None = None
SYMMETRY Requests
INVARIANTS
  ClickIsOnApprovedContent
  RecordsAreTrue
PROPERTIES
  NoClickWhenDisabled
CHECK_DEADLOCK FALSE

SPECIFICATION Spec
CONSTANTS
  App = {a1}
  Snap = {s1, s2}
  Clean = {s1, s2}
  Risky = {}
  Attempt = {r1, r2}
  Observer = {o1, o2}
  Path = {"service"}
  Env = {"approve"}
  None = None
SYMMETRY RequestsAndContents
INVARIANTS
  ClicksAreEndorsed
CHECK_DEADLOCK FALSE
